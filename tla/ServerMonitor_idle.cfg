SPECIFICATION MonitoredFairSpec
CONSTANTS
  Monitor = monitor
  Callers = {c1, monitor}
  Members = {}
  Maintainers = {c1}
  Players = {p1}
  Ops = {"restart", "stop"}
  Faults = {"crash"}
  MaxOps = 2
  MaxJobs = 0
  BootPolls = 1
  IdlePolls = 2
  MaxRestarts = 0
PROPERTY IdleEndsOff
CHECK_DEADLOCK FALSE
