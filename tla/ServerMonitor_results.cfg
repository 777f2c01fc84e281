SPECIFICATION MonitoredFairSpec
CONSTANTS
  Monitor = monitor
  Callers = {c1, monitor}
  Members = {}
  Maintainers = {c1}
  Players = {}
  Ops = {"update"}
  Faults = {"outage", "timeout"}
  MaxOps = 2
  MaxJobs = 2
  BootPolls = 1
  IdlePolls = 0
  MaxRestarts = 1
INVARIANTS
  MonTypeOK
  ResultsToldOnce
  OldResultsStayQuiet
PROPERTY ResultsArrive
CHECK_DEADLOCK FALSE
