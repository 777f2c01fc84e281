SPECIFICATION Spec
CONSTANTS
  Callers = {c1}
  Members = {c1}
  Maintainers = {}
  Players = {p1}
  Ops = {"stop"}
  Faults = {"outage"}
  MaxOps = 1
  MaxJobs = 0
  BootPolls = 2
PROPERTY StoppedMeansOff
CHECK_DEADLOCK FALSE
