SPECIFICATION MonitoredSpec
CONSTANTS
  Monitor = monitor
  Callers = {c1, monitor}
  Members = {}
  Maintainers = {c1}
  Players = {p1}
  Ops = {"update"}
  Faults = {"refuse"}
  MaxOps = 1
  MaxJobs = 1
  BootPolls = 1
  IdlePolls = 0
  MaxRestarts = 1
INVARIANT OldResultsStayQuiet
CHECK_DEADLOCK FALSE
