SPECIFICATION Spec
CONSTANTS
  Callers = {c1}
  Members = {}
  Maintainers = {c1}
  Players = {p1}
  Ops = {"stop", "force", "start"}
  Faults = {"crash"}
  MaxOps = 1
  MaxJobs = 0
  BootPolls = 2
INVARIANT ArchiveIsConsistent
CHECK_DEADLOCK FALSE
