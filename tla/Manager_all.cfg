SPECIFICATION FairSpec
CONSTANTS
  Callers = {c1, c2}
  Members = {c2}
  Maintainers = {c1}
  Players = {p1}
  Ops = {"start", "stop", "force", "restart", "update", "restore"}
  Faults = {"outage", "timeout", "refuse", "crash"}
  MaxOps = 3
  MaxJobs = 2
  BootPolls = 2
INVARIANTS
  TypeOK
  DeniedMeansNotQueued
PROPERTIES
  CommandsTakeTurns
  OperationsAdvance
  OperationsReturn
  PoweroffIsSaved
CHECK_DEADLOCK FALSE
