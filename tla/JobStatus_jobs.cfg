SPECIFICATION FairStatusSpec
CONSTANTS
  Sessions = {s1}
  Commands = {"backup", "restore"}
  MaxJobs = 2
  Faults = {"io", "kill"}
INVARIANTS
  StatusTypeOK
  
PROPERTIES
  JobsEnd
  LockReleased
