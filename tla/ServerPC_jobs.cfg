SPECIFICATION Spec
CONSTANTS
  Sessions = {s1, s2}
  Commands = {"start", "restart", "shutdown", "backup", "poweroff", "update", "restore"}
  MaxJobs = 2
  Faults = {"crash", "kill", "power", "io"}
SYMMETRY Symmetry
INVARIANTS
  TypeOK
  RestoreBlockProtects
  StagesRunOffline
  BlockIsReported
  ArchiveSeesWholeWorld
PROPERTIES
  CommandsTakeTurns
  EmptyBeforeStop
  
  
