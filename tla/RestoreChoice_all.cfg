SPECIFICATION Spec
CONSTANTS
  Users = {u1}
  Keep = 1
  Listed = 2
  Lifetime = 1
  MaxTime = 2
  MaxPrints = 4
  MaxWorlds = 2
  MaxViews = 2
  MaxClicks = 2
INVARIANTS
  TypeOK
  ReplacedWorldIsKept
  OneRequestPerView
  LastBackupStands
PROPERTY RestoresWhatWasShown
CHECK_DEADLOCK FALSE
