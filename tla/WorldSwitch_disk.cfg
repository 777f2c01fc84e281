SPECIFICATION Spec
CONSTANTS
  MaxRestores = 3
  MaxErrors = 2
  Missing = Missing
INVARIANTS
  TypeOK
  GapIsMarked
  PlayedWorldsKept
  SuccessIsDurable
PROPERTY ReplacesAtomically
