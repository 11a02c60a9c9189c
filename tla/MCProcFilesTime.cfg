SPECIFICATION Spec
CONSTANTS
  Names <- SomeNames
  Owners <- Users
  Accounts <- Known
  MaxLives = 2
INVARIANTS
  CpuTimeIsUtimePlusStime
CHECK_DEADLOCK FALSE
