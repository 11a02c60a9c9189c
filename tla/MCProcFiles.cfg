SPECIFICATION Spec
CONSTANTS
  Names <- SomeNames
  Owners <- Users
  Accounts <- Known
  MaxLives = 2
INVARIANTS
  UserIsOwnersOrRoot
  StatIsOfOneProcess
CHECK_DEADLOCK FALSE
