SPECIFICATION Spec
CONSTANTS
  Levels <- InfoOrOff
  MaxByte <- SmallOrNone
  MaxMessage = 2
  Entries <- AllEntries
  Seconds <- Edges
  MaxRows = 3
  FdLimit = 2
  MaxCalls = 2
  MaxName = 5
INVARIANTS
  LogIsBounded
  KeepsPromise
  ExitHasCause
  RowsShowTheirEntries
  RowsAreAllocated
  CrashHasCause
  GatewayIsFirstDefault
  UptimeAddsUp
  IsDigitTakesNumbers
CHECK_DEADLOCK FALSE
