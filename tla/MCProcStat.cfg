SPECIFICATION Spec
CONSTANTS
  Pid <- ThreePids
  Lasting <- First
  Guests <- Second
  W = 8
  Garbage <- Stale
  MaxTicks = 1
  MaxScans = 2
INVARIANTS
  TypeOK
  ScanIsComplete
  RatedWhenKnown
  SamePlaceIsExact
CHECK_DEADLOCK FALSE
