SPECIFICATION Spec
CONSTANTS
  Devices <- OneDisk
  HZ = 100
  W = 32
  MaxTicks = 2
  MaxIos = 1
  MaxFaults = 1
  MaxRounds = 2
INVARIANTS
  NoRateFromLostTicks
CHECK_DEADLOCK FALSE
