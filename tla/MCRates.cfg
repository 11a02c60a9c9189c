SPECIFICATION Spec
CONSTANTS
  Devices <- TwoDisks
  HZ = 100
  W = 32
  MaxTicks = 2
  MaxIos = 1
  MaxFaults = 1
  MaxRounds = 2
INVARIANTS
  CpuRatedAgainstReading
  SharesAddUp
  IoRatedByOwnRow
  IntervalIsElapsed
CHECK_DEADLOCK FALSE
