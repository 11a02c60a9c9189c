SPECIFICATION Spec
CONSTANTS
  MaxRows = 1
  Info <- CpuAndIo
  Selections <- OnlyCpu
  Counts <- UpToFive
  Unreadable <- NoModule
  FdLimit = 3
  MaxRounds = 5
INVARIANTS
  CountDeterminesReports
CHECK_DEADLOCK FALSE
