SPECIFICATION Spec
CONSTANTS
  MaxRows = 1
  Info <- OnlyWho
  Selections <- OnlyCpu
  Counts <- UpToThree
  Unreadable <- NoModule
  FdLimit = 3
  MaxRounds = 3
INVARIANTS
  OnlyLastAnswerKept
CHECK_DEADLOCK FALSE
