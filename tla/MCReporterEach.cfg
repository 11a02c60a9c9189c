SPECIFICATION FairSpec
CONSTANTS
  MaxRows = 1
  Info <- OneOfEach
  Selections <- AllOrSome
  Counts <- EndlessTwoOrThree
  Unreadable <- AllButIo
  FdLimit = 2
  MaxRounds = 3
INVARIANTS
  TypeOK
  NoDanglingRecord
  HeapAccountedFor
  ReportShowsLastAnswer
  BaselineIsPreviousRound
  DescriptorsBoundReports
PROPERTIES
  HistoryIsKept
  ReportLoopSpec
  CountedRunEnds
  EndlessRunGoesOn
CHECK_DEADLOCK FALSE
