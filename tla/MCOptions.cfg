SPECIFICATION Spec
CONSTANTS
  Module <- TwoModules
  Element <- Elements
  MaxArgs = 4
INVARIANTS
  EnabledAsNamed
  LastNumberCounts
  ListingIsOfOptionsBefore
PROPERTIES
  ReadsOn
CHECK_DEADLOCK FALSE
