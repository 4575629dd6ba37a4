SPECIFICATION MissingSpec
CONSTANTS
  MaxCid = 4
  MaxLinks = 2
  Cids <- AllCids
  BadSets <- LastBad
  Lists <- AllLists
INVARIANTS
  NothingOverlooked
  ExactWhenQuiet
PROPERTIES
  WalkEnds
CHECK_DEADLOCK FALSE
