SPECIFICATION Spec
CONSTANTS
  MaxCid = 4
  Cids <- AllCids
  BadSets <- OneBad
  Shapes <- AllShapes
INVARIANTS
  WorklistInv
  OkMeansWholeDag
  NoBlockTwice
PROPERTIES
  FailsForItsReason
  Terminates
CHECK_DEADLOCK FALSE
