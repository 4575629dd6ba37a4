SPECIFICATION Spec
CONSTANTS
  p1 = p1
  p2 = p2
  p3 = p3
  r1 = r1
  r2 = r2
  r3 = r3
  Puts = {p1, p2, p3}
  Roots = {r1, r2, r3}
  RootsOf <- OneRootEach
  Whole = {r1, r2}
  Size <- Sizes
  MaxEntries = 2
  Faults = TRUE
  MaxNatChanges = 2
  MaxRestarts = 1
INVARIANTS
  NoStrandedRoot
  ChainIsWhole
  AdsListWholeDags
PROPERTIES
  HeadNeverGoesBack
  QueuedIsAdvertised
CHECK_DEADLOCK FALSE
