SPECIFICATION Spec
CONSTANTS
  Calls = {c1, c2}
  Blocks = {r, a}
  Root = r
  PipeItems = 1
INVARIANTS
  OkIsDone
  StoredIsWhole
PROPERTIES
  CallsEnd
  WritersEnd
CHECK_DEADLOCK FALSE
