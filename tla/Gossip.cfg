SPECIFICATION GossipSpec
CONSTANTS
  a = a
  b = b
  c = c
  Nodes = {a, b, c}
  Edges <- Line
  Data = {d}
  MaxDrops = 2
  MaxForgets = 1
INVARIANTS
  ShownOncePerMinute
PROPERTIES
  PublishedIsShown
CHECK_DEADLOCK FALSE
