SPECIFICATION Safety
CONSTANTS
  r = r
  a = a
  b = b
  Cids = {r, a}
  Calls = {c1}
  Peers = {p1}
  Uploads = {}
  NoCid = NoCid
  Links <- Pair
INVARIANTS
  SyncOkMeansDag
CHECK_DEADLOCK FALSE
