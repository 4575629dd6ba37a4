SPECIFICATION Spec
CONSTANTS
  r = r
  a = a
  b = b
  Cids = {r, a, b}
  Calls = {c1, c2}
  Peers = {p1}
  Uploads = {r, a, b}
  NoCid = NoCid
  Links <- Chain
INVARIANTS
  NoOrphanWaiter
  OneHome
  SpinIsFinite
  GrantedIsStored
  SyncBringsWholeDag
PROPERTIES
  Implements
  CallsReturn
  FoundIsGranted
CHECK_DEADLOCK FALSE
