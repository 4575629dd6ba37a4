SPECIFICATION Spec
CONSTANTS
  Peers = {p1}
  UrsaPeers = {p1}
  Bootstrap = {p1}
  Clients = {p1}
  MaxPerPeer = 2
  MaxBacklog = 3
  MaxCircuits = 1
  MaxLeaks = 1
INVARIANTS
  ConnectedPeersAreListed
