SPECIFICATION Spec
CONSTANTS
  Peers = {p1, p2}
  UrsaPeers = {p1}
  Bootstrap = {p2}
  Clients = {p2}
  MaxPerPeer = 2
  MaxBacklog = 2
  MaxCircuits = 1
  MaxLeaks = 1
INVARIANTS
  PeersHaveConnections
  KadKeepsConnected
  GaugeIsConserved
  RelayGauges
PROPERTIES
  NewsAlternates
  NewsArrives
  MeetAgain
