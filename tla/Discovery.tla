----------------------------- MODULE Discovery -----------------------------
(***************************************************************************)
(* Who the node thinks it is connected to: connections come and go in the  *)
(* swarm, DiscoveryBehaviour (ursa-network/src/discovery.rs) turns them    *)
(* into a set of peers and into events, Behaviour (behaviour.rs) forwards  *)
(* the events, and the network loop (service.rs) moves the gauges of       *)
(* ursa-metrics and tells the subscriber of UrsaEvent.  The set decides    *)
(* whether a GetBitswap command has anybody to ask.  The relay server's    *)
(* events pass through the same queue of the behaviour, and identify       *)
(* decides which peers the node dials again after it lost them.            *)
(*                                                                         *)
(* A peer may have several connections at once (max_established_per_peer   *)
(* is 8 in service.rs); which of them closes makes no difference here, so  *)
(* they are counted.                                                       *)
(***************************************************************************)
EXTENDS Integers, Sequences, FiniteSets

CONSTANTS
  Peers,        \* the remote peers
  UrsaPeers,    \* those that speak URSA_KAD_PROTOCOL
  Bootstrap,    \* NetworkConfig::bootstrap_nodes, the addresses that parse
  Clients,      \* those that ask the node's relay server for a reservation
  MaxPerPeer,   \* max_established_per_peer
  MaxBacklog,   \* bound on each queue of events, for model checking
  MaxCircuits,  \* bound on the circuits relayed at once
  MaxLeaks      \* bound on the reservations that end with their connection

ASSUME PeersAssumption == UrsaPeers \cup Bootstrap \cup Clients \subseteq Peers
ASSUME BoundsAssumption == /\ MaxPerPeer \in Nat \ {0}
                           /\ MaxBacklog \in Nat \ {0}
                           /\ MaxCircuits \in Nat
                           /\ MaxLeaks \in Nat

VARIABLES
  conns,     \* per peer, the established connections of the swarm
  peers,     \* DiscoveryBehaviour::peers
  kad,       \* the peers that Kademlia holds for connected (external)
  found,     \* DiscoveryBehaviour::events
  events,    \* Behaviour::events
  gauge,     \* the gauges of ursa-metrics
  view,      \* the peers a subscriber of UrsaEvent holds for connected
  addrs,     \* the peers of which Kademlia or mdns knows an address
  explicit,  \* the explicit peers of gossipsub (external)
  met,       \* history: the Ursa peers that identified themselves
  reserved,  \* per peer, its connections with a relay reservation (external)
  circuits,  \* the circuits relayed for others (external)
  leaked     \* history: the reservations that ended with their connection

swarm == <<conns, peers, kad, found>>
known == <<addrs, explicit, met>>
relay == <<reserved, circuits, leaked>>
vars == <<swarm, known, relay, events, gauge, view>>

Event == [kind : {"connected", "disconnected"}, peer : Peers]

\* BehaviourEvent: Discovery's events and the relay server's.
BehaviourEvent == Event \cup [kind : {"reserved", "expired"}, peer : Peers]
                        \cup [kind : {"opened", "ended"}]

Gauges == {"peers", "reservations", "circuits"}

TypeOK ==
  /\ conns \in [Peers -> 0 .. MaxPerPeer]
  /\ peers \in SUBSET Peers
  /\ kad \in SUBSET Peers
  /\ found \in Seq(Event)
  /\ events \in Seq(BehaviourEvent)
  /\ gauge \in [Gauges -> Int]
  /\ view \in SUBSET Peers
  /\ addrs \in SUBSET Peers
  /\ explicit \in SUBSET Peers
  /\ met \in SUBSET UrsaPeers
  /\ reserved \in [Peers -> Nat]
  /\ \A p \in Peers : reserved[p] <= conns[p]
  /\ circuits \in 0 .. MaxCircuits
  /\ leaked \in 0 .. MaxLeaks

\* DiscoveryBehaviour::new, then bootstrap: the configured nodes are known.
Init ==
  /\ conns = [p \in Peers |-> 0]
  /\ peers = {} /\ kad = {}
  /\ found = <<>> /\ events = <<>>
  /\ gauge = [g \in Gauges |-> 0]
  /\ view = {}
  /\ addrs = Bootstrap
  /\ explicit = {} /\ met = {}
  /\ reserved = [p \in Peers |-> 0]
  /\ circuits = 0 /\ leaked = 0

\* Kademlia looks at the first connection of a peer and at the last.
KadEstablished(p, otherEstablished) == IF otherEstablished = 0 THEN kad \cup {p} ELSE kad
KadClosed(p, remaining) == IF remaining = 0 THEN kad \ {p} ELSE kad

\* Every connection is news.
NoteEveryEstablished(p) ==
  /\ peers' = peers \cup {p}
  /\ kad' = KadEstablished(p, conns[p])
  /\ found' = Append(found, [kind |-> "connected", peer |-> p])

\* inject_connection_established: news only when the peer was not in the set.
NoteEstablished(p) ==
  IF p \notin peers
    THEN /\ peers' = peers \cup {p}
         /\ kad' = KadEstablished(p, conns[p])
         /\ found' = Append(found, [kind |-> "connected", peer |-> p])
    ELSE UNCHANGED <<peers, kad, found>>

\* The news is given but the peer stays in the set.
NoteClosedKeeping(p) ==
  IF p \in peers
    THEN /\ kad' = KadClosed(p, conns[p] - 1)
         /\ found' = Append(found, [kind |-> "disconnected", peer |-> p])
         /\ UNCHANGED peers
    ELSE UNCHANGED <<peers, kad, found>>

\* Kademlia is told that no connection remains.
NoteClosedForLast(p) ==
  IF p \in peers
    THEN /\ peers' = peers \ {p}
         /\ kad' = KadClosed(p, 0)
         /\ found' = Append(found, [kind |-> "disconnected", peer |-> p])
    ELSE UNCHANGED <<peers, kad, found>>

\* inject_connection_closed: the peer leaves the set with the FIRST of its
\* connections that closes; the others close without news.
NoteClosed(p) ==
  IF p \in peers
    THEN /\ peers' = peers \ {p}
         /\ kad' = KadClosed(p, conns[p] - 1)
         /\ found' = Append(found, [kind |-> "disconnected", peer |-> p])
    ELSE UNCHANGED <<peers, kad, found>>

\* A connection is established, up to the limit of the swarm.
Established(p) ==
  /\ conns[p] < MaxPerPeer
  /\ Len(found) < MaxBacklog
  /\ conns' = [conns EXCEPT ![p] = @ + 1]
  /\ NoteEstablished(p)
  /\ UNCHANGED <<known, relay, events, gauge, view>>

\* Every so many heartbeats (check_explicit_peers_ticks) gossipsub dials an
\* explicit peer that is not connected, at the addresses that
\* addresses_of_peer gives.
Redial(p) ==
  /\ p \in explicit \cap addrs
  /\ conns[p] = 0
  /\ Established(p)

\* The relay server drops the reservation of a connection that closes, and
\* reports nothing.
DropReservation(p) ==
  /\ reserved[p] > 0
  /\ leaked < MaxLeaks
  /\ reserved' = [reserved EXCEPT ![p] = @ - 1]
  /\ leaked' = leaked + 1
  /\ UNCHANGED circuits

\* A connection is closed, by either side; it may hold a reservation or not.
Closed(p) ==
  /\ conns[p] > 0
  /\ Len(found) < MaxBacklog
  /\ conns' = [conns EXCEPT ![p] = @ - 1]
  /\ NoteClosed(p)
  /\ \/ DropReservation(p)
     \/ reserved[p] < conns[p] /\ UNCHANGED relay
  /\ UNCHANGED <<known, events, gauge, view>>

\* handle_mdns_event, Discovered: the address of a neighbour is added.
MdnsDiscovered(p) ==
  /\ addrs' = addrs \cup {p}
  /\ UNCHANGED <<swarm, relay, explicit, met, events, gauge, view>>

\* The addresses of the peer are kept, but nobody is asked to dial it again.
AdoptAddressesOnly(p) == addrs' \in {addrs, addrs \cup {p}} /\ UNCHANGED explicit

\* A peer of the same network becomes an explicit peer of gossipsub, and the
\* addresses it listens on, if it reports any, become known.
Adopt(p) == addrs' \in {addrs, addrs \cup {p}} /\ explicit' = explicit \cup {p}

\* handle_identify, Received: a peer of another network changes nothing.
Identify(p) ==
  /\ conns[p] > 0
  /\ p \in UrsaPeers
  /\ Adopt(p)
  /\ met' = met \cup {p}
  /\ UNCHANGED <<swarm, relay, events, gauge, view>>

Push(event) == Len(events) < MaxBacklog /\ events' = Append(events, event)

\* A renewal is reported like a new reservation.
ReservationNewsAlways(renewed) == TRUE

\* handle_relay_server, ReservationReqAccepted: a renewal is no news.
ReservationNews(renewed) == ~renewed

\* A peer reserves a slot on one of its connections, or renews one it has.
Reserve(p, renewed) ==
  /\ p \in Clients
  /\ IF renewed THEN reserved[p] > 0 ELSE reserved[p] < conns[p]
  /\ reserved' = [reserved EXCEPT ![p] = IF renewed THEN @ ELSE @ + 1]
  /\ IF ReservationNews(renewed) THEN Push([kind |-> "reserved", peer |-> p])
                                 ELSE UNCHANGED events
  /\ UNCHANGED <<swarm, known, circuits, leaked, gauge, view>>

\* handle_relay_server, ReservationTimedOut.
ReservationTimedOut(p) ==
  /\ reserved[p] > 0
  /\ reserved' = [reserved EXCEPT ![p] = @ - 1]
  /\ Push([kind |-> "expired", peer |-> p])
  /\ UNCHANGED <<swarm, known, circuits, leaked, gauge, view>>

\* handle_relay_server, CircuitReqAccepted: somebody is connected to a peer
\* that has a reservation.
CircuitReqAccepted ==
  /\ \E p \in Peers : reserved[p] > 0
  /\ circuits < MaxCircuits
  /\ circuits' = circuits + 1
  /\ Push([kind |-> "opened"])
  /\ UNCHANGED <<swarm, known, reserved, leaked, gauge, view>>

\* handle_relay_server, CircuitClosed: reported also when a connection that
\* the circuit uses closes.
CircuitClosed ==
  /\ circuits > 0
  /\ circuits' = circuits - 1
  /\ Push([kind |-> "ended"])
  /\ UNCHANGED <<swarm, known, reserved, leaked, gauge, view>>

\* The newest event overtakes the ones that wait.
ForwardInFront ==
  /\ found # <<>>
  /\ Len(events) < MaxBacklog
  /\ found' = Tail(found)
  /\ events' = <<Head(found)>> \o events
  /\ UNCHANGED <<conns, peers, kad, known, relay, gauge, view>>

\* Of discovery's events, only that a peer is connected is forwarded.
ForwardConnectedOnly ==
  /\ found # <<>>
  /\ found' = Tail(found)
  /\ IF Head(found).kind = "connected" THEN Push(Head(found)) ELSE UNCHANGED events
  /\ UNCHANGED <<conns, peers, kad, known, relay, gauge, view>>

\* poll of discovery gives its own events first, the oldest of them, and
\* handle_discovery makes it one of the behaviour.
Forward ==
  /\ found # <<>>
  /\ found' = Tail(found)
  /\ Push(Head(found))
  /\ UNCHANGED <<conns, peers, kad, known, relay, gauge, view>>

\* track: which gauge an event moves, and by how much.
Track ==
  [connected    |-> [gauge |-> "peers",        by |-> 1],
   disconnected |-> [gauge |-> "peers",        by |-> -1],
   reserved     |-> [gauge |-> "reservations", by |-> 1],
   expired      |-> [gauge |-> "reservations", by |-> -1],
   opened       |-> [gauge |-> "circuits",     by |-> 1],
   ended        |-> [gauge |-> "circuits",     by |-> -1]]

\* The event channel: only news of peers goes to the subscriber.
Tell(e) ==
  view' = CASE e.kind = "connected"    -> view \cup {e.peer}
            [] e.kind = "disconnected" -> view \ {e.peer}
            [] OTHER                   -> view

\* The loop's handlers: every one of these events moves one gauge.
Move(e) == gauge' = [gauge EXCEPT ![Track[e.kind].gauge] = @ + Track[e.kind].by]

\* poll of the behaviour gives the oldest event; the loop handles it.
Handle ==
  /\ events # <<>>
  /\ events' = Tail(events)
  /\ Move(Head(events))
  /\ Tell(Head(events))
  /\ UNCHANGED <<swarm, known, relay>>

Next == \/ \E p \in Peers : \/ Established(p)
                            \/ Redial(p)
                            \/ Closed(p)
                            \/ MdnsDiscovered(p)
                            \/ Identify(p)
                            \/ \E renewed \in BOOLEAN : Reserve(p, renewed)
                            \/ ReservationTimedOut(p)
        \/ CircuitReqAccepted
        \/ CircuitClosed
        \/ Forward
        \/ Handle

(***************************************************************************)
(* The swarm is polled again and again, so queued events move.  Gossipsub  *)
(* dials its explicit peers again and again, and such a peer is taken to   *)
(* be reachable.  Strong fairness where the bound on a queue, which the    *)
(* code does not have, may disable the step for a while.  Otherwise the    *)
(* network owes nothing.                                                   *)
(***************************************************************************)
Spec == /\ Init /\ [][Next]_vars
        /\ SF_vars(Forward) /\ WF_vars(Handle)
        /\ \A p \in Peers : SF_vars(Redial(p))

-----------------------------------------------------------------------------
\* The events of a kind that are on their way.
HowMany(queue, kind) == Cardinality({i \in DOMAIN queue : queue[i].kind = kind})
Count(kind) == HowMany(events, kind) + HowMany(found, kind)

\* The reservations, numbered per peer.
Reservations == {r \in Peers \X (1 .. MaxPerPeer) : r[2] <= reserved[r[1]]}

(***************************************************************************)
(* Nobody is asked for blocks who has no connection: a peer of the set has *)
(* at least one.                                                           *)
(***************************************************************************)
PeersHaveConnections == \A p \in peers : conns[p] > 0

(***************************************************************************)
(* Kademlia is never told that a connected peer is gone, although it hears *)
(* only of the connections that change the set: it may keep a peer that is *)
(* gone (the last connection may close without news), never lose one.      *)
(***************************************************************************)
KadKeepsConnected == \A p \in Peers : conns[p] > 0 => p \in kad

(***************************************************************************)
(* The gauge never drifts: with the events in flight applied it is the     *)
(* number of peers in the set, however connections of a peer overlap.      *)
(***************************************************************************)
GaugeIsConserved ==
  gauge["peers"] + Count("connected") - Count("disconnected") = Cardinality(peers)

(***************************************************************************)
(* The gauges of the relay server never drift further than the code lets   *)
(* them: with the events in flight applied, the one of circuits is exact,  *)
(* and the one of reservations is too high by exactly the reservations     *)
(* that ended with their connection, which no event reports; renewals and  *)
(* timeouts in any order add nothing to that.                              *)
(***************************************************************************)
RelayGauges ==
  /\ gauge["reservations"] + Count("reserved") - Count("expired")
       = Cardinality(Reservations) + leaked
  /\ gauge["circuits"] + Count("opened") - Count("ended") = circuits

(***************************************************************************)
(* A subscriber never hears the same news of a peer twice in a row: the    *)
(* loop handles "connected" only for a peer that it last reported gone,    *)
(* and the other way round; otherwise the gauge would count a peer twice.  *)
(***************************************************************************)
NewsAlternates ==
  [][\A p \in Peers :
        events # <<>> /\ events' = Tail(events) /\ Head(events) \in Event /\ Head(events).peer = p
        => (Head(events).kind = "connected" <=> p \notin view)]_vars

(***************************************************************************)
(* Every piece of news gets through both queues to the subscriber, of a    *)
(* peer that joins the set and of one that leaves it, also when other news *)
(* of that peer is already behind it.                                      *)
(***************************************************************************)
NewsArrives ==
  \A p \in Peers : (p \in peers ~> p \in view) /\ (p \notin peers ~> p \notin view)

(***************************************************************************)
(* A peer of the network that identified itself is not lost with its last  *)
(* connection: identify left the wish to dial it again, so the node meets  *)
(* it again if it has an address of it, from identify, mdns or the         *)
(* configuration, and the peer can be reached.                             *)
(***************************************************************************)
MeetAgain == \A p \in UrsaPeers : p \in met \cap addrs /\ conns[p] = 0 ~> conns[p] > 0

(***************************************************************************)
(* What the field's comment says (discovery.rs, "Connected peers."): the   *)
(* set holds the connected peers.  The code does NOT guarantee it: see the *)
(* run still_connected.                                                    *)
(***************************************************************************)
ConnectedPeersAreListed == \A p \in Peers : conns[p] > 0 => p \in peers

=============================================================================
