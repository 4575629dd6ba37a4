-------------------------- MODULE DiscoveryProofs --------------------------
(***************************************************************************)
(* The set of peers, Kademlia, the gauges and the subscriber, for every    *)
(* set of peers and every interleaving of their connections.               *)
(***************************************************************************)
EXTENDS Discovery, Facts

\* What one event does to the peers somebody holds for connected, if it is news.
Applies(v, e, w) ==
  CASE e.kind = "connected"    -> e.peer \notin v /\ w = v \cup {e.peer}
    [] e.kind = "disconnected" -> e.peer \in v /\ w = v \ {e.peer}
    [] OTHER                   -> w = v

\* f leads from one set of peers to another, event by event.
Path(s, f, from, to) ==
  /\ f[0] = from
  /\ f[Len(s)] = to
  /\ \A i \in 1 .. Len(s) : Applies(f[i - 1], s[i], f[i])

Leads(s, from, to) == \E f \in [0 .. Len(s) -> SUBSET Peers] : Path(s, f, from, to)

(***************************************************************************)
(* The subscriber catches up: the events of the behaviour's queue, and     *)
(* then those of discovery's, lead from what it holds for connected to the *)
(* set of peers, and each of them is news when its turn comes.             *)
(***************************************************************************)
CatchesUp ==
  \E mid \in SUBSET Peers : Leads(events, view, mid) /\ Leads(found, mid, peers)

Connections == PeersHaveConnections /\ KadKeepsConnected
Countable == IsFiniteSet(peers) /\ IsFiniteSet(Reservations)

\* The inductive invariant.
IInv ==
  /\ TypeOK /\ Connections /\ Countable
  /\ GaugeIsConserved /\ RelayGauges /\ CatchesUp

-----------------------------------------------------------------------------
(***************************************************************************)
(* Queues of events.                                                       *)
(***************************************************************************)
\* Discovery's events are events of the behaviour.
LEMMA EventTypes ==
  /\ Event \subseteq BehaviourEvent
  /\ \A s \in Seq(Event) : s \in Seq(BehaviourEvent)
  /\ \A e \in BehaviourEvent : e.kind \in {"connected", "disconnected"} => e.peer \in Peers
<1>1. Event \subseteq BehaviourEvent
  BY DEF BehaviourEvent
<1>2. \A s \in Seq(Event) : s \in Seq(BehaviourEvent)
  BY <1>1
<1>3. \A e \in BehaviourEvent : e.kind \in {"connected", "disconnected"} => e.peer \in Peers
  BY DEF BehaviourEvent, Event
<1>4. QED
  BY <1>1, <1>2, <1>3

\* Nothing queued leads nowhere.
LEMMA LeadsEmpty == ASSUME NEW v \in SUBSET Peers PROVE Leads(<<>>, v, v)
<1> DEFINE f == [i \in 0 .. 0 |-> v]
<1>1. f \in [0 .. Len(<<>>) -> SUBSET Peers] /\ Path(<<>>, f, v, v)
  BY DEF Path
<1>2. QED
  BY <1>1 DEF Leads

\* An event that is news at the end of the queue leads one step further.
LEMMA LeadsAppend ==
  ASSUME NEW T, NEW s \in Seq(T), NEW e \in T,
         NEW v \in SUBSET Peers, NEW w \in SUBSET Peers, NEW x \in SUBSET Peers,
         Leads(s, v, w), Applies(w, e, x)
  PROVE  Leads(Append(s, e), v, x)
<1> DEFINE n == Len(s)
           t == Append(s, e)
<1>1. n \in Nat /\ Len(t) = n + 1 /\ t[n + 1] = e /\ \A i \in 1 .. n : t[i] = s[i]
  OBVIOUS
<1>2. PICK f \in [0 .. n -> SUBSET Peers] : Path(s, f, v, w)
  BY DEF Leads
<1> DEFINE g == [i \in 0 .. n + 1 |-> IF i = n + 1 THEN x ELSE f[i]]
<1> HIDE DEF t, n
<1>3. \A i \in 0 .. n : g[i] = f[i] /\ i \in 0 .. n + 1
  BY <1>1
<1>4. g[n + 1] = x /\ g \in [0 .. n + 1 -> SUBSET Peers]
  BY <1>1, <1>2
<1> HIDE DEF g
<1>5. ASSUME NEW i \in 1 .. n + 1 PROVE Applies(g[i - 1], t[i], g[i])
  <2>1. CASE i = n + 1
    <3>1. i - 1 = n /\ n \in 0 .. n
      BY <1>1, <2>1
    <3>2. g[i - 1] = w
      BY <1>2, <1>3, <3>1 DEF Path, n
    <3>3. QED
      BY <1>1, <1>4, <2>1, <3>2
  <2>2. CASE i # n + 1
    <3>1. i \in 1 .. n /\ i - 1 \in 0 .. n /\ i \in 0 .. n
      BY <1>1, <2>2
    <3>2. Applies(f[i - 1], s[i], f[i])
      BY <1>2, <3>1 DEF Path, n
    <3>3. QED
      BY <1>1, <1>3, <3>1, <3>2
  <2>3. QED
    BY <2>1, <2>2
<1>6. g[0] = v
  BY <1>1, <1>2, <1>3 DEF Path
<1>7. Path(t, g, v, x)
  BY <1>1, <1>4, <1>5, <1>6 DEF Path
<1>8. QED
  BY <1>1, <1>4, <1>7 DEF Leads, t

\* The oldest event is news, and the others lead on from what it makes known.
LEMMA LeadsTail ==
  ASSUME NEW T, NEW s \in Seq(T), s # <<>>,
         NEW v \in SUBSET Peers, NEW w \in SUBSET Peers, Leads(s, v, w)
  PROVE  \E x \in SUBSET Peers : Applies(v, Head(s), x) /\ Leads(Tail(s), x, w)
<1> DEFINE n == Len(s)
           t == Tail(s)
<1>1. n \in Nat /\ n >= 1 /\ Len(t) = n - 1 /\ \A i \in 1 .. n - 1 : t[i] = s[i + 1]
  OBVIOUS
<1>2. Head(s) = s[1]
  OBVIOUS
<1>3. PICK f \in [0 .. n -> SUBSET Peers] : Path(s, f, v, w)
  BY DEF Leads
<1> DEFINE g == [i \in 0 .. n - 1 |-> f[i + 1]]
<1> HIDE DEF t, n
<1>4. 1 \in 1 .. n /\ 1 - 1 = 0 /\ 1 \in 0 .. n /\ 0 \in 0 .. n - 1 /\ n - 1 \in 0 .. n - 1
  BY <1>1
<1>5. f[1] \in SUBSET Peers /\ Applies(v, Head(s), f[1])
  BY <1>2, <1>3, <1>4 DEF Path, n
<1>6. g \in [0 .. n - 1 -> SUBSET Peers] /\ \A i \in 0 .. n - 1 : g[i] = f[i + 1]
  <2>1. \A i \in 0 .. n - 1 : i + 1 \in 0 .. n
    BY <1>1
  <2>2. QED
    BY <1>3, <2>1
<1> HIDE DEF g
<1>7. g[0] = f[1] /\ g[n - 1] = w
  <2>1. 0 + 1 = 1 /\ (n - 1) + 1 = n
    BY <1>1
  <2>2. QED
    BY <1>3, <1>4, <1>6, <2>1 DEF Path, n
<1>8. ASSUME NEW i \in 1 .. n - 1 PROVE Applies(g[i - 1], t[i], g[i])
  <2>1. /\ i - 1 \in 0 .. n - 1 /\ i \in 0 .. n - 1 /\ (i - 1) + 1 = i
        /\ i + 1 \in 1 .. n /\ (i + 1) - 1 = i
    BY <1>1
  <2>2. Applies(f[(i + 1) - 1], s[i + 1], f[i + 1])
    BY <1>3, <2>1 DEF Path, n
  <2>3. g[i - 1] = f[i] /\ g[i] = f[i + 1] /\ t[i] = s[i + 1]
    BY <1>1, <1>6, <2>1
  <2>4. QED
    BY <2>1, <2>2, <2>3
<1>9. Leads(t, f[1], w)
  BY <1>1, <1>6, <1>7, <1>8 DEF Leads, Path
<1>10. QED
  BY <1>5, <1>9 DEF t

-----------------------------------------------------------------------------
(***************************************************************************)
(* Counting the events in flight.                                          *)
(***************************************************************************)
OfKind(k) == {e \in BehaviourEvent : e.kind = k}

\* Events of a kind are counted by their positions, and so when they are
\* queued and dequeued.
LEMMA HowManyPositions ==
  ASSUME NEW s \in Seq(BehaviourEvent), NEW k
  PROVE  /\ HowMany(s, k) = Cardinality(Positions(s, OfKind(k)))
         /\ HowMany(s, k) \in Nat
<1>1. \A i \in DOMAIN s : s[i] \in BehaviourEvent
  OBVIOUS
<1>2. {i \in DOMAIN s : s[i].kind = k} = Positions(s, OfKind(k))
  BY <1>1 DEF Positions, OfKind
<1>3. QED
  BY <1>2, PositionsFinite DEF HowMany

\* An event that is queued counts for its kind.
LEMMA HowManyAppend ==
  ASSUME NEW s \in Seq(BehaviourEvent), NEW e \in BehaviourEvent, NEW k
  PROVE  HowMany(Append(s, e), k) = HowMany(s, k) + (IF e.kind = k THEN 1 ELSE 0)
<1> DEFINE t == Append(s, e)
<1>1. t \in Seq(BehaviourEvent)
  OBVIOUS
<1>2. e \in OfKind(k) <=> e.kind = k
  BY DEF OfKind
<1>3. Cardinality(Positions(t, OfKind(k)))
        = Cardinality(Positions(s, OfKind(k))) + (IF e \in OfKind(k) THEN 1 ELSE 0)
  BY CountAppend
<1> HIDE DEF t
<1>4. /\ HowMany(t, k) = Cardinality(Positions(t, OfKind(k)))
      /\ HowMany(s, k) = Cardinality(Positions(s, OfKind(k)))
  BY <1>1, HowManyPositions
<1>5. QED
  BY <1>2, <1>3, <1>4 DEF t

\* An event that is dequeued no longer counts.
LEMMA HowManyTail ==
  ASSUME NEW s \in Seq(BehaviourEvent), s # <<>>, NEW k
  PROVE  HowMany(s, k) = HowMany(Tail(s), k) + (IF Head(s).kind = k THEN 1 ELSE 0)
<1> DEFINE t == Tail(s)
<1>1. t \in Seq(BehaviourEvent) /\ Head(s) \in BehaviourEvent
  OBVIOUS
<1>2. Head(s) \in OfKind(k) <=> Head(s).kind = k
  BY <1>1 DEF OfKind
<1>3. Cardinality(Positions(s, OfKind(k)))
        = Cardinality(Positions(t, OfKind(k))) + (IF Head(s) \in OfKind(k) THEN 1 ELSE 0)
  BY CountTail
<1> HIDE DEF t
<1>4. /\ HowMany(t, k) = Cardinality(Positions(t, OfKind(k)))
      /\ HowMany(s, k) = Cardinality(Positions(s, OfKind(k)))
  BY <1>1, HowManyPositions
<1>5. QED
  BY <1>2, <1>3, <1>4 DEF t

\* An event that discovery queues is in flight.
LEMMA CountFound ==
  ASSUME TypeOK, NEW k, NEW e \in Event,
         found' = Append(found, e), events' = events
  PROVE  Count(k)' = Count(k) + (IF e.kind = k THEN 1 ELSE 0)
<1>1. events \in Seq(BehaviourEvent) /\ found \in Seq(BehaviourEvent) /\ e \in BehaviourEvent
  BY EventTypes DEF TypeOK
<1>2. HowMany(found', k) = HowMany(found, k) + (IF e.kind = k THEN 1 ELSE 0)
  BY <1>1, HowManyAppend
<1>3. HowMany(events, k) \in Nat /\ HowMany(found, k) \in Nat
  BY <1>1, HowManyPositions
<1>4. Count(k)' = HowMany(events, k) + HowMany(found', k)
  BY DEF Count, HowMany
<1>5. QED
  BY <1>2, <1>3, <1>4 DEF Count

\* And so is one that the behaviour queues itself.
LEMMA CountPushed ==
  ASSUME TypeOK, NEW k, NEW e \in BehaviourEvent,
         events' = Append(events, e), found' = found
  PROVE  Count(k)' = Count(k) + (IF e.kind = k THEN 1 ELSE 0)
<1>1. events \in Seq(BehaviourEvent) /\ found \in Seq(BehaviourEvent)
  BY EventTypes DEF TypeOK
<1>2. HowMany(events', k) = HowMany(events, k) + (IF e.kind = k THEN 1 ELSE 0)
  BY <1>1, HowManyAppend
<1>3. HowMany(events, k) \in Nat /\ HowMany(found, k) \in Nat
  BY <1>1, HowManyPositions
<1>4. Count(k)' = HowMany(events', k) + HowMany(found, k)
  BY DEF Count, HowMany
<1>5. QED
  BY <1>2, <1>3, <1>4 DEF Count

\* An event that goes from one queue to the other stays in flight.
LEMMA CountForwarded ==
  ASSUME TypeOK, NEW k, Forward
  PROVE  Count(k)' = Count(k)
<1> DEFINE e == Head(found)
<1>1. events \in Seq(BehaviourEvent) /\ found \in Seq(BehaviourEvent) /\ found # <<>>
  BY EventTypes DEF TypeOK, Forward
<1>2. e \in BehaviourEvent /\ found' \in Seq(BehaviourEvent)
  BY <1>1 DEF Forward
<1>3. events' = Append(events, e) /\ found' = Tail(found)
  BY DEF Forward, Push
<1> HIDE DEF e
<1>4. HowMany(events', k) = HowMany(events, k) + (IF e.kind = k THEN 1 ELSE 0)
  BY <1>1, <1>2, <1>3, HowManyAppend
<1>5. HowMany(found, k) = HowMany(found', k) + (IF e.kind = k THEN 1 ELSE 0)
  BY <1>1, <1>3, HowManyTail DEF e
<1>6. /\ HowMany(events, k) \in Nat /\ HowMany(found, k) \in Nat
      /\ HowMany(found', k) \in Nat
  BY <1>1, <1>2, HowManyPositions
<1>7. Count(k)' = HowMany(events', k) + HowMany(found', k)
  BY DEF Count, HowMany
<1>8. QED
  BY <1>4, <1>5, <1>6, <1>7 DEF Count

\* An event that the loop handles is no longer in flight.
LEMMA CountHandled ==
  ASSUME TypeOK, NEW k, Handle
  PROVE  Count(k) = Count(k)' + (IF Head(events).kind = k THEN 1 ELSE 0)
<1>1. events \in Seq(BehaviourEvent) /\ found \in Seq(BehaviourEvent) /\ events # <<>>
  BY EventTypes DEF TypeOK, Handle
<1>2. events' = Tail(events) /\ found' = found /\ events' \in Seq(BehaviourEvent)
  BY <1>1 DEF Handle, swarm
<1>3. HowMany(events, k) = HowMany(events', k) + (IF Head(events).kind = k THEN 1 ELSE 0)
  BY <1>1, <1>2, HowManyTail
<1>4. HowMany(events', k) \in Nat /\ HowMany(found, k) \in Nat
  BY <1>1, <1>2, HowManyPositions
<1>5. Count(k)' = HowMany(events', k) + HowMany(found', k)
  BY DEF Count, HowMany
<1>6. QED
  BY <1>2, <1>3, <1>4, <1>5 DEF Count

-----------------------------------------------------------------------------
(***************************************************************************)
(* The invariant holds at the start and is kept by every step.             *)
(***************************************************************************)
\* At the start nobody is connected.
LEMMA InitInv == Init => IInv
<1> SUFFICES ASSUME Init PROVE IInv
  OBVIOUS
<1>1. TypeOK
  BY PeersAssumption, BoundsAssumption DEF Init, TypeOK
<1>2. Connections
  BY DEF Init, Connections, PeersHaveConnections, KadKeepsConnected
<1>3. Reservations = {}
  BY BoundsAssumption DEF Init, Reservations
<1>4. Countable /\ Cardinality(peers) = 0 /\ Cardinality(Reservations) = 0
  BY <1>3, FS_EmptySet DEF Init, Countable
<1>5. \A k : Count(k) = 0
  <2>1. SUFFICES ASSUME NEW k PROVE HowMany(<<>>, k) = 0
    BY DEF Init, Count
  <2>2. {j \in DOMAIN <<>> : <<>>[j].kind = k} = {}
    OBVIOUS
  <2>3. QED
    BY <2>2, FS_EmptySet DEF HowMany
<1>6. GaugeIsConserved /\ RelayGauges
  BY <1>4, <1>5 DEF Init, GaugeIsConserved, RelayGauges, Gauges
<1>7. CatchesUp
  BY LeadsEmpty DEF Init, CatchesUp
<1>8. QED
  BY <1>1, <1>2, <1>4, <1>6, <1>7 DEF IInv

\* The queues may take any of their events.
LEMMA QueueTypes ==
  ASSUME TypeOK
  PROVE  /\ \A e \in Event : Append(found, e) \in Seq(Event)
         /\ \A e \in BehaviourEvent : Append(events, e) \in Seq(BehaviourEvent)
BY AppendFacts DEF TypeOK

\* A connection that comes or goes changes the set in one of two ways.
LEMMA TypeEstablished == ASSUME TypeOK, NEW p \in Peers, Established(p) PROVE TypeOK'
<1>1. conns' \in [Peers -> 0 .. MaxPerPeer] /\ \A q \in Peers : conns[q] <= conns'[q]
  BY BoundsAssumption DEF Established, TypeOK
<1>2. found' \in Seq(Event)
  <2>1. [kind |-> "connected", peer |-> p] \in Event
    BY DEF Event
  <2>2. QED
    BY <2>1, QueueTypes DEF Established, NoteEstablished, TypeOK
<1>3. QED
  BY <1>1, <1>2, BoundsAssumption
  DEF Established, NoteEstablished, KadEstablished, TypeOK, known, relay

\* A connection that closes keeps the types.
LEMMA TypeClosed == ASSUME TypeOK, NEW p \in Peers, Closed(p) PROVE TypeOK'
<1>1. /\ conns' \in [Peers -> 0 .. MaxPerPeer]
      /\ conns'[p] = conns[p] - 1 /\ \A q \in Peers \ {p} : conns'[q] = conns[q]
  BY BoundsAssumption DEF Closed, TypeOK
<1>2. found' \in Seq(Event)
  <2>1. [kind |-> "disconnected", peer |-> p] \in Event
    BY DEF Event
  <2>2. QED
    BY <2>1, QueueTypes DEF Closed, NoteClosed, TypeOK
<1>3. /\ reserved' \in [Peers -> Nat] /\ \A q \in Peers : reserved'[q] <= conns'[q]
      /\ leaked' \in 0 .. MaxLeaks /\ circuits' \in 0 .. MaxCircuits
  <2>1. CASE DropReservation(p)
    BY <1>1, <2>1, BoundsAssumption DEF DropReservation, TypeOK
  <2>2. CASE reserved[p] < conns[p] /\ UNCHANGED relay
    <3>1. UNCHANGED <<reserved, circuits, leaked>>
      BY <2>2 DEF relay
    <3>2. \A q \in Peers : conns[q] \in Int /\ reserved[q] \in Int /\ reserved[q] <= conns[q]
      BY BoundsAssumption DEF TypeOK
    <3>3. \A q \in Peers : reserved[q] <= conns'[q]
      BY <1>1, <2>2, <3>2
    <3>4. QED
      BY <3>1, <3>3 DEF TypeOK
  <2>3. QED
    BY <2>1, <2>2 DEF Closed
<1>4. QED
  BY <1>1, <1>2, <1>3 DEF Closed, NoteClosed, KadClosed, TypeOK, known

\* The types are kept.
LEMMA TypeNext == TypeOK /\ [Next]_vars => TypeOK'
<1> SUFFICES ASSUME TypeOK, [Next]_vars PROVE TypeOK'
  OBVIOUS
<1> USE DEF swarm, known, relay
<1>1. ASSUME NEW p \in Peers, Established(p) \/ Redial(p) PROVE TypeOK'
  BY <1>1, TypeEstablished DEF Redial
<1>2. ASSUME NEW p \in Peers, Closed(p) PROVE TypeOK'
  BY <1>2, TypeClosed
<1>3. ASSUME NEW p \in Peers, MdnsDiscovered(p) \/ Identify(p) PROVE TypeOK'
  BY <1>3 DEF MdnsDiscovered, Identify, Adopt, TypeOK
<1>4. ASSUME NEW p \in Peers, NEW renewed \in BOOLEAN, Reserve(p, renewed) PROVE TypeOK'
  <2>1. events' \in Seq(BehaviourEvent)
    <3>1. [kind |-> "reserved", peer |-> p] \in BehaviourEvent
      BY DEF BehaviourEvent
    <3>2. QED
      BY <1>4, <3>1, QueueTypes DEF Reserve, Push, TypeOK
  <2>2. reserved' \in [Peers -> Nat] /\ \A q \in Peers : reserved'[q] <= conns[q]
    BY <1>4, BoundsAssumption DEF Reserve, TypeOK
  <2>3. QED
    BY <1>4, <2>1, <2>2 DEF Reserve, TypeOK
<1>5. ASSUME NEW p \in Peers, ReservationTimedOut(p) PROVE TypeOK'
  <2>1. events' \in Seq(BehaviourEvent)
    <3>1. [kind |-> "expired", peer |-> p] \in BehaviourEvent
      BY DEF BehaviourEvent
    <3>2. QED
      BY <1>5, <3>1, QueueTypes DEF ReservationTimedOut, Push
  <2>2. reserved' \in [Peers -> Nat] /\ \A q \in Peers : reserved'[q] <= conns[q]
    BY <1>5, BoundsAssumption DEF ReservationTimedOut, TypeOK
  <2>3. QED
    BY <1>5, <2>1, <2>2 DEF ReservationTimedOut, TypeOK
<1>6. CASE CircuitReqAccepted \/ CircuitClosed
  <2>1. [kind |-> "opened"] \in BehaviourEvent /\ [kind |-> "ended"] \in BehaviourEvent
    BY DEF BehaviourEvent
  <2>2. events' \in Seq(BehaviourEvent)
    BY <1>6, <2>1, QueueTypes DEF CircuitReqAccepted, CircuitClosed, Push
  <2>3. QED
    BY <1>6, <2>2, BoundsAssumption DEF CircuitReqAccepted, CircuitClosed, TypeOK
<1>7. CASE Forward
  <2>1. Head(found) \in BehaviourEvent
    BY <1>7, EventTypes DEF Forward, TypeOK
  <2>2. QED
    BY <1>7, <2>1 DEF Forward, Push, TypeOK
<1>8. CASE Handle
  <2>1. Head(events) \in BehaviourEvent /\ events' \in Seq(BehaviourEvent)
    BY <1>8 DEF Handle, TypeOK
  <2>2. view' \in SUBSET Peers
    BY <1>8, <2>1, EventTypes DEF Handle, Tell, TypeOK
  <2>3. gauge' \in [Gauges -> Int]
    BY <1>8, <2>1 DEF Handle, Move, Track, BehaviourEvent, Event, Gauges, TypeOK
  <2>4. QED
    BY <1>8, <2>1, <2>2, <2>3 DEF Handle, TypeOK
<1>9. CASE UNCHANGED vars
  BY <1>9 DEF vars, TypeOK
<1>10. QED
  BY <1>1, <1>2, <1>3, <1>4, <1>5, <1>6, <1>7, <1>8, <1>9 DEF Next

\* The set follows the connections, and Kademlia hears what it has to.
LEMMA ConnectionsNext == TypeOK /\ Connections /\ [Next]_vars => Connections'
<1> SUFFICES ASSUME TypeOK, Connections, [Next]_vars PROVE Connections'
  OBVIOUS
<1> USE DEF Connections, PeersHaveConnections, KadKeepsConnected
<1>1. \A q \in Peers : conns[q] \in Int /\ conns[q] >= 0
  BY BoundsAssumption DEF TypeOK
<1>2. ASSUME NEW p \in Peers, Established(p) PROVE Connections'
  <2>1. conns'[p] = conns[p] + 1 /\ \A q \in Peers \ {p} : conns'[q] = conns[q]
    BY <1>2 DEF Established, TypeOK
  <2>2. QED
    BY <1>1, <1>2, <2>1 DEF Established, NoteEstablished, KadEstablished, TypeOK
<1>3. ASSUME NEW p \in Peers, Closed(p) PROVE Connections'
  <2>1. conns'[p] = conns[p] - 1 /\ \A q \in Peers \ {p} : conns'[q] = conns[q]
    BY <1>3 DEF Closed, TypeOK
  <2>2. QED
    BY <1>1, <1>3, <2>1 DEF Closed, NoteClosed, KadClosed, TypeOK
<1>4. CASE UNCHANGED <<conns, peers, kad>>
  BY <1>4
<1>5. QED
  BY <1>2, <1>3, <1>4
  DEF Next, Redial, MdnsDiscovered, Identify, Reserve, ReservationTimedOut,
      CircuitReqAccepted, CircuitClosed, Forward, Handle, vars, swarm

-----------------------------------------------------------------------------
(***************************************************************************)
(* The gauges.                                                             *)
(***************************************************************************)
Balanced == Countable /\ GaugeIsConserved /\ RelayGauges

\* What the gauges add up is numbers.
LEMMA Numbers ==
  ASSUME TypeOK, Countable
  PROVE  /\ \A k : Count(k) \in Nat
         /\ gauge["peers"] \in Int /\ gauge["reservations"] \in Int /\ gauge["circuits"] \in Int
         /\ Cardinality(peers) \in Nat /\ Cardinality(Reservations) \in Nat
         /\ leaked \in Nat /\ circuits \in Nat
<1>1. events \in Seq(BehaviourEvent) /\ found \in Seq(BehaviourEvent)
  BY EventTypes DEF TypeOK
<1>2. \A k : HowMany(events, k) \in Nat /\ HowMany(found, k) \in Nat
  BY <1>1, HowManyPositions
<1>3. Cardinality(peers) \in Nat /\ Cardinality(Reservations) \in Nat
  BY FS_CardinalityType DEF Countable
<1>4. QED
  BY <1>2, <1>3, BoundsAssumption DEF TypeOK, Gauges, Count

\* A reservation more, and one less.
LEMMA ReservationsMore ==
  ASSUME TypeOK, Countable, NEW p \in Peers, reserved[p] < conns[p],
         reserved' = [reserved EXCEPT ![p] = @ + 1]
  PROVE  /\ IsFiniteSet(Reservations')
         /\ Cardinality(Reservations') = Cardinality(Reservations) + 1
<1> DEFINE r == <<p, reserved[p] + 1>>
<1>1. reserved[p] \in Nat /\ reserved[p] + 1 \in 1 .. MaxPerPeer
  BY BoundsAssumption DEF TypeOK
<1>2. \A q \in Peers : reserved[q] \in Nat /\ reserved'[q] = IF q = p THEN reserved[q] + 1 ELSE reserved[q]
  BY DEF TypeOK
<1>3. Reservations' = Reservations \cup {r}
  BY <1>1, <1>2, BoundsAssumption DEF Reservations
<1>4. r \notin Reservations
  BY <1>1 DEF Reservations
<1>5. QED
  BY <1>3, <1>4, FS_AddElement DEF Countable

\* One reservation fewer.
LEMMA ReservationsLess ==
  ASSUME TypeOK, Countable, NEW p \in Peers, reserved[p] > 0,
         reserved' = [reserved EXCEPT ![p] = @ - 1]
  PROVE  /\ IsFiniteSet(Reservations')
         /\ Cardinality(Reservations') = Cardinality(Reservations) - 1
<1> DEFINE r == <<p, reserved[p]>>
<1>1. reserved[p] \in Nat /\ reserved[p] \in 1 .. MaxPerPeer
  BY BoundsAssumption DEF TypeOK
<1>2. \A q \in Peers : reserved[q] \in Nat /\ reserved'[q] = IF q = p THEN reserved[q] - 1 ELSE reserved[q]
  BY DEF TypeOK
<1>3. Reservations' = Reservations \ {r}
  BY <1>1, <1>2, BoundsAssumption DEF Reservations
<1>4. r \in Reservations
  BY <1>1 DEF Reservations
<1>5. QED
  BY <1>3, <1>4, FS_RemoveElement DEF Countable

\* A connection comes: one peer more and one piece of news, or neither.
LEMMA BalancedEstablished ==
  ASSUME TypeOK, Balanced, NEW p \in Peers, Established(p)
  PROVE  Balanced'
<1>1. UNCHANGED <<events, gauge, reserved, circuits, leaked>> /\ Reservations' = Reservations
  BY DEF Established, relay, Reservations
<1>2. CASE p \in peers
  <2>1. UNCHANGED <<peers, found>>
    BY <1>2 DEF Established, NoteEstablished
  <2>2. \A k : Count(k)' = Count(k)
    BY <1>1, <2>1 DEF Count, HowMany
  <2>3. QED
    BY <1>1, <2>1, <2>2 DEF Balanced, Countable, GaugeIsConserved, RelayGauges
<1>3. CASE p \notin peers
  <2> DEFINE e == [kind |-> "connected", peer |-> p]
  <2>1. e \in Event /\ e.kind = "connected"
    BY DEF Event
  <2>2. peers' = peers \cup {p} /\ found' = Append(found, e)
    BY <1>3 DEF Established, NoteEstablished
  <2> HIDE DEF e
  <2>3. \A k : Count(k)' = Count(k) + (IF k = "connected" THEN 1 ELSE 0)
    BY <1>1, <2>1, <2>2, CountFound
  <2>4. IsFiniteSet(peers') /\ Cardinality(peers') = Cardinality(peers) + 1
    BY <1>3, <2>2, FS_AddElement DEF Balanced, Countable
  <2>5. QED
    BY <1>1, <2>3, <2>4, Numbers DEF Balanced, Countable, GaugeIsConserved, RelayGauges
<1>4. QED
  BY <1>2, <1>3

\* A connection goes: one peer less and one piece of news, or neither, and
\* perhaps a reservation less that no news reports.
LEMMA BalancedClosed ==
  ASSUME TypeOK, Balanced, NEW p \in Peers, Closed(p)
  PROVE  Balanced'
<1>1. UNCHANGED <<events, gauge, circuits>>
  BY DEF Closed, DropReservation, relay
<1>2. /\ IsFiniteSet(Reservations')
      /\ Cardinality(Reservations') + leaked' = Cardinality(Reservations) + leaked
  <2>1. CASE DropReservation(p)
    <3>1. /\ IsFiniteSet(Reservations')
          /\ Cardinality(Reservations') = Cardinality(Reservations) - 1
      BY <2>1, ReservationsLess DEF DropReservation, Balanced
    <3>2. leaked' = leaked + 1
      BY <2>1 DEF DropReservation
    <3>3. Cardinality(Reservations) \in Nat /\ leaked \in Nat
      BY Numbers DEF Balanced
    <3>4. QED
      BY <3>1, <3>2, <3>3
  <2>2. CASE UNCHANGED relay
    BY <2>2 DEF relay, Reservations, Balanced, Countable
  <2>3. QED
    BY <2>1, <2>2 DEF Closed
<1>3. CASE p \notin peers
  <2>1. UNCHANGED <<peers, found>>
    BY <1>3 DEF Closed, NoteClosed
  <2>2. \A k : Count(k)' = Count(k)
    BY <1>1, <2>1 DEF Count, HowMany
  <2>3. QED
    BY <1>1, <1>2, <2>1, <2>2 DEF Balanced, Countable, GaugeIsConserved, RelayGauges
<1>4. CASE p \in peers
  <2> DEFINE e == [kind |-> "disconnected", peer |-> p]
  <2>1. e \in Event /\ e.kind = "disconnected"
    BY DEF Event
  <2>2. peers' = peers \ {p} /\ found' = Append(found, e)
    BY <1>4 DEF Closed, NoteClosed
  <2> HIDE DEF e
  <2>3. \A k : Count(k)' = Count(k) + (IF k = "disconnected" THEN 1 ELSE 0)
    BY <1>1, <2>1, <2>2, CountFound
  <2>4. IsFiniteSet(peers') /\ Cardinality(peers') = Cardinality(peers) - 1
    BY <1>4, <2>2, FS_RemoveElement DEF Balanced, Countable
  <2>5. QED
    BY <1>1, <1>2, <2>3, <2>4, Numbers DEF Balanced, Countable, GaugeIsConserved, RelayGauges
<1>5. QED
  BY <1>3, <1>4

\* What joins a count on one side joins it on the other.
LEMMA Sums ==
  \A g \in Int, a \in Int, b \in Int, n \in Int, x \in Int, y \in Int :
    g + a - b = n => g + (a + x) - (b + y) = n + x - y
OBVIOUS

\* An event of the relay server joins the queue.
LEMMA BalancedPushed ==
  ASSUME TypeOK, Balanced, NEW e \in BehaviourEvent,
         e.kind \in {"reserved", "expired", "opened", "ended"},
         events' = Append(events, e),
         UNCHANGED <<peers, found, gauge, leaked>>,
         IsFiniteSet(Reservations'),
         Cardinality(Reservations')
           = Cardinality(Reservations) + (IF e.kind = "reserved" THEN 1 ELSE 0)
                                       - (IF e.kind = "expired" THEN 1 ELSE 0),
         circuits' = circuits + (IF e.kind = "opened" THEN 1 ELSE 0)
                              - (IF e.kind = "ended" THEN 1 ELSE 0)
  PROVE  Balanced'
<1>1. \A k : Count(k)' = Count(k) + (IF e.kind = k THEN 1 ELSE 0)
  BY CountPushed
<1>2. /\ \A k : Count(k) \in Nat
      /\ gauge["peers"] \in Int /\ gauge["reservations"] \in Int /\ gauge["circuits"] \in Int
      /\ Cardinality(Reservations) \in Nat /\ leaked \in Nat /\ circuits \in Nat
  BY Numbers DEF Balanced
<1>3. GaugeIsConserved'
  <2>1. Count("connected")' = Count("connected") /\ Count("disconnected")' = Count("disconnected")
    BY <1>1, <1>2
  <2>2. QED
    BY <2>1 DEF Balanced, GaugeIsConserved
<1>4. RelayGauges'
  <2>1. /\ Count("reserved")' = Count("reserved") + (IF e.kind = "reserved" THEN 1 ELSE 0)
        /\ Count("expired")' = Count("expired") + (IF e.kind = "expired" THEN 1 ELSE 0)
        /\ Count("opened")' = Count("opened") + (IF e.kind = "opened" THEN 1 ELSE 0)
        /\ Count("ended")' = Count("ended") + (IF e.kind = "ended" THEN 1 ELSE 0)
    BY <1>1
  <2>2. /\ gauge["reservations"] + Count("reserved") - Count("expired")
             = Cardinality(Reservations) + leaked
        /\ gauge["circuits"] + Count("opened") - Count("ended") = circuits
    BY DEF Balanced, RelayGauges
  <2> DEFINE one(k) == IF e.kind = k THEN 1 ELSE 0
  <2>3. \A k : one(k) \in Nat
    OBVIOUS
  <2>4. /\ Count("reserved")' = Count("reserved") + one("reserved")
        /\ Count("expired")' = Count("expired") + one("expired")
        /\ Count("opened")' = Count("opened") + one("opened")
        /\ Count("ended")' = Count("ended") + one("ended")
    BY <2>1
  <2>5. /\ Cardinality(Reservations') = Cardinality(Reservations) + one("reserved") - one("expired")
        /\ circuits' = circuits + one("opened") - one("ended")
    OBVIOUS
  <2> HIDE DEF one
  <2>6. gauge["reservations"] + (Count("reserved") + one("reserved")) - (Count("expired") + one("expired"))
             = Cardinality(Reservations') + leaked
    <3>1. /\ gauge["reservations"] \in Int /\ Cardinality(Reservations) \in Int /\ leaked \in Int
          /\ Count("reserved") \in Int /\ Count("expired") \in Int
          /\ one("reserved") \in Int /\ one("expired") \in Int
      BY <1>2, <2>3
    <3>2. gauge["reservations"] + Count("reserved") - Count("expired")
            = Cardinality(Reservations) + leaked
      BY <2>2
    <3> DEFINE total == Cardinality(Reservations) + leaked
    <3>3. total \in Int /\ total + one("reserved") - one("expired") = Cardinality(Reservations') + leaked
      BY <2>5, <3>1
    <3>4. gauge["reservations"] + Count("reserved") - Count("expired") = total
      BY <3>2
    <3> HIDE DEF total
    <3>5. gauge["reservations"] + (Count("reserved") + one("reserved")) - (Count("expired") + one("expired"))
            = total + one("reserved") - one("expired")
      <4>1. total \in Int
        BY <3>3
      <4>2. QED
        BY <3>1, <3>4, <4>1, Sums
    <3>6. QED
      BY <3>3, <3>5
  <2>7. gauge["circuits"] + (Count("opened") + one("opened")) - (Count("ended") + one("ended"))
             = circuits'
    <3>1. /\ gauge["circuits"] \in Int /\ circuits \in Int /\ Count("opened") \in Int
          /\ Count("ended") \in Int /\ one("opened") \in Int /\ one("ended") \in Int
      BY <1>2, <2>3
    <3>2. QED
      BY <2>2, <2>5, <3>1, Sums
  <2>8. QED
    BY <2>4, <2>6, <2>7 DEF RelayGauges
<1>5. QED
  BY <1>3, <1>4 DEF Balanced, Countable

\* A reservation is made, renewed or times out.
LEMMA BalancedReserve ==
  ASSUME TypeOK, Balanced, NEW p \in Peers,
         (\E renewed \in BOOLEAN : Reserve(p, renewed)) \/ ReservationTimedOut(p)
  PROVE  Balanced'
<1>1. UNCHANGED <<peers, found, gauge, circuits, leaked>>
  BY DEF Reserve, ReservationTimedOut, swarm
<1>2. Cardinality(Reservations) \in Nat /\ circuits \in Nat
  BY Numbers DEF Balanced
<1>3. CASE Reserve(p, TRUE)
  <2>1. events' = events /\ reserved' = reserved
    BY <1>3 DEF Reserve, ReservationNews, TypeOK
  <2>2. Reservations' = Reservations /\ \A k : Count(k)' = Count(k)
    BY <1>1, <2>1 DEF Reservations, Count, HowMany
  <2>3. QED
    BY <1>1, <2>2 DEF Balanced, Countable, GaugeIsConserved, RelayGauges
<1>4. CASE Reserve(p, FALSE)
  <2> DEFINE e == [kind |-> "reserved", peer |-> p]
  <2>1. e \in BehaviourEvent /\ e.kind = "reserved"
    BY DEF BehaviourEvent
  <2>2. events' = Append(events, e)
    BY <1>4 DEF Reserve, ReservationNews, Push
  <2> HIDE DEF e
  <2>3. IsFiniteSet(Reservations') /\ Cardinality(Reservations') = Cardinality(Reservations) + 1
    BY <1>4, ReservationsMore DEF Reserve, Balanced
  <2>4. QED
    BY <1>1, <1>2, <2>1, <2>2, <2>3, BalancedPushed
<1>5. CASE ReservationTimedOut(p)
  <2> DEFINE e == [kind |-> "expired", peer |-> p]
  <2>1. e \in BehaviourEvent /\ e.kind = "expired"
    BY DEF BehaviourEvent
  <2>2. events' = Append(events, e)
    BY <1>5 DEF ReservationTimedOut, Push
  <2> HIDE DEF e
  <2>3. IsFiniteSet(Reservations') /\ Cardinality(Reservations') = Cardinality(Reservations) - 1
    BY <1>5, ReservationsLess DEF ReservationTimedOut, Balanced
  <2>4. QED
    BY <1>1, <1>2, <2>1, <2>2, <2>3, BalancedPushed
<1>6. QED
  BY <1>3, <1>4, <1>5

\* A circuit is opened or ends.
LEMMA BalancedCircuit ==
  ASSUME TypeOK, Balanced, CircuitReqAccepted \/ CircuitClosed
  PROVE  Balanced'
<1>1. UNCHANGED <<peers, found, gauge, reserved, leaked>> /\ Reservations' = Reservations
  BY DEF CircuitReqAccepted, CircuitClosed, swarm, Reservations
<1>2. /\ Cardinality(Reservations) \in Nat /\ circuits \in Nat
      /\ IsFiniteSet(Reservations)
  BY Numbers DEF Balanced, Countable
<1>3. PICK e \in BehaviourEvent :
        /\ events' = Append(events, e)
        /\ \/ e.kind = "opened" /\ circuits' = circuits + 1
           \/ e.kind = "ended" /\ circuits' = circuits - 1
  <2>1. [kind |-> "opened"] \in BehaviourEvent /\ [kind |-> "ended"] \in BehaviourEvent
    BY DEF BehaviourEvent
  <2>2. CASE CircuitReqAccepted
    BY <2>1, <2>2 DEF CircuitReqAccepted, Push
  <2>3. CASE CircuitClosed
    BY <2>1, <2>3 DEF CircuitClosed, Push
  <2>4. QED
    BY <2>2, <2>3
<1>4. QED
  BY <1>1, <1>2, <1>3, BalancedPushed

\* The loop handles an event: it leaves the queue, and its gauge moves.
LEMMA BalancedHandled == ASSUME TypeOK, Balanced, Handle PROVE Balanced'
<1> DEFINE e == Head(events)
<1>1. UNCHANGED <<peers, reserved, circuits, leaked>> /\ Reservations' = Reservations
  BY DEF Handle, swarm, relay, Reservations
<1>2. e \in BehaviourEvent
  BY DEF Handle, TypeOK
<1>3. e.kind \in {"connected", "disconnected", "reserved", "expired", "opened", "ended"}
  BY <1>2 DEF BehaviourEvent, Event
<1>4. \A k : Count(k)' = Count(k) - (IF e.kind = k THEN 1 ELSE 0)
  <2>1. TypeOK'
    BY TypeNext DEF Next
  <2>2. Countable'
    BY <1>1 DEF Balanced, Countable
  <2>3. SUFFICES ASSUME NEW k PROVE Count(k)' = Count(k) - (IF e.kind = k THEN 1 ELSE 0)
    OBVIOUS
  <2>4. Count(k) = Count(k)' + (IF e.kind = k THEN 1 ELSE 0)
    BY CountHandled
  <2>5. HowMany(events', k) \in Nat /\ HowMany(found', k) \in Nat
    BY <2>1, EventTypes, HowManyPositions DEF TypeOK
  <2>6. Count(k)' = HowMany(events', k) + HowMany(found', k)
    BY DEF Count, HowMany
  <2>7. QED
    BY <2>4, <2>5, <2>6
<1>5. /\ gauge'["peers"] = gauge["peers"] + (IF e.kind = "connected" THEN 1 ELSE 0)
                           - (IF e.kind = "disconnected" THEN 1 ELSE 0)
      /\ gauge'["reservations"] = gauge["reservations"] + (IF e.kind = "reserved" THEN 1 ELSE 0)
                           - (IF e.kind = "expired" THEN 1 ELSE 0)
      /\ gauge'["circuits"] = gauge["circuits"] + (IF e.kind = "opened" THEN 1 ELSE 0)
                           - (IF e.kind = "ended" THEN 1 ELSE 0)
  <2>1. /\ Track["connected"] = [gauge |-> "peers", by |-> 1]
        /\ Track["disconnected"] = [gauge |-> "peers", by |-> -1]
        /\ Track["reserved"] = [gauge |-> "reservations", by |-> 1]
        /\ Track["expired"] = [gauge |-> "reservations", by |-> -1]
        /\ Track["opened"] = [gauge |-> "circuits", by |-> 1]
        /\ Track["ended"] = [gauge |-> "circuits", by |-> -1]
    BY DEF Track
  <2>2. gauge' = [gauge EXCEPT ![Track[e.kind].gauge] = @ + Track[e.kind].by]
    BY DEF Handle, Move
  <2>3. DOMAIN gauge = {"peers", "reservations", "circuits"} /\ \A g \in DOMAIN gauge : gauge[g] \in Int
    BY DEF TypeOK, Gauges
  <2> HIDE DEF e
  <2>4. QED
    BY <1>3, <2>1, <2>2, <2>3
<1> HIDE DEF e
<1>6. GaugeIsConserved'
  BY <1>1, <1>3, <1>4, <1>5, Numbers DEF Balanced, GaugeIsConserved
<1>7. RelayGauges'
  BY <1>1, <1>3, <1>4, <1>5, Numbers DEF Balanced, RelayGauges
<1>8. QED
  BY <1>1, <1>6, <1>7 DEF Balanced, Countable

\* Every step keeps the balance.
LEMMA BalancedNext == TypeOK /\ Balanced /\ [Next]_vars => Balanced'
<1> SUFFICES ASSUME TypeOK, Balanced, [Next]_vars PROVE Balanced'
  OBVIOUS
<1>1. ASSUME NEW p \in Peers, Established(p) \/ Redial(p) PROVE Balanced'
  BY <1>1, BalancedEstablished DEF Redial
<1>2. CASE Forward
  <2>1. UNCHANGED <<peers, gauge, reserved, circuits, leaked>> /\ Reservations' = Reservations
    BY <1>2 DEF Forward, relay, Reservations
  <2>2. \A k : Count(k)' = Count(k)
    BY <1>2, CountForwarded
  <2>3. QED
    BY <2>1, <2>2 DEF Balanced, Countable, GaugeIsConserved, RelayGauges
<1>3. CASE UNCHANGED <<peers, gauge, reserved, circuits, leaked, events, found>>
  <2>1. Reservations' = Reservations /\ \A k : Count(k)' = Count(k)
    BY <1>3 DEF Reservations, Count, HowMany
  <2>2. QED
    BY <1>3, <2>1 DEF Balanced, Countable, GaugeIsConserved, RelayGauges
<1>4. ASSUME NEW p \in Peers, MdnsDiscovered(p) \/ Identify(p) PROVE Balanced'
  BY <1>3, <1>4 DEF MdnsDiscovered, Identify, swarm, relay
<1>5. QED
  BY <1>1, <1>2, <1>3, <1>4, BalancedClosed, BalancedReserve, BalancedCircuit, BalancedHandled
  DEF Next, vars, swarm, relay

-----------------------------------------------------------------------------
(***************************************************************************)
(* The subscriber catches up.                                              *)
(***************************************************************************)
\* Which facts of the next state are needed.
LEMMA CatchesUpWhen ==
  ASSUME NEW mid \in SUBSET Peers, Leads(events', view', mid), Leads(found', mid, peers')
  PROVE  CatchesUp'
BY DEF CatchesUp, Leads, Path, Applies

\* News of a connection joins discovery's queue with the peer that joins or
\* leaves the set.
LEMMA CatchesUpFound ==
  ASSUME TypeOK, TypeOK', CatchesUp, NEW e \in Event, Applies(peers, e, peers'),
         found' = Append(found, e), UNCHANGED <<events, view>>
  PROVE  CatchesUp'
<1>1. PICK mid \in SUBSET Peers : Leads(events, view, mid) /\ Leads(found, mid, peers)
  BY DEF CatchesUp
<1>2. found \in Seq(Event) /\ peers \in SUBSET Peers /\ peers' \in SUBSET Peers
  BY DEF TypeOK
<1>3. Leads(found', mid, peers')
  BY <1>1, <1>2, LeadsAppend
<1>4. Leads(events', view', mid)
  BY <1>1
<1>5. QED
  BY <1>3, <1>4, CatchesUpWhen

\* An event of the relay server is no news of a peer.
LEMMA CatchesUpPushed ==
  ASSUME TypeOK, CatchesUp, NEW e \in BehaviourEvent,
         e.kind \notin {"connected", "disconnected"},
         events' = Append(events, e), UNCHANGED <<found, peers, view>>
  PROVE  CatchesUp'
<1>1. PICK mid \in SUBSET Peers : Leads(events, view, mid) /\ Leads(found, mid, peers)
  BY DEF CatchesUp
<1>2. events \in Seq(BehaviourEvent) /\ view \in SUBSET Peers
  BY DEF TypeOK
<1>3. Applies(mid, e, mid)
  BY DEF Applies
<1>4. Leads(events', view, mid)
  BY <1>1, <1>2, <1>3, LeadsAppend
<1>5. Leads(events', view', mid) /\ Leads(found', mid, peers')
  BY <1>1, <1>4
<1>6. QED
  BY <1>5, CatchesUpWhen

\* The oldest event of one queue becomes the youngest of the other.
LEMMA CatchesUpForwarded == ASSUME TypeOK, CatchesUp, Forward PROVE CatchesUp'
<1>1. PICK mid \in SUBSET Peers : Leads(events, view, mid) /\ Leads(found, mid, peers)
  BY DEF CatchesUp
<1>2. /\ found \in Seq(Event) /\ found # <<>> /\ events \in Seq(BehaviourEvent)
      /\ peers \in SUBSET Peers /\ view \in SUBSET Peers
  BY DEF TypeOK, Forward
<1>3. Head(found) \in BehaviourEvent
  BY <1>2, EventTypes
<1>4. /\ found' = Tail(found) /\ events' = Append(events, Head(found))
      /\ UNCHANGED <<peers, view>>
  BY DEF Forward, Push
<1>5. PICK x \in SUBSET Peers : Applies(mid, Head(found), x) /\ Leads(Tail(found), x, peers)
  BY <1>1, <1>2, LeadsTail
<1>6. Leads(Append(events, Head(found)), view, x)
  BY <1>1, <1>2, <1>3, <1>5, LeadsAppend
<1>7. Leads(events', view', x) /\ Leads(found', x, peers')
  BY <1>4, <1>5, <1>6
<1>8. QED
  BY <1>7, CatchesUpWhen

\* The oldest event is news to the subscriber, who learns from it what it says.
LEMMA OldestIsNews ==
  ASSUME TypeOK, CatchesUp, events # <<>>
  PROVE  \E x \in SUBSET Peers, mid \in SUBSET Peers :
            /\ Applies(view, Head(events), x)
            /\ Leads(Tail(events), x, mid) /\ Leads(found, mid, peers)
<1>1. PICK mid \in SUBSET Peers : Leads(events, view, mid) /\ Leads(found, mid, peers)
  BY DEF CatchesUp
<1>2. events \in Seq(BehaviourEvent) /\ view \in SUBSET Peers
  BY DEF TypeOK
<1>3. QED
  BY <1>1, <1>2, LeadsTail

\* The oldest event is shown, and the others lead on from there.
LEMMA CatchesUpHandled == ASSUME TypeOK, CatchesUp, Handle PROVE CatchesUp'
<1>1. events # <<>> /\ events' = Tail(events) /\ UNCHANGED <<found, peers>> /\ Tell(Head(events))
  BY DEF Handle, swarm
<1>2. PICK x \in SUBSET Peers, mid \in SUBSET Peers :
         /\ Applies(view, Head(events), x)
         /\ Leads(Tail(events), x, mid) /\ Leads(found, mid, peers)
  BY <1>1, OldestIsNews
<1>3. view' = x
  BY <1>1, <1>2 DEF Tell, Applies
<1>4. Leads(events', view', mid) /\ Leads(found', mid, peers')
  BY <1>1, <1>2, <1>3
<1>5. QED
  BY <1>4, CatchesUpWhen

\* Every step keeps the path from what the subscriber holds to the set of peers.
LEMMA CatchesUpNext == TypeOK /\ CatchesUp /\ [Next]_vars => CatchesUp'
<1> SUFFICES ASSUME TypeOK, CatchesUp, [Next]_vars PROVE CatchesUp'
  OBVIOUS
<1>1. TypeOK'
  BY TypeNext
<1>2. CASE UNCHANGED <<found, events, peers, view>>
  <2>1. PICK mid \in SUBSET Peers : Leads(events, view, mid) /\ Leads(found, mid, peers)
    BY DEF CatchesUp
  <2>2. QED
    BY <1>2, <2>1, CatchesUpWhen
<1>3. ASSUME NEW p \in Peers, Established(p) \/ Redial(p) PROVE CatchesUp'
  <2> DEFINE e == [kind |-> "connected", peer |-> p]
  <2>1. e \in Event /\ e.kind = "connected" /\ e.peer = p
    BY DEF Event
  <2>2. CASE p \notin peers
    <3>1. peers' = peers \cup {p} /\ found' = Append(found, e) /\ UNCHANGED <<events, view>>
      BY <1>3, <2>2 DEF Redial, Established, NoteEstablished
    <3> HIDE DEF e
    <3>2. Applies(peers, e, peers')
      BY <2>1, <2>2, <3>1 DEF Applies
    <3>3. QED
      BY <1>1, <2>1, <3>1, <3>2, CatchesUpFound
  <2>3. CASE p \in peers
    BY <1>2, <1>3, <2>3 DEF Redial, Established, NoteEstablished
  <2>4. QED
    BY <2>2, <2>3
<1>4. ASSUME NEW p \in Peers, Closed(p) PROVE CatchesUp'
  <2> DEFINE e == [kind |-> "disconnected", peer |-> p]
  <2>1. e \in Event /\ e.kind = "disconnected" /\ e.peer = p
    BY DEF Event
  <2>2. CASE p \in peers
    <3>1. peers' = peers \ {p} /\ found' = Append(found, e) /\ UNCHANGED <<events, view>>
      BY <1>4, <2>2 DEF Closed, NoteClosed
    <3> HIDE DEF e
    <3>2. Applies(peers, e, peers')
      BY <2>1, <2>2, <3>1 DEF Applies
    <3>3. QED
      BY <1>1, <2>1, <3>1, <3>2, CatchesUpFound
  <2>3. CASE p \notin peers
    BY <1>2, <1>4, <2>3 DEF Closed, NoteClosed
  <2>4. QED
    BY <2>2, <2>3
<1>5. ASSUME NEW e \in BehaviourEvent, e.kind \notin {"connected", "disconnected"}, Push(e),
             UNCHANGED <<found, peers, view>>
      PROVE  CatchesUp'
  BY <1>5, CatchesUpPushed DEF Push
<1>6. ASSUME NEW p \in Peers,
             (\E renewed \in BOOLEAN : Reserve(p, renewed)) \/ ReservationTimedOut(p)
      PROVE  CatchesUp'
  <2> DEFINE made == [kind |-> "reserved", peer |-> p]
             over == [kind |-> "expired", peer |-> p]
  <2>1. made \in BehaviourEvent /\ over \in BehaviourEvent
    BY DEF BehaviourEvent
  <2>2. made.kind = "reserved" /\ over.kind = "expired"
    OBVIOUS
  <2>3. /\ UNCHANGED <<found, peers, view>>
        /\ Push(made) \/ Push(over) \/ UNCHANGED events
    BY <1>6 DEF Reserve, ReservationTimedOut, swarm
  <2> HIDE DEF made, over
  <2>4. QED
    BY <1>2, <1>5, <2>1, <2>2, <2>3
<1>7. CASE CircuitReqAccepted \/ CircuitClosed
  <2> DEFINE made == [kind |-> "opened"]
             over == [kind |-> "ended"]
  <2>1. made \in BehaviourEvent /\ over \in BehaviourEvent
    BY DEF BehaviourEvent
  <2>2. made.kind = "opened" /\ over.kind = "ended"
    OBVIOUS
  <2>3. UNCHANGED <<found, peers, view>> /\ (Push(made) \/ Push(over))
    BY <1>7 DEF CircuitReqAccepted, CircuitClosed, swarm
  <2> HIDE DEF made, over
  <2>4. QED
    BY <1>5, <2>1, <2>2, <2>3
<1>8. ASSUME NEW p \in Peers, MdnsDiscovered(p) \/ Identify(p) PROVE CatchesUp'
  BY <1>2, <1>8 DEF MdnsDiscovered, Identify, swarm
<1>9. CASE UNCHANGED vars
  BY <1>2, <1>9 DEF vars, swarm
<1>10. QED
  BY <1>3, <1>4, <1>6, <1>7, <1>8, <1>9, CatchesUpForwarded, CatchesUpHandled DEF Next

-----------------------------------------------------------------------------
\* The invariant is inductive.
LEMMA NextInv == IInv /\ [Next]_vars => IInv'
<1> SUFFICES ASSUME IInv, [Next]_vars PROVE IInv'
  OBVIOUS
<1>1. TypeOK /\ Connections /\ Balanced /\ CatchesUp
  BY DEF IInv, Balanced
<1>2. TypeOK' /\ Connections' /\ Balanced' /\ CatchesUp'
  BY <1>1, TypeNext, ConnectionsNext, BalancedNext, CatchesUpNext
<1>3. QED
  BY <1>2 DEF IInv, Balanced

\* The invariant holds in every state of every behaviour.
LEMMA AlwaysIInv == Spec => []IInv
BY InitInv, NextInv, PTL DEF Spec

(***************************************************************************)
(* Discovery's set of peers lists nobody without a connection, however     *)
(* many connections a peer has and in whatever order they close            *)
(* (inject_connection_established, inject_connection_closed).              *)
(***************************************************************************)
THEOREM ListedHaveConnections == Spec => []PeersHaveConnections
<1>1. IInv => PeersHaveConnections
  BY DEF IInv, Connections
<1>2. QED
  BY <1>1, AlwaysIInv, PTL

(***************************************************************************)
(* Kademlia holds every connected peer for connected, although discovery   *)
(* passes on to it only the connections that change its own set.           *)
(***************************************************************************)
THEOREM KademliaKeeps == Spec => []KadKeepsConnected
<1>1. IInv => KadKeepsConnected
  BY DEF IInv, Connections
<1>2. QED
  BY <1>1, AlwaysIInv, PTL

(***************************************************************************)
(* The gauge of connected peers, once the queued events are handled, is    *)
(* the size of discovery's set.                                            *)
(***************************************************************************)
THEOREM PeerGaugeHolds == Spec => []GaugeIsConserved
<1>1. IInv => GaugeIsConserved
  BY DEF IInv
<1>2. QED
  BY <1>1, AlwaysIInv, PTL

(***************************************************************************)
(* The relay server's gauges, once the queued events are handled: the one  *)
(* of circuits is exact, the one of reservations too high by those that    *)
(* ended with their connection.                                            *)
(***************************************************************************)
THEOREM RelayGaugesHold == Spec => []RelayGauges
<1>1. IInv => RelayGauges
  BY DEF IInv
<1>2. QED
  BY <1>1, AlwaysIInv, PTL

(***************************************************************************)
(* Every event of a peer that the loop handles is news to the subscriber   *)
(* of UrsaEvent: "connected" and "disconnected" alternate for each peer.   *)
(***************************************************************************)
THEOREM NewsIsNews == Spec => NewsAlternates
<1> DEFINE News == \A p \in Peers :
        events # <<>> /\ events' = Tail(events) /\ Head(events) \in Event /\ Head(events).peer = p
        => (Head(events).kind = "connected" <=> p \notin view)
<1>1. ASSUME IInv, [Next]_vars PROVE [News]_vars
  <2>1. SUFFICES ASSUME NEW p \in Peers, events # <<>>, Head(events) \in Event, Head(events).peer = p
                 PROVE  Head(events).kind = "connected" <=> p \notin view
    OBVIOUS
  <2>2. PICK x \in SUBSET Peers : Applies(view, Head(events), x)
    BY <1>1, <2>1, OldestIsNews DEF IInv
  <2>3. Head(events).kind \in {"connected", "disconnected"}
    BY <2>1 DEF Event
  <2>4. QED
    BY <2>1, <2>2, <2>3 DEF Applies
<1>2. QED
  BY <1>1, AlwaysIInv, PTL DEF Spec, NewsAlternates

=============================================================================
