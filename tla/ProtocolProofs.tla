-------------------------- MODULE ProtocolProofs --------------------------
(***************************************************************************)
(* The two protocols of Behaviour that carry messages of the node's own.   *)
(*                                                                         *)
(* Request/response: the table of pending senders, for every set of        *)
(* requests.                                                               *)
(*                                                                         *)
(* Gossip: how often a message is shown, for every set of nodes, of        *)
(* connections and of data.                                                *)
(***************************************************************************)
EXTENDS ReqResp, Gossip, Facts


-----------------------------------------------------------------------------
(***************************************************************************)
(* Request/response.                                                       *)
(***************************************************************************)

\* The inductive invariant.
IInv == TypeOK /\ Bookkeeping /\ PendingIsOutstanding /\ SenderIsKept

\* The invariant holds at the start.
LEMMA InitInv == Init => IInv
<1> SUFFICES ASSUME Init PROVE IInv
  OBVIOUS
<1>1. TypeOK /\ Range(commands) = {} /\ IsInjective(commands)
  BY EmptyFacts DEF Init, TypeOK
<1>2. QED
  BY <1>1 DEF Init, IInv, Bookkeeping, PendingIsOutstanding, SenderIsKept, Queued,
              Outstanding

\* A request is made.
LEMMA AskInv == ASSUME IInv, NEW r \in Requests, Ask(r) PROVE IInv'
<1> USE DEF peer
<1>1. CASE loop = "running"
  <2>1. commands' = Append(commands, r) /\ commands \in Seq(Requests)
    BY <1>1 DEF Ask, IInv, TypeOK
  <2>2. r \notin Range(commands)
    BY DEF Ask, IInv, SenderIsKept, Queued
  <2>3. /\ commands' \in Seq(Requests)
        /\ Range(commands') = Range(commands) \cup {r}
        /\ IsInjective(commands')
    BY <2>1, <2>2, AppendFacts DEF IInv, Bookkeeping
  <2>4. TypeOK'
    BY <1>1, <2>3 DEF Ask, IInv, TypeOK
  <2>5. QED
    BY <1>1, <2>2, <2>3, <2>4
    DEF Ask, IInv, TypeOK, Bookkeeping, PendingIsOutstanding, SenderIsKept, Queued,
        Outstanding
<1>2. CASE loop # "running"
  BY <1>2 DEF Ask, IInv, TypeOK, Bookkeeping, PendingIsOutstanding, SenderIsKept, Queued,
              Outstanding
<1>3. QED
  BY <1>1, <1>2

\* The loop sends a request and registers its sender.
LEMMA TakeInv == ASSUME IInv, TakeRequest PROVE IInv'
<1> USE DEF peer
<1> DEFINE r == Head(commands)
<1>1. /\ r \in Requests
      /\ commands' \in Seq(Requests)
      /\ Range(commands) = Range(commands') \cup {r}
      /\ IsInjective(commands') /\ r \notin Range(commands')
  BY TailFacts DEF TakeRequest, IInv, TypeOK, Bookkeeping
<1>2. /\ wire' = [wire EXCEPT ![r] = "sent"]
      /\ pending' = pending \cup {r}
      /\ UNCHANGED <<caller, loop, events, inbox, peerLoop>>
  BY DEF TakeRequest
<1>3. TypeOK'
  BY <1>1, <1>2 DEF IInv, TypeOK
<1> HIDE DEF r
<1>4. QED
  BY <1>1, <1>2, <1>3
  DEF IInv, TypeOK, Bookkeeping, PendingIsOutstanding, SenderIsKept, Queued, Outstanding

\* A request ends, well or badly, and its sender is used.
LEMMA EndInv ==
  ASSUME IInv, NEW r \in Requests, Response(r) \/ OutboundFailure(r)
  PROVE  IInv'
<1> USE DEF peer
<1>1. r \in pending /\ ~Queued(r)
  BY DEF IInv, Response, OutboundFailure, PendingIsOutstanding, Outstanding, Bookkeeping
<1>2. PICK o \in {"ok", "failed"} : Tell(r, o)
  BY <1>1 DEF Response, OutboundFailure
<1>3. /\ wire' = [wire EXCEPT ![r] = "over"]
      /\ pending' = pending \ {r}
      /\ UNCHANGED <<commands, loop, events, inbox, peerLoop>>
  BY <1>1 DEF Response, OutboundFailure
<1>4. TypeOK'
  BY <1>2, <1>3 DEF IInv, TypeOK, Tell
<1>5. QED
  BY <1>1, <1>2, <1>3, <1>4
  DEF IInv, TypeOK, Tell, Bookkeeping, PendingIsOutstanding, SenderIsKept, Queued,
      Outstanding

\* Every step keeps the invariant.
LEMMA NextInv == IInv /\ [Next]_vars => IInv'
<1> SUFFICES ASSUME IInv, [Next]_vars PROVE IInv'
  OBVIOUS
<1> USE DEF peer
<1>1. ASSUME NEW r \in Requests, GiveUp(r) PROVE IInv'
  BY <1>1 DEF GiveUp, IInv, TypeOK, Bookkeeping, PendingIsOutstanding, SenderIsKept,
              Queued, Outstanding
<1>2. ASSUME NEW r \in Requests, Arrive(r) PROVE IInv'
  <2>1. events' \in Seq(Requests)
    BY <1>2, AppendFacts DEF Arrive, IInv, TypeOK
  <2>2. TypeOK'
    BY <1>2, <2>1 DEF Arrive, IInv, TypeOK
  <2>3. QED
    BY <1>2, <2>2 DEF Arrive, IInv, TypeOK, Bookkeeping, PendingIsOutstanding,
                      SenderIsKept, Queued, Outstanding
<1>3. ASSUME NEW r \in Requests, Reply(r) PROVE IInv'
  BY <1>3 DEF Reply, IInv, TypeOK, Bookkeeping, PendingIsOutstanding, SenderIsKept,
              Queued, Outstanding
<1>4. CASE Forward
  <2>1. events' \in Seq(Requests) /\ inbox' \in Seq(Requests)
    BY <1>4, TailFacts, AppendFacts DEF Forward, IInv, TypeOK
  <2>2. QED
    BY <1>4, <2>1 DEF Forward, IInv, TypeOK, Bookkeeping, PendingIsOutstanding,
                      SenderIsKept, Queued, Outstanding
<1>5. CASE LoopEnds
  BY <1>5 DEF LoopEnds, IInv, TypeOK, Bookkeeping, PendingIsOutstanding, SenderIsKept,
              Queued, Outstanding
<1>6. ASSUME NEW S \in SUBSET Requests, Unparsable(S) PROVE IInv'
  BY <1>6 DEF Unparsable, IInv, TypeOK, Bookkeeping, PendingIsOutstanding, SenderIsKept,
              Queued, Outstanding
<1>7. CASE SendResponse
  <2>1. events' \in Seq(Requests)
    BY <1>7, EmptyFacts DEF SendResponse
  <2>2. QED
    BY <1>7, <2>1 DEF SendResponse, IInv, TypeOK, Bookkeeping, PendingIsOutstanding,
                      SenderIsKept, Queued, Outstanding
<1>8. CASE UNCHANGED vars
  BY <1>8 DEF vars, IInv, TypeOK, Bookkeeping, PendingIsOutstanding, SenderIsKept,
              Queued, Outstanding
<1>9. QED
  BY <1>1, <1>2, <1>3, <1>4, <1>5, <1>6, <1>7, <1>8, AskInv, TakeInv, EndInv DEF Next

\* The invariant holds in every state of every behaviour.
LEMMA AlwaysIInv == Safety => []IInv
BY InitInv, NextInv, PTL DEF Safety

(***************************************************************************)
(* pending_responses holds exactly the senders of the requests that libp2p *)
(* has not ended.                                                          *)
(***************************************************************************)
THEOREM PendingIsExact == Safety => []PendingIsOutstanding
<1>1. IInv => PendingIsOutstanding
  BY DEF IInv
<1>2. QED
  BY <1>1, AlwaysIInv, PTL

(***************************************************************************)
(* No sender of a waiting caller is lost or kept twice between the command *)
(* channel and pending_responses, and none outlives its answer.            *)
(***************************************************************************)
THEOREM SendersAreKept == Safety => []SenderIsKept
<1>1. IInv => SenderIsKept
  BY DEF IInv
<1>2. QED
  BY <1>1, AlwaysIInv, PTL

-----------------------------------------------------------------------------
(***************************************************************************)
(* Gossip.                                                                 *)
(***************************************************************************)
Entry == [peer : Nodes, data : Data]

\* The types that matter here.
GTypes ==
  /\ known \in [Nodes -> SUBSET Nodes]
  /\ cache \in [Nodes -> SUBSET Data]
  /\ underway \in SUBSET Message
  /\ queues \in [Nodes -> Seq(Entry)]
  /\ shown \in [Nodes -> [Data -> Nat]]
  /\ forgets \in [Nodes -> [Data -> Nat]]

\* How many copies of the data wait for the loop of a node.
Copies(d) == [peer : Nodes, data : {d}]
Waiting(n, d) == Cardinality(Positions(queues[n], Copies(d)))

\* A copy is shown or waits only for a stay of the data in the duplicate
\* cache, one that is over or the present one.
CopiesInv ==
  \A n \in Nodes, d \in Data :
     shown[n][d] + Waiting(n, d) <= forgets[n][d] + (IF d \in cache[n] THEN 1 ELSE 0)

\* The inductive invariant.
GInv == GTypes /\ CopiesInv

\* The copies that wait are counted.
LEMMA WaitingType ==
  ASSUME GTypes, NEW n \in Nodes, NEW d PROVE Waiting(n, d) \in Nat
<1>1. queues[n] \in Seq(Entry)
  BY DEF GTypes
<1>2. QED
  BY <1>1, PositionsFinite DEF Waiting

\* The invariant holds at the start.
LEMMA GInit == GossipInit => GInv
<1> SUFFICES ASSUME GossipInit PROVE GInv
  OBVIOUS
<1>1. \A n \in Nodes : queues[n] = <<>> /\ Range(queues[n]) = {}
  BY EmptyFacts DEF GossipInit
<1>2. GTypes
  BY EmptyFacts DEF GossipInit, GTypes
<1>3. CopiesInv
  <2>1. SUFFICES ASSUME NEW n \in Nodes, NEW d \in Data
                 PROVE  shown[n][d] + Waiting(n, d)
                          <= forgets[n][d] + (IF d \in cache[n] THEN 1 ELSE 0)
    BY DEF CopiesInv
  <2>2. Waiting(n, d) = 0
    BY <1>1, NoPositions DEF Waiting
  <2>3. shown[n][d] = 0 /\ forgets[n][d] = 0 /\ cache[n] = {}
    BY DEF GossipInit
  <2>4. QED
    BY <2>2, <2>3
<1>4. QED
  BY <1>2, <1>3 DEF GInv

\* A step that only makes and loses connections, or messages.
LEMMA GConnections ==
  ASSUME GInv, known' \in [Nodes -> SUBSET Nodes], underway' \subseteq underway,
         UNCHANGED <<cache, queues, shown, forgets>>
  PROVE  GInv'
<1>1. \A n \in Nodes, d \in Data : Waiting(n, d)' = Waiting(n, d)
  BY DEF Waiting, Positions
<1>2. QED
  BY <1>1 DEF GInv, GTypes, CopiesInv

\* A step that sends messages to subscribers, after caching the data or not.
LEMMA GOffers ==
  ASSUME GInv, NEW W \in SUBSET Message,
         underway' = underway \cup W,
         cache' \in [Nodes -> SUBSET Data], \A n \in Nodes : cache[n] \subseteq cache'[n],
         UNCHANGED <<known, queues, shown, forgets>>
  PROVE  GInv'
<1>1. \A n \in Nodes, d \in Data : Waiting(n, d)' = Waiting(n, d)
  BY DEF Waiting, Positions
<1>2. GTypes'
  BY DEF GInv, GTypes
<1>3. CopiesInv'
  <2>1. SUFFICES ASSUME NEW n \in Nodes, NEW d \in Data
                 PROVE  shown[n][d] + Waiting(n, d)
                          <= forgets[n][d] + (IF d \in cache'[n] THEN 1 ELSE 0)
    BY <1>1 DEF CopiesInv
  <2>2. shown[n][d] + Waiting(n, d) <= forgets[n][d] + (IF d \in cache[n] THEN 1 ELSE 0)
    BY DEF GInv, CopiesInv
  <2>3. shown[n][d] \in Nat /\ Waiting(n, d) \in Nat /\ forgets[n][d] \in Nat
    BY WaitingType DEF GInv, GTypes
  <2>4. QED
    BY <2>2, <2>3
<1>4. QED
  BY <1>2, <1>3 DEF GInv

\* A message is queued when its data joins the duplicate cache.
LEMMA GReceive ==
  ASSUME GInv, NEW v \in underway, Receive(v)
  PROVE  GInv'
<1>1. v \in Message
  BY DEF GInv, GTypes
<1>2. v.to \in Nodes /\ v.from \in Nodes /\ v.data \in Data
  BY <1>1 DEF Message
<1>3. UNCHANGED <<known, shown, forgets>>
  BY DEF Receive, history
<1>4. CASE v.data \in cache[v.to]
  <2>1. underway' = underway \ {v} /\ UNCHANGED <<cache, queues>>
    BY <1>4 DEF Receive, MessageId
  <2>2. QED
    BY <1>3, <2>1, GConnections DEF GInv, GTypes
<1>5. CASE v.data \notin cache[v.to]
  <2> DEFINE e == [peer |-> v.from, data |-> v.data]
             n == v.to
  <2>1. /\ cache' = [cache EXCEPT ![n] = @ \cup {v.data}]
        /\ queues' = [queues EXCEPT ![n] = Append(@, e)]
        /\ underway' = underway \ {v}
    BY <1>5 DEF Receive, MessageId
  <2>2. e \in Entry /\ e.data = v.data
    BY <1>2 DEF Entry
  <2>3. \A d \in Data : e \in Copies(d) <=> d = v.data
    BY <1>2 DEF Copies
  <2> HIDE DEF e
  <2>4. queues[n] \in Seq(Entry)
    BY <1>2 DEF GInv, GTypes
  <2>5. Append(queues[n], e) \in Seq(Entry) /\ Range(Append(queues[n], e)) = Range(queues[n]) \cup {e}
    BY <2>2, <2>4, AppendFacts
  <2>6. /\ queues'[n] = Append(queues[n], e)
        /\ \A m \in Nodes \ {n} : queues'[m] = queues[m]
        /\ cache'[n] = cache[n] \cup {v.data}
        /\ \A m \in Nodes \ {n} : cache'[m] = cache[m]
    BY <1>2, <2>1 DEF GInv, GTypes
  <2>7. GTypes'
    BY <1>2, <1>3, <2>1, <2>5 DEF GInv, GTypes
  <2>8. CopiesInv'
    <3>1. SUFFICES ASSUME NEW m \in Nodes, NEW d \in Data
                   PROVE  shown[m][d] + Waiting(m, d)'
                            <= forgets[m][d] + (IF d \in cache'[m] THEN 1 ELSE 0)
      BY <1>3 DEF CopiesInv
    <3>2. shown[m][d] + Waiting(m, d) <= forgets[m][d] + (IF d \in cache[m] THEN 1 ELSE 0)
      BY DEF GInv, CopiesInv
    <3>3. shown[m][d] \in Nat /\ Waiting(m, d) \in Nat /\ forgets[m][d] \in Nat
      BY WaitingType DEF GInv, GTypes
    <3>4. CASE m # n
      <4>1. Waiting(m, d)' = Waiting(m, d) /\ cache'[m] = cache[m]
        BY <2>6, <3>4 DEF Waiting, Positions
      <4>2. QED
        BY <3>2, <4>1
    <3>5. CASE m = n
      <4>1. Waiting(m, d)' = Waiting(m, d) + (IF d = v.data THEN 1 ELSE 0)
        <5>1. Waiting(m, d)' = Cardinality(Positions(Append(queues[n], e), Copies(d)))
          BY <2>6, <3>5 DEF Waiting, Positions, Copies
        <5>2. Cardinality(Positions(Append(queues[n], e), Copies(d)))
                = Cardinality(Positions(queues[n], Copies(d))) + (IF e \in Copies(d) THEN 1 ELSE 0)
          BY <2>2, <2>4, CountAppend
        <5>3. QED
          BY <2>3, <3>5, <5>1, <5>2 DEF Waiting
      <4>2. QED
        BY <1>5, <2>6, <3>2, <3>3, <3>5, <4>1
    <3>6. QED
      BY <3>4, <3>5
  <2>9. QED
    BY <2>7, <2>8 DEF GInv
<1>6. QED
  BY <1>4, <1>5

\* The loop takes a copy from the queue, and shows it or not.
LEMMA GHandle ==
  ASSUME GInv, NEW n \in Nodes, Handle(n)
  PROVE  GInv'
<1> DEFINE e == Head(queues[n])
<1>1. /\ queues[n] # <<>> /\ queues' = [queues EXCEPT ![n] = Tail(@)]
      /\ UNCHANGED <<known, cache, underway, forgets>>
      /\ shown' = [shown EXCEPT ![n][e.data] = @ + 1] \/ shown' = shown
  BY DEF Handle
<1>2. queues[n] \in Seq(Entry)
  BY DEF GInv, GTypes
<1>3. /\ e \in Entry /\ Tail(queues[n]) \in Seq(Entry)
      /\ Range(queues[n]) = Range(Tail(queues[n])) \cup {e}
  BY <1>1, <1>2, TailFacts
<1>4. e.data \in Data /\ \A d \in Data : e \in Copies(d) <=> d = e.data
  BY <1>3 DEF Entry, Copies
<1>5. queues'[n] = Tail(queues[n]) /\ \A m \in Nodes \ {n} : queues'[m] = queues[m]
  BY <1>1 DEF GInv, GTypes
<1> HIDE DEF e
<1>6. \A m \in Nodes, d \in Data :
         \/ shown'[m][d] = shown[m][d]
         \/ m = n /\ d = e.data /\ shown'[m][d] = shown[m][d] + 1
  <2>1. CASE shown' = shown
    BY <2>1
  <2>2. CASE shown' = [shown EXCEPT ![n][e.data] = @ + 1]
    <3>1. shown \in [Nodes -> [Data -> Nat]]
      BY DEF GInv, GTypes
    <3>2. \A m \in Nodes \ {n} : shown'[m] = shown[m]
      BY <2>2, <3>1
    <3>3. shown'[n] = [shown[n] EXCEPT ![e.data] = @ + 1] /\ shown[n] \in [Data -> Nat]
      BY <2>2, <3>1
    <3>4. \A d \in Data : shown'[n][d] = IF d = e.data THEN shown[n][d] + 1 ELSE shown[n][d]
      BY <3>3
    <3>5. QED
      BY <3>2, <3>4
  <2>3. QED
    BY <1>1, <2>1, <2>2
<1>7. GTypes'
  <2>1. shown' \in [Nodes -> [Data -> Nat]]
    <3>1. CASE shown' = shown
      BY <3>1 DEF GInv, GTypes
    <3>2. CASE shown' = [shown EXCEPT ![n][e.data] = @ + 1]
      <4>1. shown' = [shown EXCEPT ![n] = [shown[n] EXCEPT ![e.data] = @ + 1]]
        BY <3>2
      <4>2. shown[n] \in [Data -> Nat] /\ shown[n][e.data] + 1 \in Nat
        BY <1>4 DEF GInv, GTypes
      <4>3. [shown[n] EXCEPT ![e.data] = @ + 1] \in [Data -> Nat]
        BY <1>4, <4>2
      <4>4. QED
        BY <4>1, <4>3 DEF GInv, GTypes
    <3>3. QED
      BY <1>1, <3>1, <3>2
  <2>2. queues' \in [Nodes -> Seq(Entry)]
    BY <1>1, <1>3 DEF GInv, GTypes
  <2>3. QED
    BY <1>1, <2>1, <2>2 DEF GInv, GTypes
<1>8. CopiesInv'
  <2>1. SUFFICES ASSUME NEW m \in Nodes, NEW d \in Data
                 PROVE  shown'[m][d] + Waiting(m, d)'
                          <= forgets[m][d] + (IF d \in cache[m] THEN 1 ELSE 0)
    BY <1>1 DEF CopiesInv
  <2>2. shown[m][d] + Waiting(m, d) <= forgets[m][d] + (IF d \in cache[m] THEN 1 ELSE 0)
    BY DEF GInv, CopiesInv
  <2>3. shown[m][d] \in Nat /\ Waiting(m, d) \in Nat /\ forgets[m][d] \in Nat
    BY WaitingType DEF GInv, GTypes
  <2>4. CASE m # n
    <3>1. Waiting(m, d)' = Waiting(m, d)
      BY <1>5, <2>4 DEF Waiting, Positions
    <3>2. shown'[m][d] = shown[m][d]
      BY <1>6, <2>4
    <3>3. QED
      BY <2>2, <3>1, <3>2
  <2>5. CASE m = n
    <3>1. Waiting(m, d) = Waiting(m, d)' + (IF d = e.data THEN 1 ELSE 0)
      <4>1. Waiting(m, d)' = Cardinality(Positions(Tail(queues[n]), Copies(d)))
        BY <1>5, <2>5 DEF Waiting, Positions, Copies
      <4>2. Cardinality(Positions(queues[n], Copies(d)))
              = Cardinality(Positions(Tail(queues[n]), Copies(d)))
                  + (IF e \in Copies(d) THEN 1 ELSE 0)
        BY <1>1, <1>2, CountTail DEF e
      <4>3. QED
        BY <1>4, <2>5, <4>1, <4>2 DEF Waiting
    <3>2. Waiting(m, d)' \in Nat
      <4>1. Waiting(m, d)' = Cardinality(Positions(Tail(queues[n]), Copies(d)))
        BY <1>5, <2>5 DEF Waiting, Positions, Copies
      <4>2. QED
        BY <1>3, <4>1, PositionsFinite
    <3>3. QED
      BY <1>6, <2>2, <2>3, <3>1, <3>2
  <2>6. QED
    BY <2>4, <2>5
<1>9. QED
  BY <1>7, <1>8 DEF GInv

\* The duplicate cache forgets: the stay of the data is over.
LEMMA GForget ==
  ASSUME GInv, NEW n \in Nodes, NEW c \in Data, Forget(n, c)
  PROVE  GInv'
<1>1. /\ c \in cache[n] /\ cache' = [cache EXCEPT ![n] = @ \ {c}]
      /\ forgets' = [forgets EXCEPT ![n][c] = @ + 1]
      /\ UNCHANGED <<known, underway, queues, shown>>
  BY DEF Forget, MessageId
<1>2. \A m \in Nodes, d \in Data : Waiting(m, d)' = Waiting(m, d)
  BY <1>1 DEF Waiting, Positions
<1>3. GTypes'
  BY <1>1 DEF GInv, GTypes
<1>4. CopiesInv'
  <2>1. SUFFICES ASSUME NEW m \in Nodes, NEW d \in Data
                 PROVE  shown[m][d] + Waiting(m, d)
                          <= forgets'[m][d] + (IF d \in cache'[m] THEN 1 ELSE 0)
    BY <1>1, <1>2 DEF CopiesInv
  <2>2. shown[m][d] + Waiting(m, d) <= forgets[m][d] + (IF d \in cache[m] THEN 1 ELSE 0)
    BY DEF GInv, CopiesInv
  <2>3. shown[m][d] \in Nat /\ Waiting(m, d) \in Nat /\ forgets[m][d] \in Nat
    BY WaitingType DEF GInv, GTypes
  <2>4. CASE m = n /\ d = c
    <3>1. forgets'[m][d] = forgets[m][d] + 1 /\ d \in cache[m] /\ d \notin cache'[m]
      BY <1>1, <2>4 DEF GInv, GTypes
    <3>2. QED
      BY <2>2, <2>3, <3>1
  <2>5. CASE ~(m = n /\ d = c)
    <3>1. forgets'[m][d] = forgets[m][d] /\ (d \in cache'[m] <=> d \in cache[m])
      BY <1>1, <2>5 DEF GInv, GTypes
    <3>2. QED
      BY <2>2, <3>1
  <2>6. QED
    BY <2>4, <2>5
<1>5. QED
  BY <1>3, <1>4 DEF GInv

\* Every step keeps the invariant.
LEMMA GNext == GInv /\ [GossipNext]_gossipVars => GInv'
<1> SUFFICES ASSUME GInv, [GossipNext]_gossipVars PROVE GInv'
  OBVIOUS
<1>1. ASSUME NEW n \in Nodes, NEW m \in Nodes,
             Connect(n, m) \/ Disconnect(n, m) \/ Subscribed(n, m)
      PROVE  GInv'
  <2>1. UNCHANGED <<cache, queues, shown, forgets>> /\ underway' \subseteq underway
    BY <1>1 DEF Connect, Disconnect, Subscribed, history
  <2>2. known' \in [Nodes -> SUBSET Nodes]
    <3>1. CASE Connect(n, m)
      BY <3>1 DEF Connect, GInv, GTypes
    <3>2. CASE Subscribed(n, m)
      BY <3>2 DEF Subscribed, GInv, GTypes
    <3>3. CASE Disconnect(n, m)
      <4> DEFINE half == [known EXCEPT ![n] = @ \ {m}]
      <4>1. half \in [Nodes -> SUBSET Nodes]
        BY DEF GInv, GTypes
      <4>2. known' = [half EXCEPT ![m] = @ \ {n}]
        BY <3>3 DEF Disconnect
      <4> HIDE DEF half
      <4>3. QED
        BY <4>1, <4>2
    <3>4. QED
      BY <1>1, <3>1, <3>2, <3>3
  <2>3. QED
    BY <2>1, <2>2, GConnections
<1>2. ASSUME NEW n \in Nodes, NEW P \in SUBSET Nodes, NEW d \in Data
      PROVE  To(n, P, d) \in SUBSET Message
  BY DEF To, Message
<1>3. ASSUME NEW n \in Nodes, NEW m \in Nodes, NEW d \in Data, Heartbeat(n, m, d) PROVE GInv'
  <2>1. /\ underway' = underway \cup To(n, {m}, d)
        /\ UNCHANGED <<known, cache, queues, shown, forgets>>
    BY <1>3 DEF Heartbeat
  <2>2. To(n, {m}, d) \in SUBSET Message
    BY <1>2
  <2>3. QED
    BY <2>1, <2>2, GOffers DEF GInv, GTypes
<1>4. ASSUME NEW n \in Nodes, NEW d \in Data, Publish(n, d) PROVE GInv'
  <2>1. /\ underway' = underway \cup To(n, known[n], d)
        /\ cache' = [cache EXCEPT ![n] = @ \cup {d}]
        /\ UNCHANGED <<known, queues, shown, forgets>>
    BY <1>4 DEF Publish, Flood, MessageId
  <2>2. To(n, known[n], d) \in SUBSET Message
    BY <1>2 DEF GInv, GTypes
  <2>3. cache' \in [Nodes -> SUBSET Data] /\ \A m \in Nodes : cache[m] \subseteq cache'[m]
    BY <2>1 DEF GInv, GTypes
  <2>4. QED
    BY <2>1, <2>2, <2>3, GOffers
<1>5. CASE UNCHANGED gossipVars
  BY <1>5, GConnections DEF gossipVars, GInv, GTypes
<1>6. QED
  BY <1>1, <1>3, <1>4, <1>5, GReceive, GHandle, GForget DEF GossipNext

(***************************************************************************)
(* The same data is shown once per stay in the duplicate cache, however    *)
(* many nodes publish it and however often connections are lost.           *)
(***************************************************************************)
THEOREM GossipIsShownOnce == GossipSpec => []ShownOncePerMinute
<1>1. GInv => ShownOncePerMinute
  <2>1. SUFFICES ASSUME GInv, NEW n \in Nodes, NEW d \in Data
                 PROVE  shown[n][d] <= 1 + forgets[n][d]
    BY DEF ShownOncePerMinute
  <2>2. shown[n][d] + Waiting(n, d) <= forgets[n][d] + (IF d \in cache[n] THEN 1 ELSE 0)
    BY <2>1 DEF GInv, CopiesInv
  <2>3. shown[n][d] \in Nat /\ Waiting(n, d) \in Nat /\ forgets[n][d] \in Nat
    BY <2>1, WaitingType DEF GInv, GTypes
  <2>4. QED
    BY <2>2, <2>3
<1>2. QED
  BY <1>1, GInit, GNext, PTL DEF GossipSpec

=============================================================================
