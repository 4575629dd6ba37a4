------------------------- MODULE BitswapFetchProofs -------------------------
(***************************************************************************)
(* The safety of the fetch path for every number of calls, every set of    *)
(* blocks and every graph of links.                                        *)
(***************************************************************************)
EXTENDS BitswapFetch, Facts

\* The initial states are well typed.
LEMMA TypeInit == Init => TypeOK
BY EmptyFacts DEF Init, TypeOK, Request

\* Every step keeps the types.
LEMMA TypeNext == TypeOK /\ [Next]_vars => TypeOK'
<1> SUFFICES ASSUME TypeOK, [Next]_vars PROVE TypeOK'
  OBVIOUS
<1> USE DEF TypeOK, callVars, storeVars, engineVars, loopVars
<1>1. ASSUME NEW c \in Calls, CallStep(c) PROVE TypeOK'
  <2>1. CASE CallCheck(c)
    BY <2>1 DEF CallCheck
  <2>2. CASE CallSend(c)
    <3>1. Append(commands, c) \in Seq(Calls)
      BY AppendFacts
    <3>2. QED
      BY <2>2, <3>1 DEF CallSend, Return
  <2>3. CASE CallResume(c)
    BY <2>3 DEF CallResume, Return
  <2>4. CASE CallRead(c)
    BY <2>4 DEF CallRead, Return
  <2>5. QED
    BY <1>1, <2>1, <2>2, <2>3, <2>4 DEF CallStep
<1>2. ASSUME NEW q \in Calls, NEW found \in BOOLEAN, Complete(q, found)
      PROVE  /\ active' \in SUBSET Calls
             /\ missing' \in [Calls -> SUBSET Cids]
             /\ lookup' \in [Calls -> SUBSET Cids]
             /\ events' \in Seq(Event)
  <2>1. [id |-> q, found |-> found] \in Event
    BY DEF Event
  <2>2. events' \in Seq(Event)
    BY <1>2, <2>1, AppendFacts DEF Complete
  <2>3. QED
    BY <1>2, <2>2 DEF Complete
<1>3. ASSUME NEW q \in Calls, EngineStep(q) PROVE TypeOK'
  <2>1. CASE GetBlock(q)
    BY <1>2, <2>1 DEF GetBlock, Request
  <2>2. CASE \E b \in Cids : SyncBlock(q, b)
    BY <2>2 DEF SyncBlock
  <2>3. CASE SyncDone(q)
    BY <1>2, <2>3 DEF SyncDone
  <2>4. CASE QueryFails(q)
    BY <1>2, <2>4 DEF QueryFails
  <2>5. QED
    BY <1>3, <2>1, <2>2, <2>3, <2>4 DEF EngineStep
<1>4. CASE LoopStep
  <2>1. CASE TakeCommand
    <3>1. Head(commands) \in Calls /\ commands' \in Seq(Calls)
      BY <2>1, TailFacts DEF TakeCommand
    <3>2. CASE RefuseNoPeers(Head(commands))
      BY <2>1, <3>1, <3>2 DEF TakeCommand, RefuseNoPeers
    <3>3. CASE StartQuery(Head(commands))
      BY <2>1, <3>1, <3>3 DEF TakeCommand, StartQuery, Request
    <3>4. QED
      BY <2>1, <3>2, <3>3 DEF TakeCommand
  <2>2. CASE TakeEvent
    <3>1. Head(events) \in Event /\ events' \in Seq(Event)
      BY <2>2, TailFacts DEF TakeEvent
    <3>2. req[Head(events).id].cid \in Cids
      BY <3>1 DEF Request, Event
    <3> DEFINE k == req[Head(events).id].cid
    <3>3. CASE response_channels[k] = {}
      BY <2>2, <3>1, <3>3 DEF TakeEvent
    <3>4. CASE response_channels[k] # {}
      <4>1. response_channels[k] \in SUBSET Calls
        BY <3>2
      <4>2. response_channels' = [response_channels EXCEPT ![k] = {}]
        BY <2>2, <3>4 DEF TakeEvent
      <4>3. response_channels' \in [Cids -> SUBSET Calls]
        BY <4>2
      <4>4. cur' = k /\ batch' = response_channels[k] /\ mode' \in {"spin", "answer"}
        BY <2>2, <3>4 DEF TakeEvent
      <4>5. QED
        BY <2>2, <3>1, <3>2, <4>1, <4>3, <4>4 DEF TakeEvent
    <3>5. QED
      BY <3>3, <3>4
  <2>3. CASE SpinEnds
    BY <2>3 DEF SpinEnds
  <2>4. CASE AnswerOne
    BY <2>4 DEF AnswerOne, Verdict
  <2>5. QED
    BY <1>4, <2>1, <2>2, <2>3, <2>4 DEF LoopStep
<1>5. CASE DbStep
  <2>1. ASSUME NEW b \in Cids, DbInsert(b) PROVE TypeOK'
    BY <2>1 DEF DbInsert
  <2>2. ASSUME NEW b \in Cids, NEW q \in Calls, DbMissingBlocks(q, b) PROVE TypeOK'
    <3>1. MissingUnder(b) \subseteq Cids
      BY ReachType, LinksAssumption DEF MissingUnder, MissingIn
    <3>2. QED
      BY <2>2, <3>1 DEF DbMissingBlocks
  <2>3. QED
    BY <1>5, <2>1, <2>2 DEF DbStep
<1>6. CASE PeersChange
  BY <1>6 DEF PeersChange
<1>7. CASE LoopEnds
  BY <1>7, EmptyFacts DEF LoopEnds
<1>8. ASSUME NEW b \in Uploads, PutBlock(b) PROVE TypeOK'
  BY <1>8, UploadsAssumption DEF PutBlock
<1>9. CASE UNCHANGED vars
  BY <1>9 DEF vars
<1>10. QED
  BY <1>1, <1>3, <1>4, <1>5, <1>6, <1>7, <1>8, <1>9 DEF Next

(***************************************************************************)
(* Type correctness of the fetch path.                                     *)
(***************************************************************************)
THEOREM FetchTypes == Safety => []TypeOK
BY TypeInit, TypeNext, PTL DEF Safety

\* What a completion adds to the queue of events.
LEMMA CompleteFacts ==
  ASSUME TypeOK, NEW q \in Calls, NEW found \in BOOLEAN, Complete(q, found)
  PROVE  \E e \in Event : /\ e.id = q /\ e.found = found
                          /\ Range(events') = Range(events) \cup {e}
<1> DEFINE e == [id |-> q, found |-> found]
<1>1. e \in Event /\ e.id = q /\ e.found = found
  BY DEF Event
<1>2. Range(events') = Range(events) \cup {e}
  BY <1>1, AppendFacts DEF Complete, TypeOK
<1>3. QED
  BY <1>1, <1>2

\* What the loop takes from the queue of events, and the two ways it goes on.
LEMMA TakeEventFacts ==
  ASSUME TypeOK, TakeEvent
  PROVE  \E e \in Event, k \in Cids :
           /\ k = req[e.id].cid
           /\ Range(events) = Range(events') \cup {e}
           /\ \/ /\ response_channels[k] = {}
                 /\ UNCHANGED <<response_channels, mode, cur, batch>>
              \/ /\ response_channels[k] # {}
                 /\ response_channels' = [response_channels EXCEPT ![k] = {}]
                 /\ mode' = IF e.found THEN "spin" ELSE "answer"
                 /\ cur' = k
                 /\ batch' = response_channels[k]
<1> DEFINE e == Head(events)
           k == req[e.id].cid
<1>1. e \in Event /\ Range(events) = Range(events') \cup {e}
  BY TailFacts DEF TakeEvent, TypeOK
<1>2. k \in Cids
  BY <1>1 DEF TypeOK, Request, Event
<1>3. \/ /\ response_channels[k] = {}
         /\ UNCHANGED <<response_channels, mode, cur, batch>>
      \/ /\ response_channels[k] # {}
         /\ response_channels' = [response_channels EXCEPT ![k] = {}]
         /\ mode' = IF e.found THEN "spin" ELSE "answer"
         /\ cur' = k
         /\ batch' = response_channels[k]
  BY DEF TakeEvent, loopVars
<1>4. QED
  BY <1>1, <1>2, <1>3

\* What the loop takes from the command channel.
LEMMA TakeCommandFacts ==
  ASSUME TypeOK, TakeCommand
  PROVE  \E c \in Calls :
           /\ Range(commands) = Range(commands') \cup {c}
           /\ IsInjective(commands) => IsInjective(commands') /\ c \notin Range(commands')
           /\ RefuseNoPeers(c) \/ StartQuery(c)
<1>1. /\ Head(commands) \in Calls
      /\ Range(commands) = Range(commands') \cup {Head(commands)}
      /\ IsInjective(commands)
           => IsInjective(commands') /\ Head(commands) \notin Range(commands')
  BY TailFacts DEF TakeCommand, TypeOK
<1>2. RefuseNoPeers(Head(commands)) \/ StartQuery(Head(commands))
  BY DEF TakeCommand
<1>3. QED
  BY <1>1, <1>2

\* What a call adds to the command channel.
LEMMA SendFacts ==
  ASSUME TypeOK, NEW c \in Calls, CallSend(c), mode # "stopped", c \notin Range(commands)
  PROVE  /\ Range(commands') = Range(commands) \cup {c}
         /\ IsInjective(commands) => IsInjective(commands')
<1>1. commands' = Append(commands, c) /\ commands \in Seq(Calls)
  BY DEF CallSend, TypeOK
<1>2. /\ Range(Append(commands, c)) = Range(commands) \cup {c}
      /\ IsInjective(commands) => IsInjective(Append(commands, c))
  BY <1>1, AppendFacts
<1>3. QED
  BY <1>1, <1>2

(***************************************************************************)
(* The inductive invariant.  No part of it is inductive alone: an answer   *)
(* is sound (GrantedIsStored) because a sender is answered under its own   *)
(* cid (OneHome) and because a successful sync covers its DAG              *)
(* (SyncCovers); a sender is in one place because a command is queued once *)
(* (LoopInv); the spin ends because a found block was handed to the        *)
(* database thread (GrantedIsStored).                                      *)
(***************************************************************************)
IInv ==
  /\ TypeOK /\ LoopInv /\ OneHome /\ NoOrphanWaiter /\ GrantedIsStored
  /\ SpinIsFinite /\ SyncCovers /\ SyncBringsWholeDag /\ GetNeverAbsent

\* The loop's and the queries' bookkeeping is kept.
LEMMA LoopInvNext ==
  ASSUME IInv, TypeOK', [Next]_vars PROVE LoopInv'
<1> USE DEF IInv, TypeOK, callVars, storeVars, engineVars, loopVars
<1>1. ASSUME NEW c \in Calls, CallStep(c) PROVE LoopInv'
  <2>1. CASE CallCheck(c)
    BY <2>1 DEF CallCheck, LoopInv, OneHome, Registered, Queued
  <2>2. CASE CallSend(c)
    <3>1. CASE mode = "stopped"
      BY <2>2, <3>1 DEF CallSend, Return, LoopInv, OneHome, Registered, Queued
    <3>2. CASE mode # "stopped"
      <4>1. c \notin Range(commands)
        BY <2>2 DEF CallSend, OneHome, Queued
      <4>2. /\ Range(commands') = Range(commands) \cup {c}
            /\ IsInjective(commands) => IsInjective(commands')
        BY <2>2, <3>2, <4>1, SendFacts
      <4>3. QED
        BY <2>2, <3>2, <4>1, <4>2 DEF CallSend, LoopInv, OneHome, Registered, Queued
    <3>3. QED
      BY <3>1, <3>2
  <2>3. CASE CallResume(c)
    BY <2>3 DEF CallResume, Return, LoopInv, OneHome, Registered, Queued
  <2>4. CASE CallRead(c)
    BY <2>4 DEF CallRead, Return, LoopInv, OneHome, Registered, Queued
  <2>5. QED
    BY <1>1, <2>1, <2>2, <2>3, <2>4 DEF CallStep
<1>2. ASSUME NEW q \in Calls, EngineStep(q) PROVE LoopInv'
  <2>1. CASE GetBlock(q)
    BY <2>1, AppendFacts DEF GetBlock, Complete, Request, Event, LoopInv, OneHome, Registered, Queued
  <2>2. ASSUME NEW b \in Cids, SyncBlock(q, b) PROVE LoopInv'
    BY <2>2 DEF SyncBlock, LoopInv, OneHome, Registered, Queued
  <2>3. CASE SyncDone(q)
    BY <2>3, AppendFacts DEF SyncDone, Complete, Event, LoopInv, OneHome, Registered, Queued
  <2>4. CASE QueryFails(q)
    BY <2>4, AppendFacts DEF QueryFails, Complete, Event, LoopInv, OneHome, Registered, Queued
  <2>5. QED
    BY <1>2, <2>1, <2>2, <2>3, <2>4 DEF EngineStep
<1>3. CASE TakeCommand
  <2>1. PICK c \in Calls :
           /\ Range(commands) = Range(commands') \cup {c}
           /\ IsInjective(commands) => IsInjective(commands') /\ c \notin Range(commands')
           /\ RefuseNoPeers(c) \/ StartQuery(c)
    BY <1>3, TakeCommandFacts
  <2>2. mode = "idle" /\ UNCHANGED <<req, pc, mode, cur, batch>>
    BY <1>3 DEF TakeCommand
  <2>3. CASE RefuseNoPeers(c)
    BY <2>1, <2>2, <2>3 DEF RefuseNoPeers, Request, LoopInv, OneHome, Registered, Queued
  <2>4. CASE StartQuery(c)
    BY <2>1, <2>2, <2>4 DEF StartQuery, Request, LoopInv, OneHome, Registered, Queued
  <2>5. QED
    BY <2>1, <2>3, <2>4
<1>4. CASE TakeEvent
  <2>1. PICK e \in Event, k \in Cids :
           /\ k = req[e.id].cid
           /\ Range(events) = Range(events') \cup {e}
           /\ \/ /\ response_channels[k] = {}
                 /\ UNCHANGED <<response_channels, mode, cur, batch>>
              \/ /\ response_channels[k] # {}
                 /\ response_channels' = [response_channels EXCEPT ![k] = {}]
                 /\ mode' = IF e.found THEN "spin" ELSE "answer"
                 /\ cur' = k
                 /\ batch' = response_channels[k]
    BY <1>4, TakeEventFacts
  <2>2. mode = "idle" /\ UNCHANGED <<req, pc, answer, commands, active, missing, lookup>>
    BY <1>4 DEF TakeEvent
  <2>3. QED
    BY <2>1, <2>2 DEF Request, Event, LoopInv, OneHome, Registered, Queued
<1>5. CASE SpinEnds
  BY <1>5 DEF SpinEnds, LoopInv, OneHome, Registered, Queued
<1>6. CASE AnswerOne
  BY <1>6 DEF AnswerOne, Verdict, LoopInv, OneHome, Registered, Queued
<1>7. ASSUME NEW b \in Cids, DbInsert(b) PROVE LoopInv'
  BY <1>7 DEF DbInsert, LoopInv, OneHome, Registered, Queued
<1>8. ASSUME NEW b \in Cids, NEW q \in Calls, DbMissingBlocks(q, b) PROVE LoopInv'
  BY <1>8 DEF DbMissingBlocks, LoopInv, OneHome, Registered, Queued
<1>9. CASE PeersChange
  BY <1>9 DEF PeersChange, LoopInv, OneHome, Registered, Queued
<1>10. CASE LoopEnds
  BY <1>10, EmptyFacts DEF LoopEnds, LoopInv, OneHome, Registered, Queued
<1>11. ASSUME NEW b \in Uploads, PutBlock(b) PROVE LoopInv'
  BY <1>11, UploadsAssumption DEF PutBlock, LoopInv, OneHome, Registered, Queued
<1>12. CASE UNCHANGED vars
  BY <1>12 DEF vars, LoopInv, OneHome, Registered, Queued
<1>13. QED
  BY <1>1, <1>2, <1>3, <1>4, <1>5, <1>6, <1>7, <1>8, <1>9, <1>10, <1>11, <1>12
  DEF Next, LoopStep, DbStep

\* Every step keeps each sender in one place.
LEMMA OneHomeNext ==
  ASSUME IInv, TypeOK', [Next]_vars PROVE OneHome'
<1> USE DEF IInv, TypeOK, callVars, storeVars, engineVars, loopVars
<1>1. ASSUME NEW c \in Calls, CallStep(c) PROVE OneHome'
  <2>1. CASE CallCheck(c)
    BY <2>1 DEF CallCheck, OneHome, Registered, Queued, LoopInv
  <2>2. CASE CallSend(c)
    <3>1. CASE mode = "stopped"
      BY <2>2, <3>1 DEF CallSend, Return, OneHome, Registered, Queued, LoopInv
    <3>2. CASE mode # "stopped"
      <4>1. c \notin Range(commands)
        BY <2>2 DEF CallSend, OneHome, Queued
      <4>2. /\ Range(commands') = Range(commands) \cup {c}
            /\ IsInjective(commands) => IsInjective(commands')
        BY <2>2, <3>2, <4>1, SendFacts
      <4>3. QED
        BY <2>2, <3>2, <4>1, <4>2 DEF CallSend, OneHome, Registered, Queued, LoopInv
    <3>3. QED
      BY <3>1, <3>2
  <2>3. CASE CallResume(c)
    BY <2>3 DEF CallResume, Return, OneHome, Registered, Queued, LoopInv
  <2>4. CASE CallRead(c)
    BY <2>4 DEF CallRead, Return, OneHome, Registered, Queued, LoopInv
  <2>5. QED
    BY <1>1, <2>1, <2>2, <2>3, <2>4 DEF CallStep
<1>2. ASSUME NEW q \in Calls, EngineStep(q) PROVE OneHome'
  <2>1. CASE GetBlock(q)
    BY <2>1, AppendFacts DEF GetBlock, Complete, Request, Event, OneHome, Registered, Queued, LoopInv
  <2>2. ASSUME NEW b \in Cids, SyncBlock(q, b) PROVE OneHome'
    BY <2>2 DEF SyncBlock, OneHome, Registered, Queued, LoopInv
  <2>3. CASE SyncDone(q)
    BY <2>3, AppendFacts DEF SyncDone, Complete, Event, OneHome, Registered, Queued, LoopInv
  <2>4. CASE QueryFails(q)
    BY <2>4, AppendFacts DEF QueryFails, Complete, Event, OneHome, Registered, Queued, LoopInv
  <2>5. QED
    BY <1>2, <2>1, <2>2, <2>3, <2>4 DEF EngineStep
<1>3. CASE TakeCommand
  <2>1. PICK c \in Calls :
           /\ Range(commands) = Range(commands') \cup {c}
           /\ IsInjective(commands) => IsInjective(commands') /\ c \notin Range(commands')
           /\ RefuseNoPeers(c) \/ StartQuery(c)
    BY <1>3, TakeCommandFacts
  <2>2. mode = "idle" /\ UNCHANGED <<req, pc, mode, cur, batch>>
    BY <1>3 DEF TakeCommand
  <2>3. CASE RefuseNoPeers(c)
    BY <2>1, <2>2, <2>3 DEF RefuseNoPeers, Request, OneHome, Registered, Queued, LoopInv
  <2>4. CASE StartQuery(c)
    BY <2>1, <2>2, <2>4 DEF StartQuery, Request, OneHome, Registered, Queued, LoopInv
  <2>5. QED
    BY <2>1, <2>3, <2>4
<1>4. CASE TakeEvent
  <2>1. PICK e \in Event, k \in Cids :
           /\ k = req[e.id].cid
           /\ Range(events) = Range(events') \cup {e}
           /\ \/ /\ response_channels[k] = {}
                 /\ UNCHANGED <<response_channels, mode, cur, batch>>
              \/ /\ response_channels[k] # {}
                 /\ response_channels' = [response_channels EXCEPT ![k] = {}]
                 /\ mode' = IF e.found THEN "spin" ELSE "answer"
                 /\ cur' = k
                 /\ batch' = response_channels[k]
    BY <1>4, TakeEventFacts
  <2>2. mode = "idle" /\ UNCHANGED <<req, pc, answer, commands, active, missing, lookup>>
    BY <1>4 DEF TakeEvent
  <2>3. \A c \in Calls : (Queued(c)' <=> Queued(c)) /\ c \notin batch /\ req[c].cid \in Cids
    BY <2>2 DEF Queued, LoopInv, Request
  <2>4. CASE response_channels[k] = {}
    BY <2>1, <2>2, <2>3, <2>4 DEF OneHome, Registered
  <2>5. CASE response_channels[k] # {}
    <3>1. \A j \in Cids : response_channels'[j] = IF j = k THEN {} ELSE response_channels[j]
      BY <2>1, <2>5
    <3>2. cur' = k /\ batch' = response_channels[k]
      BY <2>1, <2>5
    <3>3. ASSUME NEW c \in Calls
          PROVE  /\ Registered(c)' <=> Registered(c) /\ req[c].cid # k
                 /\ c \in batch' <=> Registered(c) /\ req[c].cid = k
      BY <2>2, <2>3, <3>1, <3>2 DEF Registered, OneHome
    <3>4. QED
      BY <2>2, <2>3, <3>1, <3>2, <3>3 DEF OneHome
  <2>6. QED
    BY <2>4, <2>5
<1>5. CASE SpinEnds
  BY <1>5 DEF SpinEnds, OneHome, Registered, Queued, LoopInv
<1>6. CASE AnswerOne
  BY <1>6 DEF AnswerOne, Verdict, OneHome, Registered, Queued, LoopInv
<1>7. ASSUME NEW b \in Cids, DbInsert(b) PROVE OneHome'
  BY <1>7 DEF DbInsert, OneHome, Registered, Queued, LoopInv
<1>8. ASSUME NEW b \in Cids, NEW q \in Calls, DbMissingBlocks(q, b) PROVE OneHome'
  BY <1>8 DEF DbMissingBlocks, OneHome, Registered, Queued, LoopInv
<1>9. CASE PeersChange
  BY <1>9 DEF PeersChange, OneHome, Registered, Queued, LoopInv
<1>10. CASE LoopEnds
  <2>1. ASSUME NEW c \in Calls
        PROVE  /\ req[c].cid \in Cids
               /\ answer'[c] = IF Registered(c) THEN "canceled" ELSE answer[c]
               /\ ~Registered(c)'
    BY <1>10 DEF LoopEnds, Registered, Request, OneHome
  <2>2. UNCHANGED <<req, pc, commands, batch, cur>> /\ batch = {} /\ mode = "idle"
    BY <1>10 DEF LoopEnds, LoopInv
  <2>3. \A c \in Calls, k \in Cids : c \notin response_channels'[k]
    BY <1>10 DEF LoopEnds
  <2>4. \A c \in Calls : Queued(c)' <=> Queued(c)
    BY <2>2 DEF Queued
  <2>5. QED
    BY <2>1, <2>2, <2>3, <2>4 DEF OneHome
<1>11. ASSUME NEW b \in Uploads, PutBlock(b) PROVE OneHome'
  BY <1>11, UploadsAssumption DEF PutBlock, OneHome, Registered, Queued, LoopInv
<1>12. CASE UNCHANGED vars
  BY <1>12 DEF vars, OneHome, Registered, Queued, LoopInv
<1>13. QED
  BY <1>1, <1>2, <1>3, <1>4, <1>5, <1>6, <1>7, <1>8, <1>9, <1>10, <1>11, <1>12
  DEF Next, LoopStep, DbStep

\* Every step leaves a registered sender with its own query.
LEMMA NoOrphanWaiterNext ==
  ASSUME IInv, TypeOK', [Next]_vars PROVE NoOrphanWaiter'
<1> USE DEF IInv, TypeOK, callVars, storeVars, engineVars, loopVars
<1>1. ASSUME NEW c \in Calls, CallStep(c) PROVE NoOrphanWaiter'
  <2>1. CASE CallCheck(c)
    BY <2>1 DEF CallCheck, NoOrphanWaiter, Registered, Completed
  <2>2. CASE CallSend(c)
    BY <2>2, AppendFacts DEF CallSend, Return, NoOrphanWaiter, Registered, Completed
  <2>3. CASE CallResume(c)
    BY <2>3 DEF CallResume, Return, NoOrphanWaiter, Registered, Completed
  <2>4. CASE CallRead(c)
    BY <2>4 DEF CallRead, Return, NoOrphanWaiter, Registered, Completed
  <2>5. QED
    BY <1>1, <2>1, <2>2, <2>3, <2>4 DEF CallStep
<1>2. ASSUME NEW q \in Calls, EngineStep(q) PROVE NoOrphanWaiter'
  <2>1. CASE GetBlock(q)
    <3>1. PICK e \in Event : /\ e.id = q /\ e.found = TRUE
                            /\ Range(events') = Range(events) \cup {e}
      BY <2>1, CompleteFacts DEF GetBlock
    <3>2. QED
      BY <2>1, <3>1 DEF GetBlock, Complete, Request, NoOrphanWaiter, Registered, Completed
  <2>2. ASSUME NEW b \in Cids, SyncBlock(q, b) PROVE NoOrphanWaiter'
    BY <2>2 DEF SyncBlock, NoOrphanWaiter, Registered, Completed
  <2>3. CASE SyncDone(q)
    <3>1. PICK e \in Event : /\ e.id = q /\ e.found = TRUE
                            /\ Range(events') = Range(events) \cup {e}
      BY <2>3, CompleteFacts DEF SyncDone
    <3>2. QED
      BY <2>3, <3>1 DEF SyncDone, Complete, NoOrphanWaiter, Registered, Completed
  <2>4. CASE QueryFails(q)
    <3>1. PICK e \in Event : /\ e.id = q /\ e.found = FALSE
                            /\ Range(events') = Range(events) \cup {e}
      BY <2>4, CompleteFacts DEF QueryFails
    <3>2. QED
      BY <2>4, <3>1 DEF QueryFails, Complete, NoOrphanWaiter, Registered, Completed
  <2>5. QED
    BY <1>2, <2>1, <2>2, <2>3, <2>4 DEF EngineStep
<1>3. CASE TakeCommand
  BY <1>3, TailFacts DEF TakeCommand, RefuseNoPeers, StartQuery, Request, NoOrphanWaiter, Registered, Completed
<1>4. CASE TakeEvent
  <2>1. PICK e \in Event, k \in Cids :
           /\ k = req[e.id].cid
           /\ Range(events) = Range(events') \cup {e}
           /\ \/ /\ response_channels[k] = {}
                 /\ UNCHANGED <<response_channels, mode, cur, batch>>
              \/ /\ response_channels[k] # {}
                 /\ response_channels' = [response_channels EXCEPT ![k] = {}]
                 /\ mode' = IF e.found THEN "spin" ELSE "answer"
                 /\ cur' = k
                 /\ batch' = response_channels[k]
    BY <1>4, TakeEventFacts
  <2>2. mode = "idle" /\ UNCHANGED <<req, pc, answer, commands, active, missing, lookup>>
    BY <1>4 DEF TakeEvent
  <2>3. ASSUME NEW c \in Calls, Registered(c)' PROVE Registered(c) /\ req[c].cid # k
    <3>1. \A j \in Cids : response_channels'[j] = IF j = k THEN {} ELSE response_channels[j]
      BY <2>1
    <3>2. req[c].cid \in Cids /\ c \in response_channels'[req[c].cid]
      BY <2>2, <2>3 DEF Registered, Request
    <3>3. QED
      BY <3>1, <3>2 DEF Registered
  <2>4. ASSUME NEW c \in Calls, Completed(c), req[c].cid # k PROVE Completed(c)'
    BY <2>1, <2>4 DEF Completed
  <2>5. QED
    BY <2>2, <2>3, <2>4 DEF NoOrphanWaiter
<1>5. CASE SpinEnds
  BY <1>5 DEF SpinEnds, NoOrphanWaiter, Registered, Completed
<1>6. CASE AnswerOne
  BY <1>6 DEF AnswerOne, Verdict, NoOrphanWaiter, Registered, Completed
<1>7. ASSUME NEW b \in Cids, DbInsert(b) PROVE NoOrphanWaiter'
  BY <1>7 DEF DbInsert, NoOrphanWaiter, Registered, Completed
<1>8. ASSUME NEW b \in Cids, NEW q \in Calls, DbMissingBlocks(q, b) PROVE NoOrphanWaiter'
  BY <1>8 DEF DbMissingBlocks, NoOrphanWaiter, Registered, Completed
<1>9. CASE PeersChange
  BY <1>9 DEF PeersChange, NoOrphanWaiter, Registered, Completed
<1>10. CASE LoopEnds
  <2>1. \A c \in Calls : ~Registered(c)'
    BY <1>10 DEF LoopEnds, Registered, Request
  <2>2. QED
    BY <2>1 DEF NoOrphanWaiter
<1>11. ASSUME NEW b \in Uploads, PutBlock(b) PROVE NoOrphanWaiter'
  BY <1>11, UploadsAssumption DEF PutBlock, NoOrphanWaiter, Registered, Completed
<1>12. CASE UNCHANGED vars
  BY <1>12 DEF vars, NoOrphanWaiter, Registered, Completed
<1>13. QED
  BY <1>1, <1>2, <1>3, <1>4, <1>5, <1>6, <1>7, <1>8, <1>9, <1>10, <1>11, <1>12
  DEF Next, LoopStep, DbStep

\* Every step grants only what is stored.
LEMMA GrantedIsStoredNext ==
  ASSUME IInv, TypeOK', [Next]_vars PROVE GrantedIsStored'
<1> USE DEF IInv, TypeOK, callVars, storeVars, engineVars, loopVars
<1>1. ASSUME NEW c \in Calls, CallStep(c) PROVE GrantedIsStored'
  <2>1. CASE CallCheck(c)
    BY <2>1 DEF CallCheck, GrantedIsStored, OneHome
  <2>2. CASE CallSend(c)
    BY <2>2, AppendFacts DEF CallSend, Return, GrantedIsStored, OneHome
  <2>3. CASE CallResume(c)
    BY <2>3 DEF CallResume, Return, GrantedIsStored, OneHome
  <2>4. CASE CallRead(c)
    BY <2>4 DEF CallRead, Return, GrantedIsStored, OneHome
  <2>5. QED
    BY <1>1, <2>1, <2>2, <2>3, <2>4 DEF CallStep
<1>2. ASSUME NEW q \in Calls, EngineStep(q) PROVE GrantedIsStored'
  <2>1. CASE GetBlock(q)
    <3>1. PICK e \in Event : /\ e.id = q /\ e.found = TRUE
                            /\ Range(events') = Range(events) \cup {e}
      BY <2>1, CompleteFacts DEF GetBlock
    <3>2. QED
      BY <2>1, <3>1 DEF GetBlock, Complete, Request, GrantedIsStored, OneHome
  <2>2. ASSUME NEW b \in Cids, SyncBlock(q, b) PROVE GrantedIsStored'
    BY <2>2 DEF SyncBlock, GrantedIsStored, OneHome
  <2>3. CASE SyncDone(q)
    <3>1. PICK e \in Event : /\ e.id = q /\ e.found = TRUE
                            /\ Range(events') = Range(events) \cup {e}
      BY <2>3, CompleteFacts DEF SyncDone
    <3>2. Reach(Links, req[q].cid) \subseteq store
      BY <2>3 DEF SyncDone, SyncCovers
    <3>3. req[q].cid \in Cids
      BY DEF Request
    <3>4. req[q].cid \in store
      BY <3>2, <3>3, RootReached, ReachWhole, LinksAssumption
    <3>5. QED
      BY <2>3, <3>1, <3>2, <3>4 DEF SyncDone, Complete, GrantedIsStored, OneHome
  <2>4. CASE QueryFails(q)
    <3>1. PICK e \in Event : /\ e.id = q /\ e.found = FALSE
                            /\ Range(events') = Range(events) \cup {e}
      BY <2>4, CompleteFacts DEF QueryFails
    <3>2. QED
      BY <2>4, <3>1 DEF QueryFails, Complete, GrantedIsStored, OneHome
  <2>5. QED
    BY <1>2, <2>1, <2>2, <2>3, <2>4 DEF EngineStep
<1>3. CASE TakeCommand
  BY <1>3, TailFacts DEF TakeCommand, RefuseNoPeers, StartQuery, Request, GrantedIsStored, OneHome
<1>4. CASE TakeEvent
  BY <1>4, TailFacts DEF TakeEvent, Request, Event, GrantedIsStored, OneHome
<1>5. CASE SpinEnds
  BY <1>5 DEF SpinEnds, GrantedIsStored, OneHome
<1>6. CASE AnswerOne
  BY <1>6 DEF AnswerOne, Verdict, GrantedIsStored, OneHome
<1>7. ASSUME NEW b \in Cids, DbInsert(b) PROVE GrantedIsStored'
  BY <1>7 DEF DbInsert, GrantedIsStored, OneHome
<1>8. ASSUME NEW b \in Cids, NEW q \in Calls, DbMissingBlocks(q, b) PROVE GrantedIsStored'
  BY <1>8 DEF DbMissingBlocks, GrantedIsStored, OneHome
<1>9. CASE PeersChange
  BY <1>9 DEF PeersChange, GrantedIsStored, OneHome
<1>10. CASE LoopEnds
  BY <1>10, EmptyFacts DEF LoopEnds, GrantedIsStored, OneHome
<1>11. ASSUME NEW b \in Uploads, PutBlock(b) PROVE GrantedIsStored'
  BY <1>11, UploadsAssumption DEF PutBlock, GrantedIsStored, OneHome
<1>12. CASE UNCHANGED vars
  BY <1>12 DEF vars, GrantedIsStored, OneHome
<1>13. QED
  BY <1>1, <1>2, <1>3, <1>4, <1>5, <1>6, <1>7, <1>8, <1>9, <1>10, <1>11, <1>12
  DEF Next, LoopStep, DbStep

\* Every step keeps the spin finite.
LEMMA SpinIsFiniteNext ==
  ASSUME IInv, TypeOK', [Next]_vars PROVE SpinIsFinite'
<1> USE DEF IInv, TypeOK, callVars, storeVars, engineVars, loopVars
<1>1. ASSUME NEW c \in Calls, CallStep(c) PROVE SpinIsFinite'
  <2>1. CASE CallCheck(c)
    BY <2>1 DEF CallCheck, SpinIsFinite, GrantedIsStored
  <2>2. CASE CallSend(c)
    BY <2>2, AppendFacts DEF CallSend, Return, SpinIsFinite, GrantedIsStored
  <2>3. CASE CallResume(c)
    BY <2>3 DEF CallResume, Return, SpinIsFinite, GrantedIsStored
  <2>4. CASE CallRead(c)
    BY <2>4 DEF CallRead, Return, SpinIsFinite, GrantedIsStored
  <2>5. QED
    BY <1>1, <2>1, <2>2, <2>3, <2>4 DEF CallStep
<1>2. ASSUME NEW q \in Calls, EngineStep(q) PROVE SpinIsFinite'
  <2>1. CASE GetBlock(q)
    BY <2>1, AppendFacts DEF GetBlock, Complete, Request, Event, SpinIsFinite, GrantedIsStored
  <2>2. ASSUME NEW b \in Cids, SyncBlock(q, b) PROVE SpinIsFinite'
    BY <2>2 DEF SyncBlock, SpinIsFinite, GrantedIsStored
  <2>3. CASE SyncDone(q)
    BY <2>3, AppendFacts DEF SyncDone, Complete, Event, SpinIsFinite, GrantedIsStored
  <2>4. CASE QueryFails(q)
    BY <2>4, AppendFacts DEF QueryFails, Complete, Event, SpinIsFinite, GrantedIsStored
  <2>5. QED
    BY <1>2, <2>1, <2>2, <2>3, <2>4 DEF EngineStep
<1>3. CASE TakeCommand
  BY <1>3, TailFacts DEF TakeCommand, RefuseNoPeers, StartQuery, Request, SpinIsFinite, GrantedIsStored
<1>4. CASE TakeEvent
  BY <1>4, TailFacts DEF TakeEvent, Request, Event, SpinIsFinite, GrantedIsStored
<1>5. CASE SpinEnds
  BY <1>5 DEF SpinEnds, SpinIsFinite, GrantedIsStored
<1>6. CASE AnswerOne
  BY <1>6 DEF AnswerOne, Verdict, SpinIsFinite, GrantedIsStored
<1>7. ASSUME NEW b \in Cids, DbInsert(b) PROVE SpinIsFinite'
  BY <1>7 DEF DbInsert, SpinIsFinite, GrantedIsStored
<1>8. ASSUME NEW b \in Cids, NEW q \in Calls, DbMissingBlocks(q, b) PROVE SpinIsFinite'
  BY <1>8 DEF DbMissingBlocks, SpinIsFinite, GrantedIsStored
<1>9. CASE PeersChange
  BY <1>9 DEF PeersChange, SpinIsFinite, GrantedIsStored
<1>10. CASE LoopEnds
  BY <1>10, EmptyFacts DEF LoopEnds, SpinIsFinite, GrantedIsStored
<1>11. ASSUME NEW b \in Uploads, PutBlock(b) PROVE SpinIsFinite'
  BY <1>11, UploadsAssumption DEF PutBlock, SpinIsFinite, GrantedIsStored
<1>12. CASE UNCHANGED vars
  BY <1>12 DEF vars, SpinIsFinite, GrantedIsStored
<1>13. QED
  BY <1>1, <1>2, <1>3, <1>4, <1>5, <1>6, <1>7, <1>8, <1>9, <1>10, <1>11, <1>12
  DEF Next, LoopStep, DbStep

\* Every step keeps the DAG of a sync covered.
LEMMA SyncCoversNext ==
  ASSUME IInv, TypeOK', [Next]_vars PROVE SyncCovers'
<1> USE DEF IInv, TypeOK, callVars, storeVars, engineVars, loopVars
<1>1. ASSUME NEW c \in Calls, CallStep(c) PROVE SyncCovers'
  <2>1. CASE CallCheck(c)
    BY <2>1 DEF CallCheck, SyncCovers
  <2>2. CASE CallSend(c)
    BY <2>2, AppendFacts DEF CallSend, Return, SyncCovers
  <2>3. CASE CallResume(c)
    BY <2>3 DEF CallResume, Return, SyncCovers
  <2>4. CASE CallRead(c)
    BY <2>4 DEF CallRead, Return, SyncCovers
  <2>5. QED
    BY <1>1, <2>1, <2>2, <2>3, <2>4 DEF CallStep
<1>2. ASSUME NEW q \in Calls, EngineStep(q) PROVE SyncCovers'
  <2>1. CASE GetBlock(q)
    BY <2>1, AppendFacts DEF GetBlock, Complete, Request, Event, SyncCovers
  <2>2. ASSUME NEW b \in Cids, SyncBlock(q, b) PROVE SyncCovers'
    BY <2>2 DEF SyncBlock, SyncCovers
  <2>3. CASE SyncDone(q)
    BY <2>3, AppendFacts DEF SyncDone, Complete, Event, SyncCovers
  <2>4. CASE QueryFails(q)
    BY <2>4, AppendFacts DEF QueryFails, Complete, Event, SyncCovers
  <2>5. QED
    BY <1>2, <2>1, <2>2, <2>3, <2>4 DEF EngineStep
<1>3. CASE TakeCommand
  BY <1>3, TailFacts DEF TakeCommand, RefuseNoPeers, StartQuery, Request, SyncCovers
<1>4. CASE TakeEvent
  BY <1>4, TailFacts DEF TakeEvent, Request, Event, SyncCovers
<1>5. CASE SpinEnds
  BY <1>5 DEF SpinEnds, SyncCovers
<1>6. CASE AnswerOne
  BY <1>6 DEF AnswerOne, Verdict, SyncCovers
<1>7. ASSUME NEW b \in Cids, DbInsert(b) PROVE SyncCovers'
  BY <1>7 DEF DbInsert, SyncCovers
<1>8. ASSUME NEW b \in Cids, NEW q \in Calls, DbMissingBlocks(q, b) PROVE SyncCovers'
  <2> SUFFICES ASSUME NEW p \in active', req'[p].kind = "sync",
                      NEW d \in Reach(Links, req'[p].cid), d \notin store'
               PROVE  \E m \in missing'[p] \cup lookup'[p] : d \in Reach(Links, m)
    BY DEF SyncCovers
  <2>1. UNCHANGED <<req, store, active>>
    BY <1>8 DEF DbMissingBlocks
  <2>2. PICK m \in missing[p] \cup lookup[p] : d \in Reach(Links, m)
    BY <2>1 DEF SyncCovers
  <2>3. CASE p = q /\ m = b
    <3>1. PICK n \in MissingIn(Links, b, store) : d \in Reach(Links, n)
      BY <2>1, <2>2, <2>3, MissingCovers, LinksAssumption
    <3>2. n \in missing'[q]
      BY <1>8, <3>1 DEF DbMissingBlocks, MissingUnder
    <3>3. QED
      BY <2>3, <3>1, <3>2
  <2>4. CASE ~(p = q /\ m = b)
    <3>1. m \in missing'[p] \cup lookup'[p]
      BY <1>8, <2>1, <2>2, <2>4 DEF DbMissingBlocks
    <3>2. QED
      BY <2>2, <3>1
  <2>5. QED
    BY <2>3, <2>4
<1>9. CASE PeersChange
  BY <1>9 DEF PeersChange, SyncCovers
<1>10. CASE LoopEnds
  BY <1>10, EmptyFacts DEF LoopEnds, SyncCovers
<1>11. ASSUME NEW b \in Uploads, PutBlock(b) PROVE SyncCovers'
  BY <1>11, UploadsAssumption DEF PutBlock, SyncCovers
<1>12. CASE UNCHANGED vars
  BY <1>12 DEF vars, SyncCovers
<1>13. QED
  BY <1>1, <1>2, <1>3, <1>4, <1>5, <1>6, <1>7, <1>8, <1>9, <1>10, <1>11, <1>12
  DEF Next, LoopStep, DbStep

\* Every step queues a sync success only for a whole DAG.
LEMMA SyncBringsWholeDagNext ==
  ASSUME IInv, TypeOK', [Next]_vars PROVE SyncBringsWholeDag'
<1> USE DEF IInv, TypeOK, callVars, storeVars, engineVars, loopVars
<1>1. ASSUME NEW c \in Calls, CallStep(c) PROVE SyncBringsWholeDag'
  <2>1. CASE CallCheck(c)
    BY <2>1 DEF CallCheck, SyncBringsWholeDag, SyncCovers
  <2>2. CASE CallSend(c)
    BY <2>2, AppendFacts DEF CallSend, Return, SyncBringsWholeDag, SyncCovers
  <2>3. CASE CallResume(c)
    BY <2>3 DEF CallResume, Return, SyncBringsWholeDag, SyncCovers
  <2>4. CASE CallRead(c)
    BY <2>4 DEF CallRead, Return, SyncBringsWholeDag, SyncCovers
  <2>5. QED
    BY <1>1, <2>1, <2>2, <2>3, <2>4 DEF CallStep
<1>2. ASSUME NEW q \in Calls, EngineStep(q) PROVE SyncBringsWholeDag'
  <2>1. CASE GetBlock(q)
    <3>1. PICK e \in Event : /\ e.id = q /\ e.found = TRUE
                            /\ Range(events') = Range(events) \cup {e}
      BY <2>1, CompleteFacts DEF GetBlock
    <3>2. QED
      BY <2>1, <3>1 DEF GetBlock, Complete, Request, SyncBringsWholeDag, SyncCovers
  <2>2. ASSUME NEW b \in Cids, SyncBlock(q, b) PROVE SyncBringsWholeDag'
    BY <2>2 DEF SyncBlock, SyncBringsWholeDag, SyncCovers
  <2>3. CASE SyncDone(q)
    <3>1. PICK e \in Event : /\ e.id = q /\ e.found = TRUE
                            /\ Range(events') = Range(events) \cup {e}
      BY <2>3, CompleteFacts DEF SyncDone
    <3>2. Reach(Links, req[q].cid) \subseteq store
      BY <2>3 DEF SyncDone, SyncCovers
    <3>3. req[q].cid \in Cids
      BY DEF Request
    <3>4. req[q].cid \in store
      BY <3>2, <3>3, RootReached, ReachWhole, LinksAssumption
    <3>5. QED
      BY <2>3, <3>1, <3>2, <3>4 DEF SyncDone, Complete, SyncBringsWholeDag, SyncCovers
  <2>4. CASE QueryFails(q)
    <3>1. PICK e \in Event : /\ e.id = q /\ e.found = FALSE
                            /\ Range(events') = Range(events) \cup {e}
      BY <2>4, CompleteFacts DEF QueryFails
    <3>2. QED
      BY <2>4, <3>1 DEF QueryFails, Complete, SyncBringsWholeDag, SyncCovers
  <2>5. QED
    BY <1>2, <2>1, <2>2, <2>3, <2>4 DEF EngineStep
<1>3. CASE TakeCommand
  BY <1>3, TailFacts DEF TakeCommand, RefuseNoPeers, StartQuery, Request, SyncBringsWholeDag, SyncCovers
<1>4. CASE TakeEvent
  BY <1>4, TailFacts DEF TakeEvent, Request, Event, SyncBringsWholeDag, SyncCovers
<1>5. CASE SpinEnds
  BY <1>5 DEF SpinEnds, SyncBringsWholeDag, SyncCovers
<1>6. CASE AnswerOne
  BY <1>6 DEF AnswerOne, Verdict, SyncBringsWholeDag, SyncCovers
<1>7. ASSUME NEW b \in Cids, DbInsert(b) PROVE SyncBringsWholeDag'
  BY <1>7 DEF DbInsert, SyncBringsWholeDag, SyncCovers
<1>8. ASSUME NEW b \in Cids, NEW q \in Calls, DbMissingBlocks(q, b) PROVE SyncBringsWholeDag'
  BY <1>8 DEF DbMissingBlocks, SyncBringsWholeDag, SyncCovers
<1>9. CASE PeersChange
  BY <1>9 DEF PeersChange, SyncBringsWholeDag, SyncCovers
<1>10. CASE LoopEnds
  BY <1>10, EmptyFacts DEF LoopEnds, SyncBringsWholeDag, SyncCovers
<1>11. ASSUME NEW b \in Uploads, PutBlock(b) PROVE SyncBringsWholeDag'
  BY <1>11, UploadsAssumption DEF PutBlock, SyncBringsWholeDag, SyncCovers
<1>12. CASE UNCHANGED vars
  BY <1>12 DEF vars, SyncBringsWholeDag, SyncCovers
<1>13. QED
  BY <1>1, <1>2, <1>3, <1>4, <1>5, <1>6, <1>7, <1>8, <1>9, <1>10, <1>11, <1>12
  DEF Next, LoopStep, DbStep

\* No step leaves a block call without its block.
LEMMA GetNeverAbsentNext ==
  ASSUME IInv, TypeOK', [Next]_vars PROVE GetNeverAbsent'
<1> USE DEF IInv, TypeOK, callVars, storeVars, engineVars, loopVars
<1>1. ASSUME NEW c \in Calls, CallStep(c) PROVE GetNeverAbsent'
  <2>1. CASE CallCheck(c)
    BY <2>1 DEF CallCheck, GetNeverAbsent, GrantedIsStored
  <2>2. CASE CallSend(c)
    BY <2>2, AppendFacts DEF CallSend, Return, GetNeverAbsent, GrantedIsStored
  <2>3. CASE CallResume(c)
    BY <2>3 DEF CallResume, Return, GetNeverAbsent, GrantedIsStored
  <2>4. CASE CallRead(c)
    BY <2>4 DEF CallRead, Return, GetNeverAbsent, GrantedIsStored
  <2>5. QED
    BY <1>1, <2>1, <2>2, <2>3, <2>4 DEF CallStep
<1>2. ASSUME NEW q \in Calls, EngineStep(q) PROVE GetNeverAbsent'
  <2>1. CASE GetBlock(q)
    BY <2>1, AppendFacts DEF GetBlock, Complete, Request, Event, GetNeverAbsent, GrantedIsStored
  <2>2. ASSUME NEW b \in Cids, SyncBlock(q, b) PROVE GetNeverAbsent'
    BY <2>2 DEF SyncBlock, GetNeverAbsent, GrantedIsStored
  <2>3. CASE SyncDone(q)
    BY <2>3, AppendFacts DEF SyncDone, Complete, Event, GetNeverAbsent, GrantedIsStored
  <2>4. CASE QueryFails(q)
    BY <2>4, AppendFacts DEF QueryFails, Complete, Event, GetNeverAbsent, GrantedIsStored
  <2>5. QED
    BY <1>2, <2>1, <2>2, <2>3, <2>4 DEF EngineStep
<1>3. CASE TakeCommand
  BY <1>3, TailFacts DEF TakeCommand, RefuseNoPeers, StartQuery, Request, GetNeverAbsent, GrantedIsStored
<1>4. CASE TakeEvent
  BY <1>4, TailFacts DEF TakeEvent, Request, Event, GetNeverAbsent, GrantedIsStored
<1>5. CASE SpinEnds
  BY <1>5 DEF SpinEnds, GetNeverAbsent, GrantedIsStored
<1>6. CASE AnswerOne
  BY <1>6 DEF AnswerOne, Verdict, GetNeverAbsent, GrantedIsStored
<1>7. ASSUME NEW b \in Cids, DbInsert(b) PROVE GetNeverAbsent'
  BY <1>7 DEF DbInsert, GetNeverAbsent, GrantedIsStored
<1>8. ASSUME NEW b \in Cids, NEW q \in Calls, DbMissingBlocks(q, b) PROVE GetNeverAbsent'
  BY <1>8 DEF DbMissingBlocks, GetNeverAbsent, GrantedIsStored
<1>9. CASE PeersChange
  BY <1>9 DEF PeersChange, GetNeverAbsent, GrantedIsStored
<1>10. CASE LoopEnds
  BY <1>10, EmptyFacts DEF LoopEnds, GetNeverAbsent, GrantedIsStored
<1>11. ASSUME NEW b \in Uploads, PutBlock(b) PROVE GetNeverAbsent'
  BY <1>11, UploadsAssumption DEF PutBlock, GetNeverAbsent, GrantedIsStored
<1>12. CASE UNCHANGED vars
  BY <1>12 DEF vars, GetNeverAbsent, GrantedIsStored
<1>13. QED
  BY <1>1, <1>2, <1>3, <1>4, <1>5, <1>6, <1>7, <1>8, <1>9, <1>10, <1>11, <1>12
  DEF Next, LoopStep, DbStep

\* The invariant holds at the start.
LEMMA InvInit == Init => IInv
<1> SUFFICES ASSUME Init PROVE IInv
  OBVIOUS
<1>1. TypeOK
  BY TypeInit
<1>2. Range(commands) = {} /\ Range(events) = {} /\ IsInjective(commands)
  BY EmptyFacts DEF Init
<1>3. \A c \in Calls : req[c].cid \in Cids
  BY <1>1 DEF TypeOK, Request
<1>4. QED
  BY <1>1, <1>2, <1>3
  DEF Init, IInv, LoopInv, OneHome, NoOrphanWaiter, GrantedIsStored, SpinIsFinite,
      SyncCovers, SyncBringsWholeDag, GetNeverAbsent, Registered, Queued, Completed

\* Every step keeps the invariant.
LEMMA InvNext == IInv /\ [Next]_vars => IInv'
<1> SUFFICES ASSUME IInv, [Next]_vars PROVE IInv'
  OBVIOUS
<1>1. TypeOK'
  BY TypeNext DEF IInv
<1>2. QED
  BY <1>1, LoopInvNext, OneHomeNext, NoOrphanWaiterNext, GrantedIsStoredNext,
     SpinIsFiniteNext, SyncCoversNext, SyncBringsWholeDagNext, GetNeverAbsentNext
  DEF IInv

\* The invariant holds in every reachable state.
LEMMA InvAlways == Safety => []IInv
BY InvInit, InvNext, PTL DEF Safety

(***************************************************************************)
(* The sender of a waiting call is in exactly one place: the command       *)
(* channel, response_channels, or the completion that the loop handles.    *)
(***************************************************************************)
THEOREM SendersHaveOneHome == Safety => []OneHome
<1>1. IInv => OneHome
  BY DEF IInv
<1>2. QED
  BY <1>1, InvAlways, PTL

(***************************************************************************)
(* The node never forgets a waiting caller: while its sender is in         *)
(* response_channels its own query, or that query's completion, is still   *)
(* to come.                                                                *)
(***************************************************************************)
THEOREM WaitersAreKept == Safety => []NoOrphanWaiter
<1>1. IInv => NoOrphanWaiter
  BY DEF IInv
<1>2. QED
  BY <1>1, InvAlways, PTL

(***************************************************************************)
(* The busy wait of the network loop is always for a block that is stored  *)
(* or about to be stored by the database thread.                           *)
(***************************************************************************)
THEOREM SpinsAreFinite == Safety => []SpinIsFinite
<1>1. IInv => SpinIsFinite
  BY DEF IInv
<1>2. QED
  BY <1>1, InvAlways, PTL

(***************************************************************************)
(* An Ok is never given on credit, and the handler of a single block never *)
(* panics on its unwrap.                                                   *)
(***************************************************************************)
THEOREM GrantsAreSound == Safety => [](GrantedIsStored /\ GetNeverAbsent)
<1>1. IInv => GrantedIsStored /\ GetNeverAbsent
  BY DEF IInv
<1>2. QED
  BY <1>1, InvAlways, PTL

(***************************************************************************)
(* A sync query that succeeds has brought every block of the DAG, for      *)
(* every graph of links and however its blocks are interleaved with those  *)
(* of other queries and of uploads.                                        *)
(***************************************************************************)
THEOREM SyncIsWhole == Safety => [](SyncCovers /\ SyncBringsWholeDag)
<1>1. IInv => SyncCovers /\ SyncBringsWholeDag
  BY DEF IInv
<1>2. QED
  BY <1>1, InvAlways, PTL

-----------------------------------------------------------------------------
(***************************************************************************)
(* The fetch path implements BlockService: every step of it is a step of   *)
(* the abstract service or changes nothing that the service shows.         *)
(***************************************************************************)
\* The abstract status of all calls.
Status == [c \in Calls |-> StatusOf(c)]

\* A step in which only call c moves moves only its status.
LEMMA OneMoves ==
  ASSUME NEW c \in Calls, \A d \in Calls \ {c} : StatusOf(d)' = StatusOf(d)
  PROVE  Status' = [Status EXCEPT ![c] = StatusOf(c)']
BY DEF Status

\* A step in which no call moves leaves the status as it is.
LEMMA NoneMoves ==
  ASSUME \A d \in Calls : StatusOf(d)' = StatusOf(d)
  PROVE  Status' = Status
BY DEF Status

\* The status depends on three variables only.
LEMMA StatusFrame ==
  ASSUME UNCHANGED <<pc, answer, outcome>>
  PROVE  Status' = Status
<1>1. \A d \in Calls : StatusOf(d)' = StatusOf(d)
  BY DEF StatusOf
<1>2. QED
  BY <1>1, NoneMoves

\* The steps of one call.
LEMMA CallRefines ==
  ASSUME IInv, NEW c \in Calls, CallStep(c)
  PROVE  [Abstract!Next]_(Abstract!vars)
<1> USE DEF IInv, TypeOK
<1> SUFFICES \/ \E d \in Calls : \/ Abstract!Grant(d) \/ Abstract!Refuse(d)
                                 \/ Abstract!Serve(d) \/ Abstract!Break(d)
             \/ UNCHANGED <<req, store, Status>>
  BY DEF Abstract!Next, Abstract!vars, Status
<1> USE DEF Status, storeVars, engineVars, loopVars
<1>0. UNCHANGED <<req, store>>
  BY DEF CallStep, CallCheck, CallSend, CallResume, CallRead
<1>1. \A d \in Calls \ {c} : StatusOf(d)' = StatusOf(d)
  BY DEF CallStep, CallCheck, CallSend, CallResume, CallRead, Return, StatusOf
<1>2. Status' = [Status EXCEPT ![c] = StatusOf(c)']
  BY <1>1, OneMoves
<1>3. CASE CallCheck(c)
  <2>1. StatusOf(c) = "asked"
    BY <1>3 DEF CallCheck, StatusOf
  <2>2. CASE req[c].cid \in store
    <3>1. StatusOf(c)' = "granted"
      BY <1>3, <2>2 DEF CallCheck, StatusOf
    <3>2. Abstract!Grant(c)
      BY <1>0, <1>2, <2>1, <2>2, <3>1 DEF Abstract!Grant, Abstract!Move
    <3>3. QED
      BY <3>2
  <2>3. CASE req[c].cid \notin store
    <3>1. StatusOf(c)' = "asked"
      BY <1>3, <2>3 DEF CallCheck, StatusOf
    <3>2. QED
      BY <1>0, <1>2, <2>1, <3>1
  <2>4. QED
    BY <2>2, <2>3
<1>4. CASE CallSend(c)
  <2>1. StatusOf(c) = "asked" /\ StatusOf(c)' \in {"asked", "refused"}
    BY <1>4 DEF CallSend, Return, StatusOf, LoopInv
  <2>2. CASE StatusOf(c)' = "asked"
    BY <1>0, <1>2, <2>1, <2>2
  <2>3. CASE StatusOf(c)' = "refused"
    <3>1. Abstract!Refuse(c)
      BY <1>0, <1>2, <2>1, <2>3 DEF Abstract!Refuse, Abstract!Move
    <3>2. QED
      BY <3>1
  <2>4. QED
    BY <2>1, <2>2, <2>3
<1>5. CASE CallResume(c)
  <2>1. StatusOf(c)' = StatusOf(c)
    BY <1>5 DEF CallResume, Return, StatusOf
  <2>2. QED
    BY <1>0, <1>2, <2>1
<1>6. CASE CallRead(c)
  <2> DEFINE served == IF req[c].kind = "get"
                         THEN req[c].cid \in store
                         ELSE DagPresent(Links, req[c].cid, store)
  <2>1. StatusOf(c) = "granted"
    BY <1>6 DEF CallRead, StatusOf
  <2>2. req[c].cid \in Cids
    BY DEF Request
  <2>3. served <=> Abstract!Servable(c)
    BY <2>2, PresentMeansWhole, LinksAssumption DEF Abstract!Servable, Abstract!Reach,
       Abstract!ReachIn, Abstract!ClosedUnder, Reach, ReachIn, ClosedUnder
  <2>4. StatusOf(c)' = IF served THEN "served" ELSE "broken"
    BY <1>6 DEF CallRead, Return, StatusOf
  <2>5. CASE served
    <3>1. Abstract!Serve(c)
      BY <1>0, <1>2, <2>1, <2>3, <2>4, <2>5 DEF Abstract!Serve, Abstract!Move
    <3>2. QED
      BY <3>1
  <2>6. CASE ~served
    <3>1. Abstract!Break(c)
      BY <1>0, <1>2, <2>1, <2>3, <2>4, <2>6 DEF Abstract!Break, Abstract!Move
    <3>2. QED
      BY <3>1
  <2>7. QED
    BY <2>5, <2>6
<1>7. QED
  BY <1>3, <1>4, <1>5, <1>6 DEF CallStep

\* A step that shows nothing: no block arrives and no call moves.
LEMMA Stutters ==
  ASSUME UNCHANGED <<req, pc, answer, outcome, store>>
  PROVE  [Abstract!Next]_(Abstract!vars)
BY StatusFrame DEF Abstract!vars, Status

\* A block arrives, from a peer or from an upload.
LEMMA StoreRefines ==
  ASSUME NEW b \in Cids, store' = store \cup {b}, UNCHANGED <<req, pc, answer, outcome>>
  PROVE  [Abstract!Next]_(Abstract!vars)
<1>1. Abstract!Store
  BY StatusFrame DEF Abstract!Store, Status
<1>2. QED
  BY <1>1 DEF Abstract!Next

\* One waiting call is answered, with a verdict that the store bears out.
LEMMA AnswerRefines ==
  ASSUME TypeOK, NEW c \in Calls, NEW v \in {"ok", "err"},
         pc[c] = "wait", answer[c] = "none", v = "ok" => req[c].cid \in store,
         answer' = [answer EXCEPT ![c] = v], UNCHANGED <<req, pc, outcome, store>>
  PROVE  [Abstract!Next]_(Abstract!vars)
<1> USE DEF TypeOK
<1>1. \A d \in Calls \ {c} : StatusOf(d)' = StatusOf(d)
  BY DEF StatusOf
<1>2. Status' = [Status EXCEPT ![c] = StatusOf(c)']
  BY <1>1, OneMoves
<1>3. StatusOf(c) = "asked" /\ Status[c] = StatusOf(c)
  BY DEF StatusOf, Status
<1>4. StatusOf(c)' = IF v = "ok" THEN "granted" ELSE "refused"
  BY DEF StatusOf
<1>5. Abstract!Grant(c) \/ Abstract!Refuse(c)
  BY <1>2, <1>3, <1>4 DEF Abstract!Grant, Abstract!Refuse, Abstract!Move, Status
<1>6. QED
  BY <1>5 DEF Abstract!Next

\* The loop ends: every registered call is refused.
LEMMA EndRefines ==
  ASSUME IInv, LoopEnds
  PROVE  [Abstract!Next]_(Abstract!vars)
<1> USE DEF IInv, TypeOK
<1> DEFINE R == {c \in Calls : \E k \in Cids : c \in response_channels[k]}
<1>1. \A c \in R : pc[c] = "wait" /\ answer[c] = "none"
  BY DEF OneHome, Registered
<1>2. \A c \in R : StatusOf(c) = "asked"
  BY <1>1 DEF StatusOf
<1>3. \A c \in R : StatusOf(c)' = "refused"
  BY <1>1 DEF LoopEnds, StatusOf
<1>4. \A c \in Calls \ R : StatusOf(c)' = StatusOf(c)
  BY DEF LoopEnds, StatusOf
<1>5. Status' = [c \in Calls |-> IF c \in R THEN "refused" ELSE Status[c]]
  BY <1>3, <1>4 DEF Status
<1>6. R \in SUBSET {c \in Calls : Status[c] = "asked"}
  BY <1>2 DEF Status
<1>7. Abstract!RefuseMany
  BY <1>5, <1>6 DEF Abstract!RefuseMany, LoopEnds, storeVars, Status
<1>8. QED
  BY <1>7 DEF Abstract!Next

\* The steps of the loop.
LEMMA LoopRefines ==
  ASSUME IInv, LoopStep
  PROVE  [Abstract!Next]_(Abstract!vars)
<1> USE DEF IInv, storeVars, callVars
<1>1. CASE TakeCommand
  <2>1. PICK c \in Calls : /\ Range(commands) = Range(commands') \cup {c}
                           /\ RefuseNoPeers(c) \/ StartQuery(c)
    BY <1>1, TakeCommandFacts
  <2>2. UNCHANGED <<req, pc, outcome, store>>
    BY <1>1 DEF TakeCommand
  <2>3. CASE RefuseNoPeers(c)
    <3>1. pc[c] = "wait" /\ answer[c] = "none"
      BY <2>1 DEF OneHome, Queued
    <3>2. QED
      BY <2>2, <2>3, <3>1, AnswerRefines DEF RefuseNoPeers
  <2>4. CASE StartQuery(c)
    BY <2>2, <2>4, Stutters DEF StartQuery
  <2>5. QED
    BY <2>1, <2>3, <2>4
<1>2. CASE TakeEvent
  BY <1>2, Stutters DEF TakeEvent
<1>3. CASE SpinEnds
  BY <1>3, Stutters DEF SpinEnds
<1>4. CASE AnswerOne
  <2>1. PICK c \in batch : answer' = [answer EXCEPT ![c] = Verdict(cur)]
    BY <1>4 DEF AnswerOne
  <2>2. c \in Calls /\ pc[c] = "wait" /\ answer[c] = "none" /\ cur = req[c].cid
    BY DEF OneHome, TypeOK
  <2>3. Verdict(cur) \in {"ok", "err"} /\ (Verdict(cur) = "ok" => req[c].cid \in store)
    BY <2>2 DEF Verdict
  <2>4. UNCHANGED <<req, pc, outcome, store>>
    BY <1>4 DEF AnswerOne
  <2>5. QED
    BY <2>1, <2>2, <2>3, <2>4, AnswerRefines
<1>5. QED
  BY <1>1, <1>2, <1>3, <1>4 DEF LoopStep

\* Every step of the fetch path is a step of the service, or a stutter.
LEMMA StepRefines == IInv /\ [Next]_vars => [Abstract!Next]_(Abstract!vars)
<1> SUFFICES ASSUME IInv, [Next]_vars PROVE [Abstract!Next]_(Abstract!vars)
  OBVIOUS
<1> USE DEF storeVars, callVars
<1>1. ASSUME NEW c \in Calls, CallStep(c) PROVE [Abstract!Next]_(Abstract!vars)
  BY <1>1, CallRefines
<1>2. ASSUME NEW q \in Calls, EngineStep(q) PROVE [Abstract!Next]_(Abstract!vars)
  <2>1. UNCHANGED <<req, pc, answer, outcome, store>>
    BY <1>2 DEF EngineStep, GetBlock, SyncBlock, SyncDone, QueryFails
  <2>2. QED
    BY <2>1, Stutters
<1>3. CASE LoopStep
  BY <1>3, LoopRefines
<1>4. ASSUME NEW b \in Cids, DbInsert(b) PROVE [Abstract!Next]_(Abstract!vars)
  <2>1. store' = store \cup {b} /\ UNCHANGED <<req, pc, answer, outcome>>
    BY <1>4 DEF DbInsert
  <2>2. QED
    BY <2>1, StoreRefines
<1>5. ASSUME NEW b \in Cids, NEW q \in Calls, DbMissingBlocks(q, b)
      PROVE  [Abstract!Next]_(Abstract!vars)
  BY <1>5, Stutters DEF DbMissingBlocks
<1>6. CASE PeersChange
  BY <1>6, Stutters DEF PeersChange
<1>7. CASE LoopEnds
  BY <1>7, EndRefines
<1>8. ASSUME NEW b \in Uploads, PutBlock(b) PROVE [Abstract!Next]_(Abstract!vars)
  <2>1. b \in Cids /\ store' = store \cup {b} /\ UNCHANGED <<req, pc, answer, outcome>>
    BY <1>8, UploadsAssumption DEF PutBlock
  <2>2. QED
    BY <2>1, StoreRefines
<1>9. CASE UNCHANGED vars
  BY <1>9, Stutters DEF vars
<1>10. QED
  BY <1>1, <1>2, <1>3, <1>4, <1>5, <1>6, <1>7, <1>8, <1>9 DEF Next, DbStep

\* The node starts as the service does.
LEMMA InitRefines == Init => Abstract!Init
<1> SUFFICES ASSUME Init PROVE Abstract!Init
  OBVIOUS
<1>1. \A c \in Calls : StatusOf(c) = "asked"
  BY DEF Init, StatusOf
<1>2. QED
  BY <1>1 DEF Init, Request, Abstract!Init

(***************************************************************************)
(* The fetch path, with its queue of commands, its shared table of senders *)
(* and its database thread, implements the abstract service: a call is     *)
(* granted or refused at most once, only for a stored block, and what the  *)
(* caller gets afterwards is what the store then holds.                    *)
(***************************************************************************)
THEOREM FetchImplements == Safety => Implements
<1>1. Safety => []IInv
  BY InvAlways
<1>2. QED
  BY <1>1, InitRefines, StepRefines, PTL DEF Safety, Implements, Abstract!Spec

=============================================================================
