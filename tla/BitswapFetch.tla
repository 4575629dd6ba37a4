---------------------------- MODULE BitswapFetch ----------------------------
(***************************************************************************)
(* How a node answers a request for content it does not hold: the RPC      *)
(* tasks (ursa-rpc-server/src/api.rs, get and get_data), the network loop  *)
(* (ursa-network/src/service.rs, start), the behaviour's table of queries  *)
(* (behaviour.rs), the bitswap engine with its database thread (external,  *)
(* the libp2p-bitswap crate) and the block store (ursa-store).             *)
(*                                                                         *)
(* Processes: one task per call; the network loop, in whose task the       *)
(* swarm, and so the engine, is polled; the database thread; other RPC     *)
(* tasks that upload blocks.  A GetBitswap command starts one query, so a  *)
(* query is named by the call whose command started it.                    *)
(***************************************************************************)
EXTENDS Dag, Naturals, Sequences, Functions

CONSTANTS
  Cids,      \* the blocks
  Calls,     \* the calls of get and get_data
  Peers,     \* the remote peers that may connect
  Links,     \* the links of every block
  Uploads,   \* the blocks that other tasks may upload
  NoCid      \* "the loop is handling no event"

ASSUME LinksAssumption == Links \in Graph(Cids)
ASSUME UploadsAssumption == Uploads \subseteq Cids
ASSUME NoCidAssumption == NoCid \notin Cids

VARIABLES
  \* ---- the RPC tasks
  req,        \* what each call asks: BitswapType and cid
  pc,         \* where each call is
  answer,     \* what its oneshot receiver holds
  outcome,    \* what its caller got
  \* ---- the block store
  store,      \* the cids of the blocks of the database
  inserting,  \* blocks queued for the engine's database thread
  \* ---- the network loop and the behaviour
  peers,      \* Behaviour::peers, the peers that discovery reports connected
  commands,   \* the command channel
  response_channels, \* UrsaService::response_channels: the senders per cid
  active,     \* Behaviour::queries: the queries in progress
  missing,    \* per query, the blocks the engine is asking peers for
  lookup,     \* per query, the missing_blocks calls waiting for the thread
  events,     \* Behaviour::events, the completions not handled yet
  mode,       \* what the loop is doing
  cur,        \* the cid of the completion being handled
  batch       \* the senders of that completion not answered yet

callVars  == <<pc, answer, outcome>>
storeVars == <<store, inserting>>
engineVars == <<active, missing, lookup>>
loopVars  == <<mode, cur, batch>>
vars == <<req, pc, answer, outcome, store, inserting, peers, commands,
          response_channels, active, missing, lookup, events, mode, cur, batch>>

Request == [kind : {"get", "sync"}, cid : Cids]
Event   == [id : Calls, found : BOOLEAN]     \* BitswapInfo

TypeOK ==
  /\ req \in [Calls -> Request]
  /\ pc \in [Calls -> {"idle", "send", "wait", "read", "done"}]
  /\ answer \in [Calls -> {"none", "ok", "err", "canceled"}]
  /\ outcome \in [Calls -> {"none", "ok", "refused", "absent"}]
  /\ store \in SUBSET Cids
  /\ inserting \in SUBSET Cids
  /\ peers \in SUBSET Peers
  /\ commands \in Seq(Calls)
  /\ response_channels \in [Cids -> SUBSET Calls]
  /\ active \in SUBSET Calls
  /\ missing \in [Calls -> SUBSET Cids]
  /\ lookup \in [Calls -> SUBSET Cids]
  /\ events \in Seq(Event)
  /\ mode \in {"idle", "spin", "answer", "stopped"}
  /\ cur \in Cids \cup {NoCid}
  /\ batch \in SUBSET Calls

\* A node that has just started, with any blocks in its database.
Init ==
  /\ req \in [Calls -> Request]
  /\ pc = [c \in Calls |-> "idle"]
  /\ answer = [c \in Calls |-> "none"]
  /\ outcome = [c \in Calls |-> "none"]
  /\ store \in SUBSET Cids
  /\ inserting = {}
  /\ peers = {}
  /\ commands = <<>>
  /\ response_channels = [k \in Cids |-> {}]
  /\ active = {}
  /\ missing = [c \in Calls |-> {}]
  /\ lookup = [c \in Calls |-> {}]
  /\ events = <<>>
  /\ mode = "idle"
  /\ cur = NoCid
  /\ batch = {}

-----------------------------------------------------------------------------
(***************************************************************************)
(* The RPC tasks.  A call ends "ok"; or "refused", with the error of the   *)
(* channel or of the loop; or "absent", when what it then reads from the   *)
(* store is not there (get returns None, get_data the error of             *)
(* dag_traversal).  The get_cid handler unwraps the block, so for a get    *)
(* "absent" is a panic of its task; stream and get_file unwrap the result  *)
(* of get_data, so for a sync both failures are.                           *)
(***************************************************************************)
\* The call ends with o.
Return(c, o) ==
  /\ pc' = [pc EXCEPT ![c] = "done"]
  /\ outcome' = [outcome EXCEPT ![c] = o]
  /\ UNCHANGED answer

\* `if !store.has(&cid)`: only the block of the given cid is looked for.
CallCheck(c) ==
  /\ pc[c] = "idle"
  /\ pc' = [pc EXCEPT ![c] = IF req[c].cid \in store THEN "read" ELSE "send"]
  /\ UNCHANGED <<req, answer, outcome, storeVars, peers, commands,
                 response_channels, engineVars, events, loopVars>>

\* `network_send.send(request).await?`: fails once the loop has ended.
CallSend(c) ==
  /\ pc[c] = "send"
  /\ IF mode = "stopped"
       THEN Return(c, "refused") /\ UNCHANGED commands
       ELSE /\ commands' = Append(commands, c)
            /\ pc' = [pc EXCEPT ![c] = "wait"]
            /\ UNCHANGED <<answer, outcome>>
  /\ UNCHANGED <<req, storeVars, peers, response_channels, engineVars,
                 events, loopVars>>

\* Awaits the receiver without looking at what it carries.
CallResumeUnchecked(c) ==
  /\ pc[c] = "wait"
  /\ answer[c] # "none"
  /\ pc' = [pc EXCEPT ![c] = "read"]
  /\ UNCHANGED <<req, answer, outcome, storeVars, peers, commands,
                 response_channels, engineVars, events, loopVars>>

\* `if let Err(e) = receiver.await? { return Err(..) }`
CallResume(c) ==
  /\ pc[c] = "wait"
  /\ answer[c] # "none"
  /\ IF answer[c] = "ok"
       THEN pc' = [pc EXCEPT ![c] = "read"] /\ UNCHANGED <<answer, outcome>>
       ELSE Return(c, "refused")
  /\ UNCHANGED <<req, storeVars, peers, commands, response_channels,
                 engineVars, events, loopVars>>

\* The result is read from the store: one block, or the DAG (dag_traversal).
CallRead(c) ==
  /\ pc[c] = "read"
  /\ LET served == IF req[c].kind = "get"
                     THEN req[c].cid \in store
                     ELSE DagPresent(Links, req[c].cid, store)
     IN  Return(c, IF served THEN "ok" ELSE "absent")
  /\ UNCHANGED <<req, storeVars, peers, commands, response_channels,
                 engineVars, events, loopVars>>

\* Another RPC task uploads a CAR file: load_car writes block by block.
PutBlock(b) ==
  /\ b \notin store
  /\ store' = store \cup {b}
  /\ UNCHANGED <<req, callVars, inserting, peers, commands,
                 response_channels, engineVars, events, loopVars>>

-----------------------------------------------------------------------------
(***************************************************************************)
(* The bitswap engine.  A get query asks for one block; a sync query asks  *)
(* for the root and then for whatever missing_blocks reports under each    *)
(* block received.  It runs inside the loop's task: only when the loop     *)
(* polls the swarm.  Whether the peers have a block is up to them.         *)
(***************************************************************************)
\* A completion that found its block queues no event.
CompleteSilently(q, found) ==
  /\ active' = active \ {q}
  /\ missing' = [missing EXCEPT ![q] = {}]
  /\ lookup' = [lookup EXCEPT ![q] = {}]
  /\ events' = IF found THEN events ELSE Append(events, [id |-> q, found |-> found])

\* behaviour.rs, handle_bitswap: a query completes, its event is queued.
Complete(q, found) ==
  /\ active' = active \ {q}
  /\ missing' = [missing EXCEPT ![q] = {}]
  /\ lookup' = [lookup EXCEPT ![q] = {}]
  /\ events' = Append(events, [id |-> q, found |-> found])

\* A peer sends the block of a get query: it is handed to the thread.
GetBlock(q) ==
  /\ mode = "idle"
  /\ q \in active
  /\ req[q].kind = "get"
  /\ inserting' = inserting \cup {req[q].cid}
  /\ Complete(q, TRUE)
  /\ UNCHANGED <<req, callVars, store, peers, commands, response_channels,
                 loopVars>>

\* A peer sends a block of a sync query: insert, then look under it.
SyncBlock(q, b) ==
  /\ mode = "idle"
  /\ q \in active
  /\ req[q].kind = "sync"
  /\ b \in missing[q]
  /\ inserting' = inserting \cup {b}
  /\ missing' = [missing EXCEPT ![q] = @ \ {b}]
  /\ lookup' = [lookup EXCEPT ![q] = @ \cup {b}]
  /\ UNCHANGED <<req, callVars, store, peers, commands, response_channels,
                 active, events, loopVars>>

\* The database thread writes a block (BitswapStore::insert).
DbInsert(b) ==
  /\ b \in inserting
  /\ inserting' = inserting \ {b}
  /\ store' = store \cup {b}
  /\ UNCHANGED <<req, callVars, peers, commands, response_channels,
                 engineVars, events, loopVars>>

\* missing_blocks stops at the first level: it reports direct links only.
ShallowMissing(b) == Links[b] \ store

\* Store::missing_blocks, as module MissingBlocks shows its loop computes it.
MissingUnder(b) == MissingIn(Links, b, store)

\* The thread answers a missing_blocks call; it was queued after the insert.
DbMissingBlocks(q, b) ==
  /\ b \in lookup[q]
  /\ b \notin inserting
  /\ lookup' = [lookup EXCEPT ![q] = @ \ {b}]
  /\ missing' = [missing EXCEPT ![q] = @ \cup MissingUnder(b)]
  /\ UNCHANGED <<req, callVars, storeVars, peers, commands, response_channels,
                 active, events, loopVars>>

\* Nothing is missing any more: the sync query has succeeded.
SyncDone(q) ==
  /\ mode = "idle"
  /\ q \in active
  /\ req[q].kind = "sync"
  /\ missing[q] = {}
  /\ lookup[q] = {}
  /\ Complete(q, TRUE)
  /\ UNCHANGED <<req, callVars, storeVars, peers, commands, response_channels,
                 loopVars>>

\* No peer gave a block the query asks for (refused, gone or timed out).
QueryFails(q) ==
  /\ mode = "idle"
  /\ q \in active
  /\ missing[q] # {}
  /\ Complete(q, FALSE)
  /\ UNCHANGED <<req, callVars, storeVars, peers, commands, response_channels,
                 loopVars>>

\* Discovery reports a peer, or that it is gone (module Discovery).
PeersChange ==
  /\ mode = "idle"
  /\ \E p \in Peers :
        peers' = IF p \in peers THEN peers \ {p} ELSE peers \cup {p}
  /\ UNCHANGED <<req, callVars, storeVars, commands, response_channels,
                 engineVars, events, loopVars>>

-----------------------------------------------------------------------------
(***************************************************************************)
(* The network loop (service.rs, start).                                   *)
(***************************************************************************)
\* The sender of a second call replaces the one already registered.
StartQueryReplacing(c) ==
  /\ response_channels' = [response_channels EXCEPT ![req[c].cid] = {c}]
  /\ active' = active \cup {c}
  /\ missing' = [missing EXCEPT ![c] = {req[c].cid}]
  /\ UNCHANGED <<answer, lookup>>

\* UrsaCommand::GetBitswap: register the sender and start a query.
StartQuery(c) ==
  /\ response_channels' = [response_channels EXCEPT ![req[c].cid] = @ \cup {c}]
  /\ active' = active \cup {c}
  /\ missing' = [missing EXCEPT ![c] = {req[c].cid}]
  /\ UNCHANGED <<answer, lookup>>

\* No peer to ask: the sender is answered at once.
RefuseNoPeers(c) ==
  /\ answer' = [answer EXCEPT ![c] = "err"]
  /\ UNCHANGED <<response_channels, engineVars>>

TakeCommand ==
  /\ mode = "idle"
  /\ commands # <<>>
  /\ commands' = Tail(commands)
  /\ LET c == Head(commands)
     IN  IF peers = {} THEN RefuseNoPeers(c) ELSE StartQuery(c)
  /\ UNCHANGED <<req, pc, outcome, storeVars, peers, events, loopVars>>

\* The loop spins for every completion, also when no block was found.
TakeEventAlwaysSpins ==
  /\ mode = "idle"
  /\ events # <<>>
  /\ events' = Tail(events)
  /\ LET k == req[Head(events).id].cid
     IN  IF response_channels[k] = {}
           THEN UNCHANGED <<response_channels, loopVars>>
           ELSE /\ response_channels' = [response_channels EXCEPT ![k] = {}]
                /\ mode' = "spin"
                /\ cur' = k
                /\ batch' = response_channels[k]
  /\ UNCHANGED <<req, callVars, storeVars, peers, commands, engineVars>>

\* The loop does not wait for the block of a completion.
TakeEventNeverSpins ==
  /\ mode = "idle"
  /\ events # <<>>
  /\ events' = Tail(events)
  /\ LET k == req[Head(events).id].cid
     IN  IF response_channels[k] = {}
           THEN UNCHANGED <<response_channels, loopVars>>
           ELSE /\ response_channels' = [response_channels EXCEPT ![k] = {}]
                /\ mode' = "answer"
                /\ cur' = k
                /\ batch' = response_channels[k]
  /\ UNCHANGED <<req, callVars, storeVars, peers, commands, engineVars>>

(***************************************************************************)
(* BehaviourEvent::Bitswap: ALL senders registered for the cid are taken,  *)
(* whichever query completed; if the block was found the loop spins until  *)
(* the store has it.  cancel(query_id) changes nothing: handle_bitswap has *)
(* removed the query already.                                              *)
(***************************************************************************)
TakeEvent ==
  /\ mode = "idle"
  /\ events # <<>>
  /\ events' = Tail(events)
  /\ LET e == Head(events)
         k == req[e.id].cid
     IN  IF response_channels[k] = {}
           THEN UNCHANGED <<response_channels, loopVars>>
           ELSE /\ response_channels' = [response_channels EXCEPT ![k] = {}]
                /\ mode' = IF e.found THEN "spin" ELSE "answer"
                /\ cur' = k
                /\ batch' = response_channels[k]
  /\ UNCHANGED <<req, callVars, storeVars, peers, commands, engineVars>>

\* `loop { if blockstore.contains(&cid) { break } }`
SpinEnds ==
  /\ mode = "spin"
  /\ cur \in store
  /\ mode' = "answer"
  /\ UNCHANGED <<req, callVars, storeVars, peers, commands, response_channels,
                 engineVars, events, cur, batch>>

\* Every sender of a completion is told that the block is there.
VerdictAlwaysOk(k) == "ok"

\* What a sender is sent: the store decides, not the query's result.
Verdict(k) == IF k \in store THEN "ok" ELSE "err"

\* `for chan in chans`: one sender is answered.
AnswerOne ==
  /\ mode = "answer"
  /\ \E c \in batch :
        /\ answer' = [answer EXCEPT ![c] = Verdict(cur)]
        /\ batch' = batch \ {c}
  /\ IF batch' = {}
       THEN mode' = "idle" /\ cur' = NoCid
       ELSE UNCHANGED <<mode, cur>>
  /\ UNCHANGED <<req, pc, outcome, storeVars, peers, commands,
                 response_channels, engineVars, events>>

(***************************************************************************)
(* The loop returns: an error of another handler (StartPublish's           *)
(* dag_traversal(..)?) ends start().  The service is dropped, with the     *)
(* senders it holds; commands still in the channel stay there.             *)
(***************************************************************************)
LoopEnds ==
  /\ mode = "idle"
  /\ mode' = "stopped"
  /\ answer' = [c \in Calls |-> IF \E k \in Cids : c \in response_channels[k]
                                  THEN "canceled" ELSE answer[c]]
  /\ response_channels' = [k \in Cids |-> {}]
  /\ active' = {}
  /\ missing' = [c \in Calls |-> {}]
  /\ lookup' = [c \in Calls |-> {}]
  /\ events' = <<>>
  /\ UNCHANGED <<req, pc, outcome, storeVars, peers, commands, cur, batch>>

-----------------------------------------------------------------------------
CallStep(c) == CallCheck(c) \/ CallSend(c) \/ CallResume(c) \/ CallRead(c)

EngineStep(q) ==
  \/ GetBlock(q)
  \/ \E b \in Cids : SyncBlock(q, b)
  \/ SyncDone(q)
  \/ QueryFails(q)

LoopStep == TakeCommand \/ TakeEvent \/ SpinEnds \/ AnswerOne

DbStep == \E b \in Cids : DbInsert(b) \/ \E q \in Calls : DbMissingBlocks(q, b)

Next ==
  \/ \E c \in Calls : CallStep(c)
  \/ \E q \in Calls : EngineStep(q)
  \/ LoopStep
  \/ DbStep
  \/ PeersChange
  \/ LoopEnds
  \/ \E b \in Uploads : PutBlock(b)

Safety == Init /\ [][Next]_vars

(***************************************************************************)
(* Tasks and threads are scheduled; select! picks among its ready branches *)
(* at random, so neither commands nor events starve; a query ends, since   *)
(* every request of the engine times out.  Peers and uploads owe nothing,  *)
(* and the loop need not end.                                              *)
(***************************************************************************)
Fairness ==
  /\ \A c \in Calls : WF_vars(CallSend(c) \/ CallResume(c) \/ CallRead(c))
  /\ \A q \in Calls : WF_vars(EngineStep(q))
  /\ WF_vars(TakeCommand)
  /\ WF_vars(TakeEvent)
  /\ WF_vars(SpinEnds \/ AnswerOne)
  /\ WF_vars(DbStep)

Spec == Safety /\ Fairness

-----------------------------------------------------------------------------
(***************************************************************************)
(* Where the sender of a call can be.                                      *)
(***************************************************************************)
Queued(c)     == c \in Range(commands)
Registered(c) == c \in response_channels[req[c].cid]
Completed(q)  == \E e \in Range(events) : e.id = q

(***************************************************************************)
(* The bookkeeping of the loop and of the queries: a completion is being   *)
(* handled exactly while senders of it are left, a get query asks for its  *)
(* block until it ends, a query that ended asks for nothing, and a command *)
(* is queued once.                                                         *)
(***************************************************************************)
LoopInv ==
  /\ IF mode \in {"spin", "answer"} THEN batch # {} /\ cur \in Cids
                                    ELSE batch = {} /\ cur = NoCid
  /\ \A q \in active : req[q].kind = "get"
                        => missing[q] = {req[q].cid} /\ lookup[q] = {}
  /\ \A q \in Calls \ active : missing[q] = {} /\ lookup[q] = {}
  /\ \A c \in Calls : pc[c] \in {"idle", "send"} => answer[c] = "none"
  /\ IsInjective(commands)

(***************************************************************************)
(* Nothing is granted on credit: a call that was answered Ok, or that is   *)
(* about to read its result, finds the block it named in the store, and a  *)
(* get query that found its block has it stored or queued for storing.     *)
(***************************************************************************)
GrantedIsStored ==
  /\ \A c \in Calls : answer[c] = "ok" \/ pc[c] = "read" => req[c].cid \in store
  /\ \A e \in Range(events) : e.found => req[e.id].cid \in store \cup inserting

(***************************************************************************)
(* No waiter is forgotten: while a sender is registered, the query that    *)
(* its own command started is in progress or its completion is queued, so  *)
(* something will still take the sender out, although completions of other *)
(* queries for the same cid take and answer it too.                        *)
(***************************************************************************)
NoOrphanWaiter ==
  \A c \in Calls : Registered(c) => c \in active \/ Completed(c)

(***************************************************************************)
(* The sender of a waiting call is in exactly one place until it is used:  *)
(* in the command channel, in response_channels under its own cid, or in   *)
(* the completion being handled; in a stopped service only the channel is  *)
(* left.  A call that does not wait has no sender anywhere.                *)
(***************************************************************************)
OneHome ==
  \A c \in Calls :
     /\ \A k \in Cids : c \in response_channels[k] => k = req[c].cid
     /\ pc[c] = "wait" /\ answer[c] = "none"
          => \/ Queued(c) /\ ~Registered(c) /\ c \notin batch
             \/ ~Queued(c) /\ Registered(c) /\ c \notin batch
             \/ ~Queued(c) /\ ~Registered(c) /\ c \in batch /\ cur = req[c].cid
     /\ ~(pc[c] = "wait" /\ answer[c] = "none")
          => ~Queued(c) /\ ~Registered(c) /\ c \notin batch

(***************************************************************************)
(* The busy wait of the loop, which blocks the whole swarm, always ends:   *)
(* the block it waits for is stored, or queued for the database thread.    *)
(***************************************************************************)
SpinIsFinite == mode = "spin" => cur \in store \cup inserting

(***************************************************************************)
(* A block call is never left without its block: after `Ok(())`, or after  *)
(* the store had the block, the handler's unwrap of get's result holds.    *)
(***************************************************************************)
GetNeverAbsent ==
  \A c \in Calls : req[c].kind = "get" => outcome[c] # "absent"

(***************************************************************************)
(* A sync query that completes with success has brought the whole DAG:     *)
(* every block under its root is in the store before its event is handled, *)
(* although blocks arrive in any order, through several queries at once.   *)
(***************************************************************************)
SyncBringsWholeDag ==
  \A e \in Range(events) :
     e.found /\ req[e.id].kind = "sync" => Reach(Links, req[e.id].cid) \subseteq store

(***************************************************************************)
(* What a sync query still has to do covers what is missing: a block of    *)
(* its DAG is stored or lies under a block it is asking for or looking     *)
(* under.                                                                  *)
(***************************************************************************)
SyncCovers ==
  \A q \in active :
     req[q].kind = "sync" =>
       \A d \in Reach(Links, req[q].cid) :
          d \in store \/ \E m \in missing[q] \cup lookup[q] : d \in Reach(Links, m)

(***************************************************************************)
(* The answer does not overtake the insert: when the loop is about to      *)
(* handle a completion that found its block, every sender registered for   *)
(* that cid is answered Ok, also while the block is still on its way to    *)
(* the database thread; only the end of the loop may come before.          *)
(***************************************************************************)
FoundIsGranted ==
  \A c \in Calls :
     (/\ events # <<>> /\ Head(events).found
      /\ req[Head(events).id].cid = req[c].cid /\ Registered(c))
       ~> answer[c] \in {"ok", "canceled"}

(***************************************************************************)
(* Every call returns.  The one exception is a call whose command was      *)
(* still in the channel when the loop ended: nobody drops that sender, and *)
(* the call waits for ever.                                                *)
(***************************************************************************)
CallsReturn ==
  \A c \in Calls :
     pc[c] = "send" ~> \/ pc[c] = "done"
                       \/ mode = "stopped" /\ Queued(c)

(***************************************************************************)
(* The node implements BlockService: a call is granted when its oneshot    *)
(* gets Ok (or when its first look at the store finds the block), and      *)
(* served when it has read the store.                                      *)
(***************************************************************************)
StatusOf(c) ==
  CASE pc[c] = "done" /\ outcome[c] = "ok" -> "served"
    [] pc[c] = "done" /\ outcome[c] = "absent" -> "broken"
    [] pc[c] = "done" /\ outcome[c] \notin {"ok", "absent"} -> "refused"
    [] pc[c] = "read" \/ (pc[c] = "wait" /\ answer[c] = "ok") -> "granted"
    [] pc[c] = "wait" /\ answer[c] \in {"err", "canceled"} -> "refused"
    [] OTHER -> "asked"

Abstract == INSTANCE BlockService WITH stored <- store,
                                       status <- [c \in Calls |-> StatusOf(c)]

Implements == Abstract!Spec

-----------------------------------------------------------------------------
(***************************************************************************)
(* What test_bitswap_sync asserts (ursa-network/src/service.rs): after the *)
(* sender of a sync is answered Ok, every block of the DAG is in the       *)
(* store.  The code does NOT guarantee it: see the run sync_ok.            *)
(***************************************************************************)
SyncOkMeansDag ==
  \A c \in Calls : req[c].kind = "sync" /\ answer[c] = "ok"
                     => Reach(Links, req[c].cid) \subseteq store

=============================================================================
