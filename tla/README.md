# A verification project for Ursa

Ursa is a content-addressed storage node: it stores blocks, fetches the ones it
lacks from other nodes over bitswap, and advertises what it holds to an indexer.
This directory holds TLA+ models of its core, TLC configurations that check them
on small instances, and TLAPS proofs that hold for every value of the constants.
Paths below are relative to `src/crates/`.

## 1. Inventory

| Component | State | Operations | What makes it correct |
|---|---|---|---|
| Block store (`ursa-store/src/store.rs`) | the database of blocks | `contains`, `get`, `insert`, `missing_blocks`, `dag_traversal` | the two walks return exactly the DAG / exactly what is absent, while other threads insert |
| Fetch path (`ursa-rpc-server/src/api.rs`, `ursa-network/src/service.rs`, `behaviour.rs`) | command channel, `response_channels`, `queries`, `events` | `get`, `get_data`, `stream`, `get_file`; `GetBitswap`; `handle_bitswap`; the `Bitswap` handler with its busy wait | no caller forgotten or answered twice, Ok means stored, the busy wait ends |
| Bitswap engine (external crate) | queries, requests in flight, a database thread | get and sync queries | used as its interface promises |
| Discovery (`ursa-network/src/discovery.rs`, `behaviour.rs`, `ursa-metrics`) | `peers`, two event queues, the gauges, known addresses, explicit peers | connection established / closed, identify, mDNS, relay reservations and circuits, `poll` | peer set, Kademlia, gauges and subscriber agree; a peer that was met is met again |
| Index provider (`ursa-index-provider`) | `head`, `root_cids`, `temp_ads`, its database | `create`, `add_chunk`, `publish`, `GET /head`, `GET /:cid`, announce | every queued root advertised with all its blocks, in one chain |
| Request/response (`behaviour.rs`, `codec/protocol.rs`) | `pending_responses` | `send_request`, responses, failures, `SendResponse` | every sender used or dropped once |
| Gossip (`gossipsub.rs`, `behaviour.rs`, `service.rs`) | the duplicate cache, the event queue | `publish`, arrival, the loop's handler | shown to every connected subscriber, once |
| Identity (`ursa/src/ursa/identity.rs`) | a PEM file | `save`, `load`, `load_or_new` | a node keeps its identity across crashes and restarts |
| Servers (`ursa-rpc-server`), client (`ursa-rpc-client`), CLI (`ursa/src/ursa/rpc_commands.rs`) | per call: handler, writer task, channel, pipe, file | `put_file`, `get_file`, `get_cid`, upload and stream routes, `call` | success is reported only for what was done; every call and every writer ends |
| NAT | the status autonat reports | `HandleNat` (in the publishing model) | a queued root is not stranded |
| Metrics, gateway, transport | counters, none, none | pure I/O and configuration | - |

How they interact. RPC and HTTP handlers run as tasks; each talks to the network
loop through an unbounded command channel and awaits a oneshot receiver. The
loop (`UrsaService::start`) is one task that `select!`s between that channel and
the swarm; the swarm, and so the bitswap engine, discovery and the behaviour's
queue of events, is polled only by that task. Blocks are written by the
engine's database thread and by uploads in other tasks; all read the same
database. The index provider's HTTP server is another task, sharing `head` with
the loop under a lock.

What is hard here: several queries and callers for one cid share one table
entry; the loop busy-waits for another thread; every read of the store may be
stale one await later; events pass two queues; the loop ends on one handler's
error; the head is taken out and put back across awaits; memory is lost on
restart. `PROJECT.json` lists these hazards with their lines and properties.

## 2. Modules

| Module | Models |
|---|---|
| `Dag` | links, and the reference results of the two walks, as least closed sets |
| `StoreWalk` | what the two walks share: a root, a store that others write to, and the blocks that cannot be decoded |
| `DagTraversal`, `MCDagTraversal` | `dag_traversal`, one iteration per step, with concurrent inserts |
| `MissingBlocks`, `MCMissingBlocks` | `missing_blocks`, likewise, with ordered and repeated links |
| `BitswapFetch`, `MCBitswapFetch` | the fetch path, composed from tasks, loop, engine, database thread and store |
| `BlockService` | what the fetch path promises a caller (abstract specification) |
| `ServerCalls` | a call from outside, end to end: client, server, handler, writer task, pipe, file |
| `Discovery` | connections, peer set, both event queues, gauges, subscriber, identify and redialling, the relay server |
| `Gossip`, `MCGossip` | gossip among several nodes, with the duplicate cache and lost connections |
| `ReqResp` | requests to a peer, `pending_responses`, the peer's queue, event channel and loop |
| `AdPublish`, `MCAdPublish` | uploads, NAT status, publishing, the head, the indexer, restarts |
| `Identity` | the key file, its load and its save, crashes and power losses |
| `Facts` | lemmas about sequences, counting and reachability that the proofs share |
| `StoreWalkProofs` | proofs about `DagTraversal` and `MissingBlocks` |
| `BitswapFetchProofs` | proofs about `BitswapFetch`, and that it implements `BlockService` |
| `ServerCallsProofs`, `DiscoveryProofs`, `AdPublishProofs`, `IdentityProofs` | proofs about the module of that name |
| `ProtocolProofs` | proofs about `ReqResp` and `Gossip` |

`MissingBlocks` and `Gossip` name their specifications `MissingSpec` and `GossipSpec`,
so that one module of proofs can extend the two walks, another the two protocols.

### BitswapFetch

A *call* is one invocation of `get` (kind `get`) or `get_data` (kind `sync`; it is
also what `stream` and `get_file` do first; what they do next is in `ServerCalls`). `CallCheck`, `CallSend`,
`CallResume`, `CallRead` are the stretches of its code between two awaits. Since a
`GetBitswap` command starts exactly one query, a query is named by its call.
`TakeCommand` is the `GetBitswap` handler; `Complete` is `handle_bitswap`;
`TakeEvent`, `SpinEnds` and `AnswerOne` are the three parts of the `Bitswap`
handler, split because the database thread and uploads run between them, while
the swarm and the command channel do not (`mode = "idle"` guards them).
`LoopEnds` is the return of `start()` that `dag_traversal(..)?` in `StartPublish`
causes: the service and the senders it holds are dropped, commands in the channel
stay there. `response_channels` holds sets instead of vectors: the order in
which the senders of one completion are answered is left open. The engine
actions (`GetBlock`, `SyncBlock`, `SyncDone`, `QueryFails`) are external: a get
query asks for one block, a sync query for the root and then for whatever
`missing_blocks` reports under each received block; inserts are handed to the
database thread and a `missing_blocks` call for a block comes after its insert.
Which peers have which block is left open. `missing_blocks` is one step, with
the reference result `MissingIn` that run `missing_blocks` ties to its loop.

### DagTraversal and MissingBlocks

One step per loop iteration, inserts between any two. The hash set that
`dag_traversal` iterates has no order, so its next element is any element; the
stack of `missing_blocks` is a sequence. Every way out is kept. `dag_traversal` fails
on a missing block (`Fail`, `store.rs:98`), on a block that is stored and cannot be
opened (`Spoil`: the `unwrap` of `Block::new` at `:94`, the `?` of `references` at
`:95`) and on a failing read (`Unread`, the `?` at `:91`); `missing_blocks` fails on a
block that does not decode (`Spoilt`, `:60`) and on a failing read (`ReadFails`, the
`unwrap` at `:41`). Which blocks cannot be decoded is a property of their bytes and
chosen once (`bad`, from `BadSets`). So a walk may fail with no block missing;
`FailsForItsReason` says that the reason it gives is true, and that on a complete DAG
of good blocks only a failing read makes it fail.

### ServerCalls

Two calls of any method or route, for the CAR of one DAG and, for `get_file`, one
path. `Call`, `Receive`, `ReadBody`, `GiveUp` are the client (`call` with its
unwraps, and other HTTP clients); `Refuse` and `Accept` are `MultiplexService`, the
router and the handlers' checks; `Load`, `SendIndex`, `Indexed` are `put_car`;
`Look`, `Fetched`, `FetchFails`, `Walk` are `get` and `get_data`; `SendBlock` and
`DropTx` are the loop of `stream` and `get_file` over the blocks; `Join`, `Create`,
`Write`, `WriteFails`, `LastWriteLost`, `Written` are the end of `get_file`; `WriterStep`,
`WriterFails`, `WriterEnds` are the spawned `write_stream_async`. The fetch itself
is what `BitswapFetch` proves of it; `FetchFails` is also a stored block that cannot be
read or opened. A CAR is counted in items, the header and one
per block, so the channel, the pipe, the buffer and the file are counters. An
answer is `ok`, `fail` (an error status) or `reset` (a panic of the handler, seen as
a closed connection). `Abort` is a handler dropped with its connection; `LoopEnds`
and `NodeStops` are the failures around it.

With only the root stored, `get_data` never asks the network (`api.rs:114`) and
`stream` and `get_file` panic on the failing walk (`Look`, then `Walk`); that such
a call is not answered with success is part of `OkIsDone`.

`get_file` drops its file without a flush, so the error of a write still outstanding
then is ignored and the call answered with success (`LastWriteLost`, `api.rs:199-200`;
the CLI prints "file stored at"). `StoredIsWhole` states this as its exception: in that
case the last part of the CAR may be missing, and nothing else; the history variable
`lost` marks the calls to which it happened.

### Discovery

Connections are counted per peer. The set changes on the first connection and on
the first close, as the code does, and Kademlia is called only then, with the
counts libp2p passes. `Forward` is discovery's `poll` and `handle_discovery`,
`Handle` the behaviour's `poll` and the loop's handlers; `Track` says which gauge an
event moves. The relay server's events (`Reserve`, `ReservationTimedOut`,
`CircuitReqAccepted`, `CircuitClosed`) enter the behaviour's queue beside
discovery's; a reservation that ends with its connection is reported by nobody
(`DropReservation`), and `RelayGauges` says that this, and nothing else, is how far
the gauge is off. `Identify` makes a peer that speaks the node's Kademlia protocol
an explicit peer of gossipsub and keeps its addresses, if it reports any; `Redial` is
gossipsub's dialling of such a peer, with the addresses discovery knows, every
`check_explicit_peers_ticks` heartbeats. `MeetAgain` is about the peers of which an
address is known, from identify, mDNS or the configuration; `NewsArrives` is about
both kinds of news, connected and disconnected. Dial failures are not
passed on to Kademlia by `DiscoveryBehaviour`, so a known address stays known.

### Gossip

`Publish` is the `GossipsubMessage` command (`Flood`: `flood_publish` is set and the
data is the message's identity); `Receive` is gossipsub's check of its cache and
`handle_gossipsub`; `Handle` is the loop's handler, which drops a message whose
sender has disconnected. `Heartbeat` (IHAVE / IWANT) offers only a node's own
messages: received ones are never validated by the application
(`validate_messages` is set and `report_message_validation_result` never called),
so they are neither forwarded nor offered: a message goes one hop, although
`behaviour.rs:160` has gossip "for message propagation". No property is about this;
the model simply has no forwarding step. Mesh, scores and topics other than the
global one are left out. A consequence that `PublishedIsShown` states as an
exception: the copy dropped because its sender has left still counts as seen, so
that a second copy from a peer that is connected is refused as a duplicate.

### ReqResp

One asking node and one peer. `TakeRequest` is the `SendRequest` handler with
`send_request`; `Response`, `OutboundFailure` and `Arrive` are the arms of
`handle_request_response`; `Forward` is the peer's `RequestMessage` handler and
`SendResponse` its `todo!()`, which ends the peer's loop.
libp2p-request-response is external: it ends each request once, by a response or
by a failure, its 60 s timeout included. No node of this code ever replies
(`SendResponse` is `todo!()`), so `Reply` stands for other implementations. Of the
codec the model keeps what its outcomes do: an empty or too long response is an
`OutboundFailure`; one that does not parse makes `read_response` panic in the task
of the connection, and the requests on it are lost without a report
(`Unparsable`). A caller may drop its receiver at any time.

### AdPublish

`Load` and `Send` are `put_car`; `IndexCommand`, `HandleNat`, `StartPublish` are
handlers of the loop; `TakeRoot`, `WalkDag`, `AddChunk`, `TakeHead`, `Publish`,
`Announce` are the stretches of the `StartPublish` handler between awaits, where
the HTTP server runs. The head is 0 for `None`, else the position of the
advertisement in the database. An advertisement keeps its root, the number of
its entries and its predecessor. A root is whole or not for good: blocks of other
uploads do not complete it. Signatures, encoding and announcement transport are left
out; an announcement that fails is only logged, so it always ends. `Restart`
may come at any step. Where `Faults` is set, the database or an encoding may fail at
any step: `BuildFails` is the loop's end by `dag_traversal(..)?`, `to_vec(..)?` or the
`expect` on `add_chunk`; `PublishFails` is an error of `sign`, `to_ipld` or `put_obj`
(`provider.rs:202-205`), after `head.take()`: the head stays `None`, the loop panics
(`service.rs:449`), and the HTTP server goes on answering that there is no head until
the node restarts. `ChainIsWhole` and `HeadNeverGoesBack` name this as their
exception; run `put_provides` excludes such failures, so that its counterexample needs
none. The address an advertisement carries is left out: it is the
one of the moment `StartPublish` was queued (`service.rs:395`), so a root queued
after the address changed may be advertised at the old one.

### Identity

`Start` and `StartRandom` are main's choice; `LoadOk`, `LoadFails` and `ReadFails`
are the ways `load` returns in `load_or_new`; `Truncate`, `Write`, `Sync` and
`Restrict` are the steps of `save`. `file` is what a process reads, `disk` what a
power loss leaves; syncing a file is taken to make its name durable too, as Linux
file systems do. `Stop` is every end of a process, panics included: a process
that loads a torn file, which makes `pem::parse(..).unwrap()` panic
(`identity.rs:85`), ends there whenever the read succeeds, until the operator
removes the file. `ReadFails` shows the other edge: any error of `load` makes
`load_or_new` overwrite the file, although its comment says "if not found"
(`identity.rs:179`).

## 3. Runs

| Run | Shows | Bounds |
|---|---|---|
| `dag_traversal` | worklist invariant, Ok means exactly the DAG, no block twice, failure only for the reason given, termination | all DAGs of 4 blocks (a diamond needs 4), all roots and stores, no block or one undecodable |
| `missing_blocks` | nothing overlooked, exact without inserts, termination | all DAGs of 4 blocks, at most 2 ordered links each, no block or the last one undecodable |
| `fetch` | no orphan waiter, one home per sender, finite busy wait, sound grants, a found block is granted, a successful sync has the whole DAG, refinement of `BlockService`, every call returns | 2 calls of either kind, a chain of 3 blocks (so that looking one level down is not enough), 1 peer |
| `server_calls` | success means done, a file reported stored is whole but for an ignored last write, every call and every writer ends | 2 calls of any kind, a DAG of 2 blocks (3 items), a pipe of 1 item, so that it fills before the body is read |
| `discovery` | peer set, Kademlia, gauges, all news to the subscriber, meeting a lost peer of known address again | 2 peers (one of the network, one bootstrap node and relay client), 2 connections each, queues of 2, 1 circuit, 1 reservation lost with its connection |
| `gossip` | once a minute, published is shown | 3 nodes in a line (the middle one hears the same data from two peers), 1 message data, 2 lost connections, 1 forgotten cache entry per node |
| `req_resp` | `pending_responses` exact, no sender lost, every caller gets an outcome | 3 requests |
| `ad_publish` | no stranded root, whole chain, whole advertisements, monotone head, with failures at every step, every queued root advertised | 3 uploads with DAGs of 3, 4 and 1 blocks, chunks of 2 entries (a remainder, an exact multiple, less than one), 2 NAT changes, 1 restart |
| `identity` | a restarted node has the identity it had; an identity it made is on disk | 3 key pairs: one kept, one random or given up, one more |

Two calls suffice for one to complete while another waits for the same cid, or
joins the entry of the first meanwhile, and for two writers of one file; the proofs
of section 5 do not bound them. Two connections suffice for one to close while
another remains. One data is enough for gossip because messages with different
data never meet in the cache. In `fetch` one peer suffices because only "none" or
"some" matters. `CHECK_DEADLOCK FALSE` is used where the system may rest: every
call has returned, the walk is over, all uploads are done, all messages are
delivered. `discovery` never rests.

Three runs record a disagreement between the code and what its tests or texts say:

* `sync_ok`: a sync is answered Ok with part of the DAG missing. Senders are
  answered by `contains(root)` (`service.rs:283`), also after a failed sync;
  `test_bitswap_sync` asserts that after Ok all cids are there
  (`service.rs:1034-1039`).
* `still_connected`: a peer with two connections leaves the set documented as
  "Connected peers." when one of them closes (`discovery.rs:219`, `:54`).
* `put_provides`: one incomplete upload ends the loop (`service.rs:440`), and
  uploads already answered Ok are not advertised, although `put_car` is to
  "start providing to the network" (`api.rs:71`).

## 4. Fairness

Weak fairness of: each step of a call after its first (a task is scheduled; no
call need ever be made); taking commands and taking events separately (`select!`
chooses at random among ready branches); the rest of a handler (it waits for
nothing but the database); the engine's queries (each of its requests times
out); the database thread; writer tasks, and a client that reads what it is sent
(`ServerCalls`, where calls take finitely many steps, so that one condition covers
all); a connection that stays up delivers (`Gossip`). Strong fairness is used in
`Discovery` only: of `Forward`, because the bound on the queue, which the code does
not have, may disable it again and again; and of `Redial`, because gossipsub dials
explicit peers again and again (every `check_explicit_peers_ticks` heartbeats) and
`MeetAgain` is about a peer that can be reached. Other connections, peers, uploads, NAT changes, restarts and
the indexer owe nothing. The walks are loops without waits. Without fairness of
the database thread the busy wait would not end, and `SpinIsFinite` is the safety
half of that argument. That fairness assumes that the thread lives: a write or a read
that fails panics in it (`store.rs:48`, `:41`), after which a loop that waits for a
block of its queue (`service.rs:280`) waits for ever. `BitswapFetch` does not model
such a failing database, nor blocks that do not decode.

## 5. Proofs

Every safety property that a passing run checks is also a theorem, for every value
of the constants. The assumptions are the named ones of the modules: links are a
graph over the cids (lists of cids in `MissingBlocks`), uploads are cids, a root has
a size above 0, a chunk holds at least one entry, the DAG of a CAR is finite, bounds
are natural numbers, and the words that stand for "none" (`NoCid`, `NoKey`,
`NoCall`) name nothing else. Neither finiteness nor acyclicity of the graph is used
for the walks or the fetch path. What each argument rests on:

* `Facts`: `Reach` is the least closed set, so it contains its root, is transitive,
  and a walk limited to the store either stays inside it (`PresentMeansWhole`) or
  meets a missing block; it is its root and what its links reach (`ReachSplit`).
  Defining it as an intersection avoids induction over paths. Occurrences in a queue
  are counted by their positions (`CountAppend`, `CountTail`), which avoids induction
  over sequences.
* `StoreWalkProofs`, `dag_traversal`: `WorklistInv` and `NoBlockTwice` are inductive
  with the types; with an empty worklist the first makes the expanded set closed,
  hence equal to `Reach` (`OkIsWholeDag`); `FailureIsReal` is the action property: what
the walk looks at is reachable from the root.
  `missing_blocks`: `NothingOverlooked` is kept because what lies under the top of the
  stack lies under what replaces it; on a quiet store, what is absent is reported or
  under the stack, and nothing else is (`QuietInv`). `WalkIsExact` is what allows `BitswapFetch` to take `MissingIn` for
  the loop.
* `BitswapFetchProofs`: the inductive invariant is the conjunction of `TypeOK`,
  `LoopInv`, the five invariants of the run, `GetNeverAbsent` and `SyncCovers`. None
  is inductive alone: an answer is sound because a sender is answered under its own
  cid (`OneHome`) and a found block was handed to the thread (`GrantedIsStored`); a
  sender is in one place because a command is queued once (`LoopInv`); a sync that
  ends has the whole DAG because what it asks for always covered what was missing
  (`SyncCovers`). `FetchImplements` is the refinement of `BlockService`: the status of
  a call is read off its `pc`, `answer` and `outcome`, and each action is a `Grant`,
  `Refuse`, `Serve`, `Break`, `Store` or `RefuseMany` step, or a stutter.
* `ServerCallsProofs`: per call, where a handler of each kind can be (`Places`), what
  the writer owes to it (`WriterInv`: the channel is open until the last block is
  sent, an open channel keeps the writer from ending, a writer dies only with the
  node or its reader) and what success means there (`DoneInv`); and `FileInv`, that
  the call which truncated the file last has written a prefix of the CAR at least,
  up to the part it has lost.
  Other calls only add blocks and roots, so a step disturbs one call
  (`OthersKeep`) and, for `Create` and `Write`, the file.
* `DiscoveryProofs`: peer set and Kademlia agree with the connections
  (`Connections`); the gauges are conserved because every event is counted once,
  in a queue or by the gauge. That the subscriber is shown news only
  (`NewsIsNews`) needs `CatchesUp`: the events of the two queues, one after the
  other, lead from what the subscriber holds for connected to the set of peers, and
  each is news when its turn comes. `Leads` says so with a function from positions
  to sets of peers instead of a recursion over the queue.
* `AdPublishProofs`: what the loop knows of the root in hand (`DraftInv`: a chunk
  never goes past the size of the DAG, and is published only at it), and who holds the
  newest advertisement (`HeadInv`: the provider, or `publish` while the head is
  taken out, or nobody once a failed `publish` has ended the loop, and the indexer has
  seen no later one). `HeadGoesForward` is the action
  property that follows.
* `ProtocolProofs`: `PendingIsOutstanding` and `SenderIsKept` are inductive with
  `Bookkeeping` (a queued command is queued once and unknown to libp2p), without
  which taking a command could register a sender twice. For gossip, for each
  node and data, what was shown and what is still queued is at most one for each
  stay in the cache, the present one included (`CopiesInv`).
* `IdentityProofs`: the file keeps an identity because a save starts only when there
  is none to keep (`KeptIsInFile`); what is announced is durable because the steps of
  `save` come in order (`SavedInOrder`). The keys are assumed to differ from the words
  for the other contents of the file.

Only model-checked: the liveness properties (`Terminates`, `WalkEnds`,
`CallsReturn`, `FoundIsGranted`, `CallsEnd`, `WritersEnd`, `NewsArrives`, `MeetAgain`,
`PublishedIsShown`, `RequestsEnd`, `QueuedIsAdvertised`), which need fairness and
ENABLED, out of the reach of these provers.

## 6. Not modelled

* Transport (`transport.rs`): the configuration of libp2p's transports, no state.
* Gateway: a TLS server without routes yet.
* Counters and histograms: written, never read. (`RpcRequestReceived` counts under
  the name of the gauge of connected peers.) The middleware that times requests.
* The relay client, hole punching and ping: their events are only logged.
* The protocols of Kademlia, mDNS, gossipsub's mesh, autonat and bitswap: external,
  modelled as far as the code relies on them.
* Bytes: the text of PEM files, the JSON of requests, CAR encoding, the encoding,
  keys and signatures of advertisements, addresses, the mode of key files.
* Loading of the configuration, opening of the databases: straight-line code.
* Only the first root of a CAR file with several is queued for advertising
  (`service.rs:513`); the models have one root per file.

## 7. Plan

1. The safety halves of the liveness properties as theorems: what a waiting call,
   writer or request waits for is always there (as `NoOrphanWaiter` and
   `SpinIsFinite` say for the fetch path), for `ServerCalls` and `Gossip`.
2. Refinement: a server call as a client of `BlockService`, so that the fetch that
   `ServerCalls` assumes is the one `BitswapFetch` provides.
3. A composition of the loop: fetch and publish in one task, so that `LoopEnds`
   becomes the consequence of `AdPublish`'s `WalkDag` and a slow announcement
   delays fetches.
