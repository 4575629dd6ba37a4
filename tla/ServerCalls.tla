---------------------------- MODULE ServerCalls ----------------------------
(***************************************************************************)
(* A call of the node from outside, end to end: the CLI and the RPC client *)
(* (ursa/src/ursa/rpc_commands.rs, ursa-rpc-client), the server that tells *)
(* RPC from HTTP by the content type (ursa-rpc-server/src/service.rs), the *)
(* handlers, and get, get_data, stream, get_file and put_car of api.rs.    *)
(* get_file and stream each spawn a task that writes a CAR: the header and *)
(* then the blocks it receives from an unbounded channel; get_file writes  *)
(* to a buffer and then to a file, stream to a pipe of 100 KB that the     *)
(* client reads.                                                           *)
(*                                                                         *)
(* A CAR is a number of items, the header and the blocks of the DAG in the *)
(* order of the walk, so channel, pipe, buffer and file are counters.  The *)
(* fetch of blocks is BitswapFetch, here only what it promises.            *)
(***************************************************************************)
EXTENDS Naturals, FiniteSets

CONSTANTS
  Calls,      \* the calls
  Blocks,     \* the blocks of the DAG that the calls are about
  Root,       \* its root
  PipeItems   \* how many items the pipe of `stream` holds

ASSUME RootAssumption == Root \in Blocks /\ IsFiniteSet(Blocks)
ASSUME PipeItemsAssumption == PipeItems \in Nat \ {0}

Items == Cardinality(Blocks) + 1
NoCall == "no call"

ASSUME NoCallAssumption == NoCall \notin Calls

\* The methods of the RPC server, and the routes of the HTTP server.
Rpc == {"put_file", "get_file", "get_cid"}
Http == {"upload", "stream"}
Puts == {"put_file", "upload"}
Cars == {"get_file", "stream"}

\* "bad": a cid that does not parse, another content type, no file, parameters
\* that are refused.  "odd": an RPC request without an id (another client than
\* `call` made it), or an upload whose form cannot be read.
Request == [kind : Rpc \cup Http, form : {"good", "bad", "odd"}]

VARIABLES
  client,   \* what the caller knows
  req,      \* the request
  srv,      \* where the handler is
  writer,   \* the spawned writer task
  open,     \* whether the channel to it has a sender
  sent,     \* the blocks sent to it
  written,  \* the items it has written, to the buffer or the pipe
  got,      \* the items taken from there, by the client or into the file
  file,     \* the items in the file of get_file
  opener,   \* the call that truncated the file last
  lost,     \* the calls whose last write failed unnoticed (history)
  up,       \* whether the server runs
  loop,     \* the network loop
  store,    \* the blocks in the store
  queued    \* the puts whose root the network loop has queued

vars == <<client, req, srv, writer, open, sent, written, got, file, opener, lost, up,
          loop, store, queued>>
car == <<writer, open, sent, written, got>>
disk == <<file, opener, lost>>
node == <<up, loop, store, queued>>

TypeOK ==
  /\ client \in [Calls -> {"idle", "waiting", "ok", "err", "panic", "gone"}]
  /\ req \in [Calls -> Request]
  /\ srv \in [Calls -> {"none", "load", "index", "indexing", "look", "asked", "walk", "send",
                        "join", "create", "write", "body", "ok", "fail", "reset"}]
  /\ writer \in [Calls -> {"none", "run", "done", "dead"}]
  /\ open \in [Calls -> BOOLEAN]
  /\ sent \in [Calls -> 0 .. Items - 1]
  /\ written \in [Calls -> 0 .. Items]
  /\ got \in [Calls -> 0 .. Items]
  /\ file \in SUBSET (1 .. Items)
  /\ opener \in Calls \cup {NoCall}
  /\ lost \in SUBSET Calls
  /\ up \in BOOLEAN
  /\ loop \in {"running", "stopped"}
  /\ store \in SUBSET Blocks
  /\ queued \in SUBSET Calls

Init ==
  /\ client = [c \in Calls |-> "idle"]
  /\ req = [c \in Calls |-> [kind |-> "get_cid", form |-> "good"]]
  /\ srv = [c \in Calls |-> "none"]
  /\ writer = [c \in Calls |-> "none"]
  /\ open = [c \in Calls |-> FALSE]
  /\ sent = [c \in Calls |-> 0]
  /\ written = [c \in Calls |-> 0]
  /\ got = [c \in Calls |-> 0]
  /\ file = {}
  /\ opener = NoCall
  /\ lost = {}
  /\ up = TRUE
  /\ loop = "running"
  /\ store = {}
  /\ queued = {}

Over(c) == srv[c] \in {"ok", "fail", "reset"}
Kind(c) == req[c].kind

-----------------------------------------------------------------------------
(***************************************************************************)
(* The client.                                                             *)
(***************************************************************************)
\* The request is sent.  No connection: `call` unwraps, other clients fail.
Call(c, r) ==
  /\ client[c] = "idle"
  /\ ~(r.kind = "stream" /\ r.form = "odd")
  /\ req' = [req EXCEPT ![c] = r]
  /\ client' = [client EXCEPT ![c] = IF up THEN "waiting"
                                     ELSE IF r.kind \in Rpc THEN "panic" ELSE "err"]
  /\ UNCHANGED <<srv, car, disk, node>>

\* `call`: 200 with a result is Ok, another status Err; a connection closed by
\* a panic of the handler is an error, that `call` unwraps.
Receive(c) ==
  /\ client[c] = "waiting"
  /\ Over(c)
  /\ client' = [client EXCEPT ![c] = CASE srv[c] = "ok" -> "ok"
                                       [] srv[c] = "reset" /\ Kind(c) \in Rpc -> "panic"
                                       [] OTHER -> "err"]
  /\ UNCHANGED <<req, srv, car, disk, node>>

\* The client of `stream` reads what is in the pipe.
ReadBody(c) ==
  /\ client[c] = "waiting"
  /\ srv[c] = "body"
  /\ got[c] < written[c]
  /\ got' = [got EXCEPT ![c] = @ + 1]
  /\ UNCHANGED <<client, req, srv, writer, open, sent, written, disk, node>>

\* The pipe is empty and its writer gone: the end of the body.
EndOfBody(c) ==
  /\ srv[c] = "body"
  /\ got[c] = written[c]
  /\ writer[c] \in {"done", "dead"}
  /\ srv' = [srv EXCEPT ![c] = "ok"]
  /\ UNCHANGED <<client, req, car, disk, node>>

\* The client is stopped, or its timeout passes.
GiveUp(c) ==
  /\ client[c] = "waiting"
  /\ client' = [client EXCEPT ![c] = "gone"]
  /\ UNCHANGED <<req, srv, car, disk, node>>

-----------------------------------------------------------------------------
(***************************************************************************)
(* The server.  A handler that panics, and one that is dropped because its *)
(* connection is closed, drops the sender of the channel, the body and the *)
(* open file with it.                                                      *)
(***************************************************************************)
Goto(c, place) == srv' = [srv EXCEPT ![c] = place]

Reset(c) == Goto(c, "reset") /\ open' = [open EXCEPT ![c] = FALSE]

\* rpc_handler has an answer only for a request with an id (`todo!()`).
Answer(c, status) ==
  Goto(c, IF Kind(c) \in Rpc /\ req[c].form = "odd" THEN "reset" ELSE status)

\* The connection is gone: the handler is dropped where it waits.
Abort(c) ==
  /\ up
  /\ client[c] = "gone"
  /\ ~Over(c)
  /\ Reset(c)
  /\ UNCHANGED <<client, req, writer, sent, written, got, disk, node>>

\* MultiplexService, the router and the handler refuse the request; a form
\* that cannot be read is unwrapped.
Refuse(c) ==
  /\ up
  /\ client[c] # "idle"
  /\ srv[c] = "none"
  /\ \/ req[c].form = "bad" /\ Goto(c, "fail")
     \/ req[c].form = "odd" /\ Kind(c) = "upload" /\ Goto(c, "reset")
  /\ UNCHANGED <<client, req, car, disk, node>>

\* The handler starts; get_file and stream spawn their writer.
Accept(c) ==
  /\ up
  /\ client[c] # "idle"
  /\ srv[c] = "none"
  /\ req[c].form = "good" \/ (req[c].form = "odd" /\ Kind(c) \in Rpc)
  /\ Goto(c, IF Kind(c) \in Puts THEN "load" ELSE "look")
  /\ writer' = [writer EXCEPT ![c] = IF Kind(c) \in Cars THEN "run" ELSE @]
  /\ open' = [open EXCEPT ![c] = Kind(c) \in Cars]
  /\ UNCHANGED <<client, req, sent, written, got, disk, node>>

\* put_car: the blocks of the file, a part of the DAG perhaps, are stored.
Load(c, S) ==
  /\ srv[c] = "load"
  /\ store' = store \cup S
  /\ Goto(c, "index")
  /\ UNCHANGED <<client, req, car, disk, up, loop, queued>>

\* The file cannot be opened, or is not a CAR from some block on.
LoadFails(c, S) ==
  /\ srv[c] = "load"
  /\ store' = store \cup S
  /\ Answer(c, "fail")
  /\ UNCHANGED <<client, req, car, disk, up, loop, queued>>

\* The Index command; the channel is closed once the loop has ended.
SendIndex(c) ==
  /\ srv[c] = "index"
  /\ IF loop = "running" THEN Goto(c, "indexing") ELSE Answer(c, "fail")
  /\ UNCHANGED <<client, req, car, disk, node>>

\* The loop queues the root and answers.
Indexed(c) ==
  /\ srv[c] = "indexing"
  /\ loop = "running"
  /\ queued' = queued \cup {c}
  /\ Answer(c, "ok")
  /\ UNCHANGED <<client, req, car, disk, up, loop, store>>

\* get and get_data: a root that is not in the store is asked for.
Look(c) ==
  /\ srv[c] = "look"
  /\ \/ Root \in store /\ Goto(c, "walk") /\ UNCHANGED open
     \/ Root \notin store /\ loop = "running" /\ Goto(c, "asked") /\ UNCHANGED open
     \/ /\ Root \notin store /\ loop = "stopped"
        /\ IF Kind(c) = "get_cid" THEN Answer(c, "fail") /\ UNCHANGED open ELSE Reset(c)
  /\ UNCHANGED <<client, req, writer, sent, written, got, disk, node>>

\* The fetch ends: a get brings the block, a sync at least the root.
Fetched(c, S) ==
  /\ srv[c] = "asked"
  /\ loop = "running"
  /\ Root \in S
  /\ Kind(c) = "get_cid" => S = {Root}
  /\ store' = store \cup S
  /\ Goto(c, "walk")
  /\ UNCHANGED <<client, req, car, disk, up, loop, queued>>

\* The fetch fails, or the sender is dropped with the loop, or a block that is
\* stored cannot be read or opened: `get` returns the error, stream and
\* get_file unwrap it.
FetchFails(c) ==
  /\ srv[c] \in {"asked", "walk"}
  /\ IF Kind(c) = "get_cid" THEN Answer(c, "fail") /\ UNCHANGED open ELSE Reset(c)
  /\ UNCHANGED <<client, req, writer, sent, written, got, disk, node>>

\* stream and get_file take a failing walk for an empty DAG.
WalkLenient(c) ==
  /\ srv[c] = "walk"
  /\ \/ Kind(c) = "get_cid" /\ Answer(c, "ok") /\ UNCHANGED open
     \/ Kind(c) \in Cars /\ Blocks \subseteq store /\ Goto(c, "send") /\ UNCHANGED open
     \/ /\ Kind(c) \in Cars /\ ~(Blocks \subseteq store)
        /\ Goto(c, IF Kind(c) = "stream" THEN "body" ELSE "join")
        /\ open' = [open EXCEPT ![c] = FALSE]
  /\ UNCHANGED <<client, req, writer, sent, written, got, disk, node>>

\* get reads the block; dag_traversal finds the whole DAG or fails, and stream
\* and get_file unwrap it.
Walk(c) ==
  /\ srv[c] = "walk"
  /\ \/ Kind(c) = "get_cid" /\ Answer(c, "ok") /\ UNCHANGED open
     \/ Kind(c) \in Cars /\ Blocks \subseteq store /\ Goto(c, "send") /\ UNCHANGED open
     \/ Kind(c) \in Cars /\ ~(Blocks \subseteq store) /\ Reset(c)
  /\ UNCHANGED <<client, req, writer, sent, written, got, disk, node>>

\* The channel has room for one block.
SendBlockBounded(c) ==
  /\ srv[c] = "send"
  /\ sent[c] < Items - 1
  /\ sent[c] + 1 <= IF written[c] = 0 THEN 1 ELSE written[c]
  /\ sent' = [sent EXCEPT ![c] = @ + 1]
  /\ UNCHANGED <<client, req, srv, writer, open, written, got, disk, node>>

\* The blocks are sent to the writer, all before the body is returned.
SendBlock(c) ==
  /\ srv[c] = "send"
  /\ sent[c] < Items - 1
  /\ sent' = [sent EXCEPT ![c] = @ + 1]
  /\ UNCHANGED <<client, req, srv, writer, open, written, got, disk, node>>

\* get_file keeps its sender while it waits for the writer.
DropTxInStream(c) ==
  /\ srv[c] = "send"
  /\ sent[c] = Items - 1
  /\ open' = [open EXCEPT ![c] = Kind(c) = "get_file"]
  /\ Goto(c, IF Kind(c) = "stream" THEN "body" ELSE "join")
  /\ UNCHANGED <<client, req, writer, sent, written, got, disk, node>>

\* `drop(tx)`: stream returns its body, get_file waits for the writer.
DropTx(c) ==
  /\ srv[c] = "send"
  /\ sent[c] = Items - 1
  /\ open' = [open EXCEPT ![c] = FALSE]
  /\ Goto(c, IF Kind(c) = "stream" THEN "body" ELSE "join")
  /\ UNCHANGED <<client, req, writer, sent, written, got, disk, node>>

\* The buffer is read without waiting for the writer, which may not have begun.
JoinSkipped(c) ==
  /\ srv[c] = "join"
  /\ written[c] = 0 \/ writer[c] = "done"
  /\ Goto(c, "create")
  /\ UNCHANGED <<client, req, car, disk, node>>

\* `write_task.await`.
Join(c) ==
  /\ srv[c] = "join"
  /\ writer[c] = "done"
  /\ Goto(c, "create")
  /\ UNCHANGED <<client, req, car, disk, node>>

\* The directory and the file: `?` and `unwrap`.
CreateFails(c) ==
  /\ srv[c] = "create"
  /\ Answer(c, "fail") \/ Goto(c, "reset")
  /\ UNCHANGED <<client, req, car, disk, node>>

\* File::create truncates the file of another call for the same path.
Create(c) ==
  /\ srv[c] = "create"
  /\ file' = {}
  /\ opener' = c
  /\ Goto(c, "write")
  /\ UNCHANGED <<client, req, car, lost, node>>

\* write_all, each part at the position of this handle.
Write(c) ==
  /\ srv[c] = "write"
  /\ got[c] < written[c]
  /\ got' = [got EXCEPT ![c] = @ + 1]
  /\ file' = file \cup {got[c] + 1}
  /\ UNCHANGED <<client, req, srv, writer, open, sent, written, opener, lost, node>>

\* write_all returns an error.
WriteFails(c) ==
  /\ srv[c] = "write"
  /\ got[c] < written[c]
  /\ Answer(c, "fail")
  /\ UNCHANGED <<client, req, car, disk, node>>

\* The last part is written when the file is dropped, and an error ignored:
\* the call is answered with success although the end of the CAR is not there.
LastWriteLost(c) ==
  /\ srv[c] = "write"
  /\ got[c] + 1 = written[c]
  /\ got' = [got EXCEPT ![c] = @ + 1]
  /\ lost' = lost \cup {c}
  /\ Answer(c, "ok")
  /\ UNCHANGED <<client, req, writer, open, sent, written, file, opener, node>>

Written(c) ==
  /\ srv[c] = "write"
  /\ got[c] = written[c]
  /\ Answer(c, "ok")
  /\ UNCHANGED <<client, req, car, disk, node>>

-----------------------------------------------------------------------------
(***************************************************************************)
(* write_stream_async, in its own task.                                    *)
(***************************************************************************)
Unwritten(c) == written[c] = 0 \/ written[c] - 1 < sent[c]

\* The reading end of the pipe belongs to the handler and then to the body.
WriterStep(c) ==
  /\ up
  /\ writer[c] = "run"
  /\ Unwritten(c)
  /\ Kind(c) = "stream" => written[c] - got[c] < PipeItems /\ ~Over(c)
  /\ written' = [written EXCEPT ![c] = @ + 1]
  /\ UNCHANGED <<client, req, srv, writer, open, sent, got, disk, node>>

\* The pipe has no reader: the task panics.
WriterFails(c) ==
  /\ up
  /\ writer[c] = "run"
  /\ Unwritten(c)
  /\ Kind(c) = "stream"
  /\ Over(c)
  /\ writer' = [writer EXCEPT ![c] = "dead"]
  /\ UNCHANGED <<client, req, srv, open, sent, written, got, disk, node>>

WriterEnds(c) ==
  /\ up
  /\ writer[c] = "run"
  /\ ~Unwritten(c)
  /\ ~open[c]
  /\ writer' = [writer EXCEPT ![c] = "done"]
  /\ UNCHANGED <<client, req, srv, open, sent, written, got, disk, node>>

-----------------------------------------------------------------------------
\* The network loop ends with an error; the server goes on.
LoopEnds ==
  /\ up
  /\ loop = "running"
  /\ loop' = "stopped"
  /\ UNCHANGED <<client, req, srv, car, disk, up, store, queued>>

\* The node is stopped: connections are closed, its memory is gone.
NodeStops ==
  /\ up
  /\ up' = FALSE
  /\ loop' = "stopped"
  /\ srv' = [c \in Calls |-> IF Over(c) THEN srv[c] ELSE "reset"]
  /\ open' = [c \in Calls |-> FALSE]
  /\ writer' = [c \in Calls |-> IF writer[c] = "run" THEN "dead" ELSE writer[c]]
  /\ sent' = [c \in Calls |-> IF Over(c) THEN sent[c] ELSE 0]
  /\ written' = [c \in Calls |-> IF Over(c) THEN written[c] ELSE 0]
  /\ got' = [c \in Calls |-> IF Over(c) THEN got[c] ELSE 0]
  /\ UNCHANGED <<client, req, disk, store, queued>>

Put(c) ==
  \/ \E S \in SUBSET Blocks : Load(c, S) \/ LoadFails(c, S)
  \/ SendIndex(c) \/ Indexed(c)

Get(c) ==
  \/ Look(c) \/ Walk(c) \/ SendBlock(c) \/ DropTx(c)
  \/ \E S \in SUBSET Blocks : Fetched(c, S)
  \/ FetchFails(c)

Save(c) ==
  \/ Join(c) \/ Create(c) \/ CreateFails(c)
  \/ Write(c) \/ WriteFails(c) \/ LastWriteLost(c) \/ Written(c)

Server(c) == Refuse(c) \/ Accept(c) \/ Put(c) \/ Get(c) \/ Save(c)
Writer(c) == WriterStep(c) \/ WriterFails(c) \/ WriterEnds(c)
Client(c) == Receive(c) \/ ReadBody(c) \/ EndOfBody(c)

Next ==
  \/ \E c \in Calls :
        \/ \E r \in Request : Call(c, r)
        \/ GiveUp(c) \/ Abort(c)
        \/ Server(c) \/ Writer(c) \/ Client(c)
  \/ LoopEnds
  \/ NodeStops

(***************************************************************************)
(* Handlers and writers are tasks of running executors, a client reads     *)
(* what it is sent, and a running loop ends every fetch (CallsReturn of    *)
(* BitswapFetch).  A command left in the channel by a loop that has ended  *)
(* owes nothing.  Calls take finitely many steps, so that fairness to all  *)
(* of them together is fairness to each.                                   *)
(***************************************************************************)
Progress(c) ==
  \/ Writer(c) \/ Client(c) \/ Abort(c)
  \/ Server(c) /\ ~(srv[c] = "asked" /\ loop = "stopped")

Spec == Init /\ [][Next]_vars /\ WF_vars(\E c \in Calls : Progress(c))

-----------------------------------------------------------------------------
(***************************************************************************)
(* A call that reports success was done, whatever failed or gave up around *)
(* it: a put has its root queued for advertising, a get has the block, and *)
(* a client that has read a body to its end has the header and every block *)
(* of the DAG (a short body would look the same to it).                    *)
(***************************************************************************)
OkIsDone ==
  \A c \in Calls : client[c] = "ok" =>
     CASE Kind(c) \in Puts -> c \in queued
       [] Kind(c) = "get_cid" -> Root \in store
       [] Kind(c) = "stream" -> got[c] = Items /\ Blocks \subseteq store
       [] OTHER -> written[c] = Items /\ Blocks \subseteq store

\* The file is the CAR, but for the end of it when c has lost its last write.
Holds(c) == IF c \in lost THEN 1 .. Items - 1 \subseteq file ELSE file = 1 .. Items

(***************************************************************************)
(* "file stored at": if the call that truncated the file last was answered *)
(* with success, the file is the whole CAR, although other calls for the   *)
(* same path may have been writing to it, failed or been dropped.  The one *)
(* exception is the error that the code ignores, that of the write when    *)
(* the file is dropped: then the last part, and no other, may be missing   *)
(* behind a success.                                                       *)
(***************************************************************************)
StoredIsWhole == \A c \in Calls : opener = c /\ srv[c] = "ok" => Holds(c)

(***************************************************************************)
(* Every call ends, the body of `stream` included, although the client     *)
(* cannot read the pipe before all blocks are sent; only a command that    *)
(* the network loop left behind when it ended may wait for ever.           *)
(***************************************************************************)
CallsEnd ==
  <>[](\A c \in Calls :
          client[c] # "waiting" \/ (loop = "stopped" /\ srv[c] \in {"asked", "indexing"}))

(***************************************************************************)
(* No writer task is left behind by a handler that panicked or was dropped *)
(* or by a client that stopped reading.                                    *)
(***************************************************************************)
WritersEnd ==
  <>[](\A c \in Calls : writer[c] # "run" \/ (loop = "stopped" /\ srv[c] = "asked"))

=============================================================================
