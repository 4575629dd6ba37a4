------------------------- MODULE ServerCallsProofs -------------------------
(***************************************************************************)
(* Proofs about ServerCalls: success is reported for what was done, and a  *)
(* file reported as stored is whole but for a last write that failed       *)
(* unnoticed, for any number of calls, any DAG and any size of the pipe.   *)
(***************************************************************************)
EXTENDS ServerCalls, Integers, FiniteSetTheorems, TLAPS

Whole == Blocks \subseteq store

\* Which handlers get where.
Places(c) ==
  /\ client[c] = "idle" => srv[c] \in {"none", "reset"}
  /\ client[c] = "ok" => srv[c] = "ok"
  /\ srv[c] \in {"load", "index", "indexing"} => Kind(c) \in Puts
  /\ srv[c] \in {"look", "asked", "walk"} => Kind(c) = "get_cid" \/ Kind(c) \in Cars
  /\ srv[c] = "send" => Kind(c) \in Cars
  /\ srv[c] = "body" => Kind(c) = "stream"
  /\ srv[c] \in {"join", "create", "write"} => Kind(c) = "get_file"

\* What the writer owes to the handler: it ends early only with the node or
\* its reader, and otherwise not before the handler has sent every block.
WriterInv(c) ==
  /\ srv[c] \in {"look", "asked", "walk", "send"} /\ Kind(c) \in Cars => open[c]
  /\ open[c] => writer[c] # "done"
  /\ writer[c] = "dead" => Over(c)
  /\ srv[c] \in {"body", "join", "create", "write"} => sent[c] = Items - 1
  /\ srv[c] \in {"body", "join"} /\ writer[c] = "done" => written[c] = Items
  /\ srv[c] \in {"create", "write"} => written[c] = Items
  /\ got[c] > 0 => srv[c] \in {"body", "write"} \/ Over(c)

\* What has been found in the store, and what success means.
DoneInv(c) ==
  /\ srv[c] = "walk" => Root \in store
  /\ srv[c] \in {"send", "body", "join", "create", "write"} => Whole
  /\ srv[c] = "ok" =>
        /\ Kind(c) \in Puts => c \in queued
        /\ Kind(c) = "get_cid" => Root \in store
        /\ Kind(c) = "stream" => got[c] = Items /\ Whole
        /\ Kind(c) = "get_file" => written[c] = Items /\ Whole

CallInv(c) == Places(c) /\ WriterInv(c) /\ DoneInv(c)

\* The call that truncated the file last is still writing its part, or over.
FileInv ==
  \A c \in Calls : opener = c =>
     /\ srv[c] = "write" \/ Over(c)
     /\ srv[c] = "write" => 1 .. got[c] \subseteq file
     /\ srv[c] = "ok" => Holds(c)

IInv == TypeOK /\ FileInv /\ \A c \in Calls : CallInv(c)


-----------------------------------------------------------------------------
Place == {"none", "load", "index", "indexing", "look", "asked", "walk", "send",
          "join", "create", "write", "body", "ok", "fail", "reset"}

\* A CAR has at least its header.
LEMMA ItemsType == Items \in Nat /\ Items >= 1
BY RootAssumption, FS_CardinalityType DEF Items

\* The invariant holds at the start.
LEMMA InitInv == Init => IInv
<1> SUFFICES ASSUME Init PROVE IInv
  OBVIOUS
<1>1. TypeOK
  <2>1. [kind |-> "get_cid", form |-> "good"] \in Request
    BY DEF Request, Rpc, Http
  <2>2. 0 \in 0 .. Items /\ 0 \in 0 .. Items - 1
    BY ItemsType
  <2>3. QED
    BY <2>1, <2>2 DEF Init, TypeOK
<1>2. FileInv
  BY NoCallAssumption DEF Init, FileInv
<1>3. ASSUME NEW c \in Calls PROVE CallInv(c)
  BY DEF Init, CallInv, Places, WriterInv, DoneInv, Over
<1>4. QED
  BY <1>1, <1>2, <1>3 DEF IInv

\* The step leaves the call d alone.
Same(d) ==
  /\ client'[d] = client[d] /\ req'[d] = req[d] /\ srv'[d] = srv[d]
  /\ writer'[d] = writer[d] /\ open'[d] = open[d] /\ sent'[d] = sent[d]
  /\ written'[d] = written[d] /\ got'[d] = got[d]

\* Store and queue only grow.
Grows == store \subseteq store' /\ queued \subseteq queued'

\* Nothing that other calls do disturbs a call: they only add blocks and roots.
LEMMA OthersKeep ==
  ASSUME NEW d \in Calls, CallInv(d), Same(d), Grows
  PROVE  CallInv(d)'
<1>1. Kind(d)' = Kind(d) /\ Over(d)' = Over(d) /\ (Whole => Whole')
  BY DEF Same, Grows, Kind, Over, Whole
<1>2. Places(d)'
  BY <1>1 DEF CallInv, Places, Same
<1>3. WriterInv(d)'
  BY <1>1 DEF CallInv, WriterInv, Same
<1>4. DoneInv(d)'
  BY <1>1 DEF CallInv, DoneInv, Same, Grows
<1>5. QED
  BY <1>2, <1>3, <1>4 DEF CallInv

\* A step of one call.
LEMMA OneCall ==
  ASSUME IInv, NEW c \in Calls, \A d \in Calls \ {c} : Same(d), Grows,
         TypeOK', FileInv', CallInv(c)'
  PROVE  IInv'
<1>1. ASSUME NEW d \in Calls PROVE CallInv(d)'
  <2>1. CASE d = c
    BY <2>1
  <2>2. CASE d # c
    BY <2>2, OthersKeep DEF IInv
  <2>3. QED
    BY <2>1, <2>2
<1>2. QED
  BY <1>1 DEF IInv

\* The file is as it was, and the call that opened it has moved no further
\* than to a failure, unless it has written everything.
LEMMA FileKept ==
  ASSUME IInv, NEW c \in Calls, \A d \in Calls \ {c} : Same(d), UNCHANGED disk,
         opener = c => \/ srv'[c] = srv[c] /\ got'[c] = got[c]
                       \/ srv'[c] \in {"fail", "reset"}
                       \/ srv'[c] = "ok" /\ Holds(c)
  PROVE  FileInv'
<1> SUFFICES ASSUME NEW d \in Calls, opener = d
             PROVE  /\ srv'[d] = "write" \/ Over(d)'
                    /\ srv'[d] = "write" => 1 .. got'[d] \subseteq file
                    /\ srv'[d] = "ok" => Holds(d)
  BY DEF FileInv, Holds, disk
<1>1. /\ srv[d] = "write" \/ Over(d)
      /\ srv[d] = "write" => 1 .. got[d] \subseteq file
      /\ srv[d] = "ok" => Holds(d)
  BY DEF IInv, FileInv
<1>2. CASE d # c
  BY <1>1, <1>2 DEF Same, Over
<1>3. CASE d = c
  BY <1>1, <1>3 DEF Over
<1>4. QED
  BY <1>2, <1>3

\* A step that moves the handler of one call.
LEMMA Move ==
  ASSUME IInv, NEW c \in Calls, NEW p \in Place,
         srv' = [srv EXCEPT ![c] = p],
         open' = open \/ open' = [open EXCEPT ![c] = FALSE],
         UNCHANGED <<client, req, writer, sent, written, got, disk, up, loop>>,
         store' \in SUBSET Blocks, queued' \in SUBSET Calls, Grows,
         opener = c => p \in {"fail", "reset"} \/ (p = "ok" /\ Holds(c)),
         CallInv(c)'
  PROVE  IInv'
<1>1. TypeOK'
  BY DEF IInv, TypeOK, disk, Place
<1>2. \A d \in Calls \ {c} : Same(d)
  BY DEF IInv, TypeOK, Same
<1>3. srv'[c] = p
  BY DEF IInv, TypeOK
<1>4. FileInv'
  BY <1>2, <1>3, FileKept
<1>5. QED
  BY <1>1, <1>2, <1>4, OneCall

\* A handler that fails, panics or is dropped owes nothing more.
LEMMA Fails ==
  ASSUME IInv, NEW c \in Calls, NEW p \in {"fail", "reset"}, ~Over(c), client[c] # "idle",
         srv' = [srv EXCEPT ![c] = p],
         open' = open \/ open' = [open EXCEPT ![c] = FALSE],
         UNCHANGED <<client, req, writer, sent, written, got, disk, up, loop>>,
         store' \in SUBSET Blocks, queued' \in SUBSET Calls, Grows
  PROVE  IInv'
<1>1. srv'[c] = p /\ client'[c] = client[c] /\ writer'[c] = writer[c]
  BY DEF IInv, TypeOK
<1>2. open'[c] => open[c]
  BY DEF IInv, TypeOK
<1>3. client[c] # "ok" /\ (open[c] => writer[c] # "done")
  BY DEF IInv, CallInv, Places, WriterInv, Over
<1>4. Places(c)' /\ DoneInv(c)'
  BY <1>1, <1>3 DEF Places, DoneInv
<1>5. WriterInv(c)'
  BY <1>1, <1>2, <1>3 DEF WriterInv, Over
<1>6. p \in Place
  BY DEF Place
<1>7. CallInv(c)'
  BY <1>4, <1>5 DEF CallInv
<1>8. QED
  BY <1>6, <1>7, Move

\* A handler that goes on, and neither fails nor ends.
LEMMA GoesOn ==
  ASSUME IInv, NEW c \in Calls, NEW p \in Place \ {"none", "write", "ok", "fail", "reset"},
         srv[c] \notin {"none", "write"}, ~Over(c),
         srv' = [srv EXCEPT ![c] = p],
         open' = open \/ open' = [open EXCEPT ![c] = FALSE],
         UNCHANGED <<client, req, writer, sent, written, got, disk, up, loop>>,
         store' \in SUBSET Blocks, queued' = queued, Grows,
         CallInv(c)'
  PROVE  IInv'
<1>1. opener # c
  BY DEF IInv, FileInv, Over
<1>2. queued' \in SUBSET Calls
  BY DEF IInv, TypeOK
<1>3. QED
  BY <1>1, <1>2, Move

-----------------------------------------------------------------------------
(***************************************************************************)
(* The client.                                                             *)
(***************************************************************************)
\* A request is sent, or finds no server.
LEMMA CallKeeps == ASSUME IInv, NEW c \in Calls, NEW r \in Request, Call(c, r) PROVE IInv'
<1>1. /\ client[c] = "idle"
      /\ req' = [req EXCEPT ![c] = r]
      /\ client' = [client EXCEPT ![c] = IF up THEN "waiting"
                                         ELSE IF r.kind \in Rpc THEN "panic" ELSE "err"]
      /\ UNCHANGED <<srv, car, disk, node>>
  BY DEF Call
<1>2. TypeOK'
  <2>1. client' \in [Calls -> {"idle", "waiting", "ok", "err", "panic", "gone"}]
    BY <1>1 DEF IInv, TypeOK
  <2>2. QED
    BY <1>1, <2>1 DEF IInv, TypeOK, car, disk, node
<1>3. \A d \in Calls \ {c} : Same(d)
  BY <1>1 DEF IInv, TypeOK, Same, car
<1>4. client'[c] \notin {"idle", "ok"}
  BY <1>1 DEF IInv, TypeOK
<1>5. srv[c] \in {"none", "reset"}
  BY <1>1 DEF IInv, CallInv, Places
<1>6. CallInv(c)'
  <2>1. Places(c)' /\ DoneInv(c)'
    BY <1>1, <1>4, <1>5 DEF Places, DoneInv
  <2>2. WriterInv(c)'
    BY <1>1, <1>5 DEF IInv, CallInv, WriterInv, car, Over
  <2>3. QED
    BY <2>1, <2>2 DEF CallInv
<1>7. Grows
  BY <1>1 DEF Grows, node
<1>8. FileInv'
  BY <1>1, <1>3, FileKept DEF car
<1>9. QED
  BY <1>2, <1>3, <1>6, <1>7, <1>8, OneCall

\* Receive and GiveUp change only what the client knows.
LEMMA ClientKeeps == ASSUME IInv, NEW c \in Calls, Receive(c) \/ GiveUp(c) PROVE IInv'
<1>1. /\ client' = [client EXCEPT ![c] = client'[c]]
      /\ client'[c] \in {"ok", "err", "panic", "gone"}
      /\ client'[c] = "ok" => srv[c] = "ok"
      /\ UNCHANGED <<req, srv, car, disk, node>>
  BY DEF IInv, TypeOK, Receive, GiveUp
<1>2. TypeOK'
  <2>1. client' \in [Calls -> {"idle", "waiting", "ok", "err", "panic", "gone"}]
    BY <1>1 DEF IInv, TypeOK
  <2>2. QED
    BY <1>1, <2>1 DEF IInv, TypeOK, car, disk, node
<1>3. \A d \in Calls \ {c} : Same(d)
  BY <1>1 DEF IInv, TypeOK, Same, car
<1>4. CallInv(c)'
  <2>1. CallInv(c)
    BY DEF IInv
  <2>2. Kind(c)' = Kind(c) /\ Over(c)' = Over(c) /\ Whole' = Whole
    BY <1>1 DEF Kind, Over, Whole, node
  <2>3. Places(c)'
    BY <1>1, <2>1, <2>2 DEF CallInv, Places
  <2>4. WriterInv(c)'
    BY <1>1, <2>1, <2>2 DEF CallInv, WriterInv, car
  <2>5. DoneInv(c)'
    BY <1>1, <2>1, <2>2 DEF CallInv, DoneInv, car, node
  <2>6. QED
    BY <2>3, <2>4, <2>5 DEF CallInv
<1>5. Grows
  BY <1>1 DEF Grows, node
<1>6. FileInv'
  BY <1>1, <1>3, FileKept DEF car
<1>7. QED
  BY <1>2, <1>3, <1>4, <1>5, <1>6, OneCall

\* The client reads an item of the body.
LEMMA ReadKeeps == ASSUME IInv, NEW c \in Calls, ReadBody(c) PROVE IInv'
<1>1. /\ srv[c] = "body" /\ got[c] < written[c]
      /\ got' = [got EXCEPT ![c] = @ + 1]
      /\ UNCHANGED <<client, req, srv, writer, open, sent, written, disk, node>>
  BY DEF ReadBody
<1>2. got[c] \in 0 .. Items /\ written[c] \in 0 .. Items /\ got[c] + 1 \in 0 .. Items
  BY <1>1, ItemsType DEF IInv, TypeOK
<1>3. TypeOK'
  BY <1>1, <1>2 DEF IInv, TypeOK, disk, node
<1>4. \A d \in Calls \ {c} : Same(d)
  BY <1>1 DEF IInv, TypeOK, Same
<1>5. CallInv(c)'
  BY <1>1 DEF IInv, CallInv, Places, WriterInv, DoneInv, Kind, Over, Whole, node
<1>6. opener # c
  BY <1>1 DEF IInv, FileInv, Over
<1>7. FileInv' /\ Grows
  BY <1>1, <1>4, <1>6, FileKept DEF Grows, node
<1>8. QED
  BY <1>3, <1>4, <1>5, <1>7, OneCall

\* The body ends whole: its writer has not died, so it is done.
LEMMA EndKeeps == ASSUME IInv, NEW c \in Calls, EndOfBody(c) PROVE IInv'
<1>1. /\ srv[c] = "body" /\ got[c] = written[c] /\ writer[c] \in {"done", "dead"}
      /\ srv' = [srv EXCEPT ![c] = "ok"]
      /\ UNCHANGED <<client, req, car, disk, node>>
  BY DEF EndOfBody
<1>2. got[c] = Items /\ Kind(c) = "stream" /\ Whole
  BY <1>1 DEF IInv, CallInv, Places, WriterInv, DoneInv, Over
<1>3. srv'[c] = "ok"
  BY <1>1 DEF IInv, TypeOK
<1>4. CallInv(c)'
  <2>1. Places(c)'
    BY <1>1, <1>3 DEF Places, IInv, CallInv
  <2>2. WriterInv(c)'
    BY <1>1, <1>3 DEF WriterInv, IInv, CallInv, car, Over
  <2>3. DoneInv(c)'
    BY <1>1, <1>2, <1>3 DEF DoneInv, Kind, Whole, car, node, Puts
  <2>4. QED
    BY <2>1, <2>2, <2>3 DEF CallInv
<1>5. opener # c
  BY <1>1 DEF IInv, FileInv, Over
<1>6. /\ "ok" \in Place /\ Grows /\ store' \in SUBSET Blocks /\ queued' \in SUBSET Calls
      /\ UNCHANGED <<client, req, writer, sent, written, got, disk, up, loop>> /\ open' = open
  BY <1>1 DEF Place, Grows, IInv, TypeOK, car, node
<1>7. QED
  BY <1>1, <1>4, <1>5, <1>6, Move

-----------------------------------------------------------------------------
(***************************************************************************)
(* The handlers of a put and of a get.                                     *)
(***************************************************************************)
\* A step that fails.
LEMMA FailingKeeps ==
  ASSUME IInv, NEW c \in Calls,
         \/ Abort(c) \/ Refuse(c) \/ FetchFails(c) \/ CreateFails(c) \/ WriteFails(c)
         \/ \E S \in SUBSET Blocks : LoadFails(c, S)
  PROVE  IInv'
<1>1. ~Over(c) /\ client[c] # "idle"
  BY DEF IInv, CallInv, Places, Abort, Refuse, FetchFails, CreateFails, WriteFails, LoadFails, Over
<1>2. PICK p \in {"fail", "reset"} : srv' = [srv EXCEPT ![c] = p]
  BY DEF Abort, Refuse, FetchFails, CreateFails, WriteFails, LoadFails, Answer, Reset, Goto
<1>3. open' = open \/ open' = [open EXCEPT ![c] = FALSE]
  BY DEF Abort, Refuse, FetchFails, CreateFails, WriteFails, LoadFails, Reset, car
<1>4. UNCHANGED <<client, req, writer, sent, written, got, disk, up, loop>>
  BY DEF Abort, Refuse, FetchFails, CreateFails, WriteFails, LoadFails, car, node
<1>5. store \subseteq store' /\ store' \in SUBSET Blocks /\ queued' = queued
  BY DEF Abort, Refuse, FetchFails, CreateFails, WriteFails, LoadFails, node, IInv, TypeOK
<1>6. queued' \in SUBSET Calls /\ Grows
  BY <1>5 DEF IInv, TypeOK, Grows
<1>7. QED
  BY <1>1, <1>2, <1>3, <1>4, <1>5, <1>6, Fails

\* The handler starts, and with it the writer of a CAR.
LEMMA AcceptKeeps == ASSUME IInv, NEW c \in Calls, Accept(c) PROVE IInv'
<1>1. /\ client[c] # "idle" /\ srv[c] = "none"
      /\ srv' = [srv EXCEPT ![c] = IF Kind(c) \in Puts THEN "load" ELSE "look"]
      /\ writer' = [writer EXCEPT ![c] = IF Kind(c) \in Cars THEN "run" ELSE @]
      /\ open' = [open EXCEPT ![c] = Kind(c) \in Cars]
      /\ UNCHANGED <<client, req, sent, written, got, disk, node>>
  BY DEF Accept, Goto
<1>2. Kind(c) \in Puts \cup Cars \cup {"get_cid"} /\ Kind(c)' = Kind(c)
  BY <1>1 DEF IInv, TypeOK, Request, Kind, Rpc, Http, Puts, Cars
<1>3. /\ srv'[c] = IF Kind(c) \in Puts THEN "load" ELSE "look"
      /\ writer'[c] = IF Kind(c) \in Cars THEN "run" ELSE writer[c]
      /\ open'[c] = (Kind(c) \in Cars)
  BY <1>1 DEF IInv, TypeOK
<1>4. TypeOK'
  <2>1. writer' \in [Calls -> {"none", "run", "done", "dead"}]
    BY <1>1 DEF IInv, TypeOK
  <2>2. open' \in [Calls -> BOOLEAN]
    <3>1. (Kind(c) \in Cars) \in BOOLEAN
      OBVIOUS
    <3>2. open \in [Calls -> BOOLEAN]
      BY DEF IInv, TypeOK
    <3>3. QED
      BY <1>1, <3>1, <3>2, Zenon
  <2>3. srv' \in [Calls -> Place]
    BY <1>1 DEF IInv, TypeOK, Place
  <2>4. QED
    BY <1>1, <2>1, <2>2, <2>3 DEF IInv, TypeOK, disk, node, Place
<1>5. \A d \in Calls \ {c} : Same(d)
  BY <1>1 DEF IInv, TypeOK, Same
<1>6. CallInv(c)'
  <2>1. Places(c) /\ WriterInv(c)
    BY DEF IInv, CallInv
  <2>2. Places(c)'
    BY <1>1, <1>2, <1>3, <2>1 DEF Places
  <2>3. WriterInv(c)'
    <3>1. srv'[c] \in {"load", "look"} /\ writer[c] # "dead" /\ got'[c] = got[c] /\ ~(got[c] > 0)
      BY <1>1, <1>3, <2>1 DEF WriterInv, Over
    <3>2. open'[c] <=> Kind(c) \in Cars
      BY <1>3
    <3>3. CASE Kind(c) \in Cars
      <4>1. writer'[c] = "run" /\ open'[c]
        BY <1>3, <3>2, <3>3
      <4>2. QED
        BY <3>1, <4>1 DEF WriterInv
    <3>4. CASE Kind(c) \notin Cars
      <4>1. writer'[c] = writer[c] /\ ~open'[c] /\ Kind(c)' \notin Cars
        BY <1>2, <1>3, <3>2, <3>4
      <4>2. QED
        BY <3>1, <4>1 DEF WriterInv
    <3>5. QED
      BY <3>3, <3>4
  <2>4. DoneInv(c)'
    BY <1>3 DEF DoneInv
  <2>5. QED
    BY <2>2, <2>3, <2>4 DEF CallInv
<1>7. opener # c
  BY <1>1 DEF IInv, FileInv, Over
<1>8. FileInv' /\ Grows
  BY <1>1, <1>5, <1>7, FileKept DEF Grows, node
<1>9. QED
  BY <1>4, <1>5, <1>6, <1>8, OneCall

\* Nothing about the call changes but where its handler is.
Moves(c, p) ==
  /\ srv' = [srv EXCEPT ![c] = p]
  /\ UNCHANGED <<client, req, car, disk, up, loop>>
  /\ store' \in SUBSET Blocks /\ store \subseteq store'

\* What is not said of the new place was so before.
LEMMA PutMoves ==
  ASSUME IInv, NEW c \in Calls, NEW p \in {"index", "indexing"}, Moves(c, p),
         srv[c] \in {"load", "index"}, queued' = queued
  PROVE  IInv'
<1>1. /\ srv'[c] = p /\ client'[c] = client[c] /\ Kind(c)' = Kind(c)
      /\ open'[c] = open[c] /\ writer'[c] = writer[c] /\ got'[c] = got[c]
  BY DEF IInv, TypeOK, Moves, Kind, car
<1>2. Places(c)' /\ DoneInv(c)'
  BY <1>1 DEF IInv, CallInv, Places, DoneInv
<1>3. WriterInv(c)'
  BY <1>1 DEF IInv, CallInv, WriterInv, Over
<1>4. CallInv(c)' /\ Grows
  BY <1>2, <1>3 DEF CallInv, Grows, Moves
<1>5. p \in Place \ {"none", "write", "ok", "fail", "reset"} /\ ~Over(c)
  BY DEF Place, Over
<1>6. QED
  BY <1>4, <1>5, GoesOn DEF Moves, car

\* The steps of put_car.
LEMMA PutKeeps == ASSUME IInv, NEW c \in Calls, Put(c) PROVE IInv'
<1>1. ASSUME NEW S \in SUBSET Blocks, Load(c, S) PROVE IInv'
  <2>1. Moves(c, "index") /\ srv[c] = "load" /\ queued' = queued
    BY <1>1 DEF Load, Goto, Moves, IInv, TypeOK
  <2>2. QED
    BY <2>1, PutMoves
<1>2. ASSUME NEW S \in SUBSET Blocks, LoadFails(c, S) PROVE IInv'
  BY <1>2, FailingKeeps
<1>3. ASSUME SendIndex(c) PROVE IInv'
  <2>1. CASE loop = "running"
    <3>1. Moves(c, "indexing") /\ srv[c] = "index" /\ queued' = queued
      BY <1>3, <2>1 DEF SendIndex, Goto, Moves, IInv, TypeOK, node
    <3>2. QED
      BY <3>1, PutMoves
  <2>2. CASE loop # "running"
    <3>1. /\ ~Over(c) /\ client[c] # "idle"
          /\ UNCHANGED <<client, req, writer, sent, written, got, disk, up, loop>>
          /\ open' = open /\ Grows
          /\ store' \in SUBSET Blocks /\ queued' \in SUBSET Calls
      BY <1>3 DEF SendIndex, IInv, TypeOK, CallInv, Places, Over, car, node, Grows
    <3>2. PICK p \in {"fail", "reset"} : srv' = [srv EXCEPT ![c] = p]
      BY <1>3, <2>2 DEF SendIndex, Answer, Goto
    <3>3. QED
      BY <3>1, <3>2, Fails
  <2>3. QED
    BY <2>1, <2>2
<1>4. ASSUME Indexed(c) PROVE IInv'
  <2>1. /\ srv[c] = "indexing" /\ queued' = queued \cup {c}
        /\ UNCHANGED <<client, req, car, disk, up, loop, store>>
    BY <1>4 DEF Indexed
  <2>2. PICK p \in {"ok", "reset"} : srv' = [srv EXCEPT ![c] = p]
    BY <1>4 DEF Indexed, Answer, Goto
  <2>3. /\ srv'[c] = p /\ client'[c] = client[c] /\ Kind(c)' = Kind(c)
        /\ open'[c] = open[c] /\ writer'[c] = writer[c] /\ c \in queued'
    BY <2>1, <2>2 DEF IInv, TypeOK, Kind, car
  <2>4. Kind(c) \in Puts /\ client[c] \notin {"idle", "ok"} /\ (open[c] => writer[c] # "done")
    BY <2>1 DEF IInv, CallInv, Places, WriterInv
  <2>5. Places(c)'
    BY <2>3, <2>4 DEF Places
  <2>6. WriterInv(c)'
    BY <2>3, <2>4 DEF WriterInv, Over
  <2>7. DoneInv(c)'
    BY <2>3, <2>4 DEF DoneInv, Puts
  <2>8. opener # c /\ p \in Place
    BY <2>1 DEF IInv, FileInv, Over, Place
  <2>9. store' \in SUBSET Blocks /\ queued' \in SUBSET Calls /\ Grows /\ open' = open
    BY <2>1 DEF IInv, TypeOK, Grows, car
  <2>10. CallInv(c)'
    BY <2>5, <2>6, <2>7 DEF CallInv
  <2>11. QED
    BY <2>1, <2>2, <2>8, <2>9, <2>10, Move DEF car
<1>5. QED
  BY <1>1, <1>2, <1>3, <1>4 DEF Put

\* Where a get may go on to, and what it takes.
LEMMA GetMoves ==
  ASSUME IInv, NEW c \in Calls, NEW p \in {"asked", "walk", "send"}, Moves(c, p),
         srv[c] \in {"look", "asked", "walk"}, queued' = queued,
         p = "walk" => Root \in store',
         p = "send" => Whole' /\ Kind(c) \in Cars
  PROVE  IInv'
<1>1. /\ srv'[c] = p /\ client'[c] = client[c] /\ Kind(c)' = Kind(c)
      /\ open'[c] = open[c] /\ writer'[c] = writer[c] /\ got'[c] = got[c]
  BY DEF IInv, TypeOK, Moves, Kind, car
<1>2. Places(c)' /\ DoneInv(c)'
  BY <1>1 DEF IInv, CallInv, Places, DoneInv
<1>3. WriterInv(c)'
  BY <1>1 DEF IInv, CallInv, WriterInv, Over
<1>4. CallInv(c)' /\ Grows
  BY <1>2, <1>3 DEF CallInv, Grows, Moves
<1>5. p \in Place \ {"none", "write", "ok", "fail", "reset"} /\ ~Over(c)
  BY DEF Place, Over
<1>6. QED
  BY <1>4, <1>5, GoesOn DEF Moves, car

\* A get, or the saving of a file, stops.
LEMMA Stops ==
  ASSUME IInv, NEW c \in Calls, NEW p \in {"fail", "reset"},
         srv[c] \in {"look", "asked", "walk", "create", "write"},
         srv' = [srv EXCEPT ![c] = p],
         open' = open \/ open' = [open EXCEPT ![c] = FALSE],
         UNCHANGED <<client, req, writer, sent, written, got, disk, node>>
  PROVE  IInv'
<1>1. /\ ~Over(c) /\ client[c] # "idle" /\ Grows
      /\ store' \in SUBSET Blocks /\ queued' \in SUBSET Calls
  BY DEF IInv, TypeOK, CallInv, Places, Over, node, Grows
<1>2. QED
  BY <1>1, Fails DEF node

\* A call ends well, or without an answer if its request had no id.
LEMMA Ends ==
  ASSUME IInv, NEW c \in Calls, NEW p \in {"ok", "reset"},
         srv[c] \in {"walk", "write"}, srv' = [srv EXCEPT ![c] = p],
         UNCHANGED <<client, req, open, writer, sent, written, got, disk, node>>,
         opener = c => Holds(c),
         DoneInv(c)'
  PROVE  IInv'
<1>1. /\ srv'[c] = p /\ client'[c] = client[c]
      /\ open'[c] = open[c] /\ writer'[c] = writer[c]
  BY DEF IInv, TypeOK
<1>2. client[c] \notin {"idle", "ok"} /\ (open[c] => writer[c] # "done")
  BY DEF IInv, CallInv, Places, WriterInv
<1>3. Places(c)'
  BY <1>1, <1>2 DEF Places
<1>4. WriterInv(c)'
  BY <1>1, <1>2 DEF WriterInv, Over
<1>5. CallInv(c)'
  BY <1>3, <1>4 DEF CallInv
<1>6. /\ p \in Place /\ Grows /\ store' \in SUBSET Blocks /\ queued' \in SUBSET Calls
  BY DEF Place, Grows, IInv, TypeOK, node
<1>7. QED
  BY <1>5, <1>6, Move DEF node

\* A block is sent to the writer.
LEMMA SendKeeps == ASSUME IInv, NEW c \in Calls, SendBlock(c) PROVE IInv'
<1>1. /\ srv[c] = "send" /\ sent[c] < Items - 1
      /\ sent' = [sent EXCEPT ![c] = @ + 1]
      /\ UNCHANGED <<client, req, srv, writer, open, written, got, disk, node>>
  BY DEF SendBlock
<1>2. sent[c] \in 0 .. Items - 1 /\ sent[c] + 1 \in 0 .. Items - 1
  BY <1>1, ItemsType DEF IInv, TypeOK
<1>3. TypeOK'
  BY <1>1, <1>2 DEF IInv, TypeOK, disk, node
<1>4. \A d \in Calls \ {c} : Same(d)
  BY <1>1 DEF IInv, TypeOK, Same
<1>5. CallInv(c)'
  BY <1>1 DEF IInv, CallInv, Places, WriterInv, DoneInv, Kind, Over, Whole, node
<1>6. FileInv' /\ Grows
  BY <1>1, <1>4, FileKept DEF Grows, node
<1>7. QED
  BY <1>3, <1>4, <1>5, <1>6, OneCall

\* Every block is sent, and the channel closed, while the writer runs.
LEMMA DropKeeps == ASSUME IInv, NEW c \in Calls, DropTx(c) PROVE IInv'
<1> DEFINE p == IF Kind(c) = "stream" THEN "body" ELSE "join"
<1>1. /\ srv[c] = "send" /\ sent[c] = Items - 1
      /\ open' = [open EXCEPT ![c] = FALSE] /\ srv' = [srv EXCEPT ![c] = p]
      /\ UNCHANGED <<client, req, writer, sent, written, got, disk, node>>
  BY DEF DropTx, Goto
<1>2. /\ srv'[c] = p /\ ~open'[c] /\ client'[c] = client[c] /\ Kind(c)' = Kind(c)
      /\ sent'[c] = Items - 1 /\ writer'[c] = writer[c] /\ got'[c] = got[c] /\ Whole' = Whole
  BY <1>1 DEF IInv, TypeOK, Kind, Whole, node
<1>3. /\ Kind(c) \in Cars /\ Whole /\ ~(got[c] > 0)
      /\ client[c] \notin {"idle", "ok"} /\ writer[c] \notin {"done", "dead"}
  BY <1>1 DEF IInv, CallInv, Places, WriterInv, DoneInv, Over
<1>4. p \in {"body", "join"} /\ (p = "join" => Kind(c) = "get_file")
                             /\ (p = "body" => Kind(c) = "stream")
  BY <1>3 DEF Cars
<1> HIDE DEF p
<1>5. Places(c)'
  BY <1>2, <1>3, <1>4 DEF Places
<1>6. WriterInv(c)'
  BY <1>2, <1>3, <1>4 DEF WriterInv
<1>7. DoneInv(c)'
  BY <1>2, <1>3, <1>4 DEF DoneInv
<1>8. CallInv(c)' /\ Grows /\ store' \in SUBSET Blocks
  BY <1>1, <1>5, <1>6, <1>7 DEF CallInv, Grows, node, IInv, TypeOK
<1>9. p \in Place \ {"none", "write", "ok", "fail", "reset"} /\ ~Over(c)
  BY <1>1, <1>4 DEF Place, Over
<1>10. QED
  BY <1>1, <1>8, <1>9, GoesOn DEF node

\* The steps of get, and of stream and get_file up to the last block.
LEMMA GetKeeps == ASSUME IInv, NEW c \in Calls, Get(c) PROVE IInv'
<1>1. ASSUME NEW S \in SUBSET Blocks, Fetched(c, S) PROVE IInv'
  <2>1. Moves(c, "walk") /\ srv[c] = "asked" /\ queued' = queued /\ Root \in store'
    BY <1>1 DEF Fetched, Goto, Moves, IInv, TypeOK
  <2>2. QED
    BY <2>1, GetMoves
<1>2. ASSUME FetchFails(c) PROVE IInv'
  BY <1>2, FailingKeeps
<1>3. ASSUME Look(c) PROVE IInv'
  <2>1. srv[c] = "look" /\ UNCHANGED <<client, req, writer, sent, written, got, disk, node>>
    BY <1>3 DEF Look
  <2>2. CASE Root \in store /\ Goto(c, "walk") /\ UNCHANGED open
    <3>1. Moves(c, "walk") /\ queued' = queued /\ Root \in store'
      BY <2>1, <2>2 DEF Goto, Moves, IInv, TypeOK, node, car
    <3>2. QED
      BY <2>1, <3>1, GetMoves
  <2>3. CASE Goto(c, "asked") /\ UNCHANGED open
    <3>1. Moves(c, "asked") /\ queued' = queued
      BY <2>1, <2>3 DEF Goto, Moves, IInv, TypeOK, node, car
    <3>2. QED
      BY <2>1, <3>1, GetMoves
  <2>4. CASE IF Kind(c) = "get_cid" THEN Answer(c, "fail") /\ UNCHANGED open ELSE Reset(c)
    <3>1. PICK p \in {"fail", "reset"} : srv' = [srv EXCEPT ![c] = p]
      BY <2>4 DEF Answer, Reset, Goto
    <3>2. open' = open \/ open' = [open EXCEPT ![c] = FALSE]
      BY <2>4 DEF Reset
    <3>3. QED
      BY <2>1, <3>1, <3>2, Stops
  <2>5. QED
    BY <1>3, <2>2, <2>3, <2>4 DEF Look
<1>4. ASSUME Walk(c) PROVE IInv'
  <2>1. srv[c] = "walk" /\ UNCHANGED <<client, req, writer, sent, written, got, disk, node>>
    BY <1>4 DEF Walk
  <2>2. CASE Kind(c) = "get_cid" /\ Answer(c, "ok") /\ UNCHANGED open
    <3>1. PICK p \in {"ok", "reset"} : srv' = [srv EXCEPT ![c] = p]
      BY <2>2 DEF Answer, Goto
    <3>2. Root \in store /\ opener # c
      BY <2>1 DEF IInv, CallInv, DoneInv, FileInv, Over
    <3>3. DoneInv(c)'
      <4>1. srv'[c] = p /\ Kind(c)' = "get_cid" /\ Root \in store'
        BY <2>1, <2>2, <3>1, <3>2 DEF IInv, TypeOK, Kind, node
      <4>2. QED
        BY <4>1 DEF DoneInv, Puts
    <3>4. QED
      BY <2>1, <2>2, <3>1, <3>2, <3>3, Ends
  <2>3. CASE Kind(c) \in Cars /\ Blocks \subseteq store /\ Goto(c, "send") /\ UNCHANGED open
    <3>1. Moves(c, "send") /\ queued' = queued /\ Whole'
      BY <2>1, <2>3 DEF Goto, Moves, IInv, TypeOK, node, car, Whole
    <3>2. QED
      BY <2>1, <2>3, <3>1, GetMoves
  <2>4. CASE Kind(c) \in Cars /\ ~(Blocks \subseteq store) /\ Reset(c)
    <3>1. srv' = [srv EXCEPT ![c] = "reset"] /\ open' = [open EXCEPT ![c] = FALSE]
      BY <2>4 DEF Reset, Goto
    <3>2. QED
      BY <2>1, <3>1, Stops
  <2>5. QED
    BY <1>4, <2>2, <2>3, <2>4 DEF Walk
<1>5. ASSUME SendBlock(c) PROVE IInv'
  BY <1>5, SendKeeps
<1>6. ASSUME DropTx(c) PROVE IInv'
  BY <1>6, DropKeeps
<1>7. QED
  BY <1>1, <1>2, <1>3, <1>4, <1>5, <1>6 DEF Get

-----------------------------------------------------------------------------
(***************************************************************************)
(* The file of get_file.                                                   *)
(***************************************************************************)
\* get_file goes on once the writer is done: the buffer is whole.
LEMMA JoinKeeps == ASSUME IInv, NEW c \in Calls, Join(c) PROVE IInv'
<1>1. /\ srv[c] = "join" /\ writer[c] = "done" /\ srv' = [srv EXCEPT ![c] = "create"]
      /\ UNCHANGED <<client, req, car, disk, node>>
  BY DEF Join, Goto
<1>2. /\ srv'[c] = "create" /\ client'[c] = client[c] /\ Kind(c)' = Kind(c)
      /\ sent'[c] = sent[c] /\ written'[c] = written[c] /\ writer'[c] = writer[c]
      /\ open'[c] = open[c] /\ got'[c] = got[c] /\ Whole' = Whole
  BY <1>1 DEF IInv, TypeOK, Kind, Whole, car, node
<1>3. Places(c)' /\ WriterInv(c)' /\ DoneInv(c)'
  BY <1>1, <1>2 DEF IInv, CallInv, Places, WriterInv, DoneInv, Over
<1>4. CallInv(c)' /\ Grows /\ store' \in SUBSET Blocks
  BY <1>1, <1>3 DEF CallInv, Grows, node, IInv, TypeOK
<1>5. "create" \in Place \ {"none", "write", "ok", "fail", "reset"} /\ ~Over(c)
  BY <1>1 DEF Place, Over
<1>6. QED
  BY <1>1, <1>4, <1>5, GoesOn DEF car, node

\* The file that is truncated may be another call's: from here on it is c's.
LEMMA CreateKeeps == ASSUME IInv, NEW c \in Calls, Create(c) PROVE IInv'
<1>1. /\ srv[c] = "create" /\ srv' = [srv EXCEPT ![c] = "write"]
      /\ file' = {} /\ opener' = c
      /\ UNCHANGED <<client, req, car, lost, node>>
  BY DEF Create, Goto
<1>2. /\ srv'[c] = "write" /\ client'[c] = client[c] /\ Kind(c)' = Kind(c)
      /\ sent'[c] = sent[c] /\ written'[c] = written[c] /\ writer'[c] = writer[c]
      /\ open'[c] = open[c] /\ got'[c] = got[c] /\ Whole' = Whole
  BY <1>1 DEF IInv, TypeOK, Kind, Whole, car, node
<1>3. Places(c)' /\ WriterInv(c)' /\ DoneInv(c)'
  BY <1>1, <1>2 DEF IInv, CallInv, Places, WriterInv, DoneInv, Over
<1>4. CallInv(c)' /\ Grows
  BY <1>1, <1>3 DEF CallInv, Grows, node
<1>5. TypeOK'
  BY <1>1 DEF IInv, TypeOK, car, node
<1>6. \A d \in Calls \ {c} : Same(d)
  BY <1>1 DEF IInv, TypeOK, Same, car
<1>7. FileInv'
  <2>1. got'[c] = 0
    BY <1>1, <1>2, ItemsType DEF IInv, TypeOK, CallInv, WriterInv, Over
  <2>2. 1 .. got'[c] \subseteq file'
    BY <2>1
  <2>3. QED
    BY <1>1, <1>2, <2>2 DEF FileInv
<1>8. QED
  BY <1>4, <1>5, <1>6, <1>7, OneCall

\* A part of the CAR is written, perhaps into a file that another call has opened since.
LEMMA WriteKeeps == ASSUME IInv, NEW c \in Calls, Write(c) PROVE IInv'
<1>1. /\ srv[c] = "write" /\ got[c] < written[c]
      /\ got' = [got EXCEPT ![c] = @ + 1] /\ file' = file \cup {got[c] + 1}
      /\ UNCHANGED <<client, req, srv, writer, open, sent, written, opener, lost, node>>
  BY DEF Write
<1>2. got[c] \in 0 .. Items /\ got[c] + 1 \in 0 .. Items /\ got[c] + 1 \in 1 .. Items
  BY <1>1, ItemsType DEF IInv, TypeOK
<1>3. TypeOK'
  BY <1>1, <1>2 DEF IInv, TypeOK, node
<1>4. \A d \in Calls \ {c} : Same(d)
  BY <1>1 DEF IInv, TypeOK, Same
<1>5. CallInv(c)' /\ Grows
  BY <1>1 DEF IInv, CallInv, Places, WriterInv, DoneInv, Kind, Over, Whole, node, Grows
<1>6. FileInv'
  <2>1. SUFFICES ASSUME NEW d \in Calls, opener = d
                 PROVE  /\ srv[d] = "write" \/ Over(d)
                        /\ srv[d] = "write" => 1 .. got'[d] \subseteq file'
                        /\ srv[d] = "ok" => Holds(d)'
    BY <1>1 DEF FileInv, Over
  <2>2. /\ srv[d] = "write" \/ Over(d)
        /\ srv[d] = "write" => 1 .. got[d] \subseteq file
        /\ srv[d] = "ok" => Holds(d)
    BY <2>1 DEF IInv, FileInv
  <2>3. CASE d = c
    <3>1. got'[c] = got[c] + 1
      BY <1>1 DEF IInv, TypeOK
    <3>2. 1 .. got[c] + 1 \subseteq (1 .. got[c]) \cup {got[c] + 1}
      BY <1>2, ItemsType
    <3>3. QED
      BY <1>1, <2>2, <2>3, <3>1, <3>2
  <2>4. CASE d # c
    <3>1. got'[d] = got[d]
      BY <1>4, <2>4 DEF Same
    <3>2. srv[d] = "ok" => Holds(d)'
      BY <1>1, <1>2, <2>2 DEF Holds
    <3>3. QED
      BY <1>1, <2>2, <3>1, <3>2
  <2>5. QED
    BY <2>3, <2>4
<1>7. QED
  BY <1>3, <1>4, <1>5, <1>6, OneCall

\* Everything is written, and the call answered.
LEMMA WrittenKeeps == ASSUME IInv, NEW c \in Calls, Written(c) PROVE IInv'
<1>1. /\ srv[c] = "write" /\ got[c] = written[c]
      /\ UNCHANGED <<client, req, car, disk, node>>
  BY DEF Written
<1>2. PICK p \in {"ok", "reset"} : srv' = [srv EXCEPT ![c] = p]
  BY DEF Written, Answer, Goto
<1>3. Kind(c) = "get_file" /\ written[c] = Items /\ Whole
  BY <1>1 DEF IInv, CallInv, Places, WriterInv, DoneInv
<1>4. DoneInv(c)'
  <2>1. srv'[c] = p /\ Kind(c)' = "get_file" /\ written'[c] = Items /\ Whole'
    BY <1>1, <1>2, <1>3 DEF IInv, TypeOK, Kind, Whole, car, node
  <2>2. QED
    BY <2>1 DEF DoneInv, Puts
<1>5. opener = c => Holds(c)
  <2>1. opener = c => 1 .. Items \subseteq file
    BY <1>1, <1>3 DEF IInv, FileInv
  <2>2. file \subseteq 1 .. Items /\ 1 .. Items - 1 \subseteq 1 .. Items
    BY ItemsType DEF IInv, TypeOK
  <2>3. QED
    BY <2>1, <2>2 DEF Holds
<1>6. QED
  BY <1>1, <1>2, <1>4, <1>5, Ends DEF car

\* The end of the file may be missing, and of no file but this call's.
LEMMA LostKeeps == ASSUME IInv, NEW c \in Calls, LastWriteLost(c) PROVE IInv'
<1>1. /\ srv[c] = "write" /\ got[c] + 1 = written[c]
      /\ got' = [got EXCEPT ![c] = @ + 1]
      /\ lost' = lost \cup {c}
      /\ UNCHANGED <<client, req, writer, open, sent, written, file, opener, node>>
  BY DEF LastWriteLost
<1>2. PICK p \in {"ok", "reset"} : srv' = [srv EXCEPT ![c] = p]
  BY DEF LastWriteLost, Answer, Goto
<1>3. /\ Kind(c) = "get_file" /\ written[c] = Items /\ Whole
      /\ client[c] \notin {"idle", "ok"} /\ (open[c] => writer[c] # "done")
  BY <1>1 DEF IInv, CallInv, Places, WriterInv, DoneInv
<1>4. /\ srv'[c] = p /\ Kind(c)' = "get_file" /\ written'[c] = Items /\ Whole'
      /\ client'[c] = client[c] /\ open'[c] = open[c] /\ writer'[c] = writer[c]
  BY <1>1, <1>2, <1>3 DEF IInv, TypeOK, Kind, Whole, node
<1>5. CallInv(c)'
  <2>1. Places(c)'
    BY <1>3, <1>4 DEF Places
  <2>2. WriterInv(c)'
    BY <1>3, <1>4 DEF WriterInv, Over
  <2>3. DoneInv(c)'
    BY <1>4 DEF DoneInv, Puts
  <2>4. QED
    BY <2>1, <2>2, <2>3 DEF CallInv
<1>6. TypeOK'
  <2>1. got[c] + 1 \in 0 .. Items
    BY <1>1, ItemsType DEF IInv, TypeOK
  <2>2. got' \in [Calls -> 0 .. Items]
    BY <1>1, <2>1 DEF IInv, TypeOK
  <2>3. QED
    <3>1. srv' \in [Calls -> Place]
      BY <1>2 DEF IInv, TypeOK, Place
    <3>2. lost' \in SUBSET Calls
      BY <1>1 DEF IInv, TypeOK
    <3>3. QED
      BY <1>1, <2>2, <3>1, <3>2 DEF IInv, TypeOK, node, Place
<1>7. \A d \in Calls \ {c} : Same(d)
  BY <1>1, <1>2 DEF IInv, TypeOK, Same
<1>8. FileInv'
  <2>1. SUFFICES ASSUME NEW d \in Calls, opener = d
                 PROVE  /\ srv'[d] = "write" \/ Over(d)'
                        /\ srv'[d] = "write" => 1 .. got'[d] \subseteq file
                        /\ srv'[d] = "ok" => Holds(d)'
    BY <1>1 DEF FileInv
  <2>2. CASE d = c
    <3>1. 1 .. got[c] \subseteq file /\ got[c] = Items - 1 /\ c \in lost'
      BY <1>1, <1>3, <2>1, <2>2, ItemsType DEF IInv, FileInv, TypeOK
    <3>2. Holds(c)'
      BY <1>1, <3>1 DEF Holds
    <3>3. QED
      BY <1>4, <2>2, <3>2 DEF Over
  <2>3. CASE d # c
    <3>1. srv'[d] = srv[d] /\ got'[d] = got[d] /\ (Holds(d) => Holds(d)')
      BY <1>1, <1>7, <2>3 DEF Same, Holds
    <3>2. QED
      BY <2>1, <3>1 DEF IInv, FileInv, Over
  <2>4. QED
    BY <2>2, <2>3
<1>9. Grows
  BY <1>1 DEF Grows, node
<1>10. QED
  BY <1>5, <1>6, <1>7, <1>8, <1>9, OneCall

\* The steps of get_file after the last block.
LEMMA SaveKeeps == ASSUME IInv, NEW c \in Calls, Save(c) PROVE IInv'
BY FailingKeeps, JoinKeeps, CreateKeeps, WriteKeeps, WrittenKeeps, LostKeeps DEF Save

-----------------------------------------------------------------------------
(***************************************************************************)
(* The writer.  It writes no more than was sent, and ends only when the    *)
(* channel is closed and empty.                                            *)
(***************************************************************************)
\* The writer writes an item.
LEMMA WriterStepKeeps == ASSUME IInv, NEW c \in Calls, WriterStep(c) PROVE IInv'
<1>1. /\ writer[c] = "run" /\ Unwritten(c)
      /\ Kind(c) = "stream" => ~Over(c)
      /\ written' = [written EXCEPT ![c] = @ + 1]
      /\ UNCHANGED <<client, req, srv, writer, open, sent, got, disk, node>>
  BY DEF WriterStep
<1>2. sent[c] \in 0 .. Items - 1 /\ written[c] \in 0 .. Items
  BY DEF IInv, TypeOK
<1>3. written[c] < Items /\ written[c] + 1 \in 0 .. Items
  BY <1>1, <1>2, ItemsType DEF Unwritten
<1>4. TypeOK'
  BY <1>1, <1>3 DEF IInv, TypeOK, disk, node
<1>5. \A d \in Calls \ {c} : Same(d)
  BY <1>1 DEF IInv, TypeOK, Same
<1>6. CallInv(c)'
  <2>1. /\ written[c] # Items /\ Kind(c)' = Kind(c) /\ Over(c)' = Over(c) /\ Whole' = Whole
    BY <1>1, <1>2, <1>3, ItemsType DEF Kind, Over, Whole, node
  <2>2. Places(c)'
    BY <1>1, <2>1 DEF IInv, CallInv, Places
  <2>3. WriterInv(c)'
    BY <1>1, <2>1 DEF IInv, CallInv, WriterInv
  <2>4. DoneInv(c)'
    BY <1>1, <2>1 DEF IInv, CallInv, DoneInv, node
  <2>5. QED
    BY <2>2, <2>3, <2>4 DEF CallInv
<1>7. FileInv' /\ Grows
  BY <1>1, <1>5, FileKept DEF Grows, node
<1>8. QED
  BY <1>4, <1>5, <1>6, <1>7, OneCall

\* The writer ends, or has lost its reader.
LEMMA WriterStopKeeps ==
  ASSUME IInv, NEW c \in Calls, WriterFails(c) \/ WriterEnds(c)
  PROVE  IInv'
<1>1. PICK w \in {"done", "dead"} :
         /\ writer' = [writer EXCEPT ![c] = w]
         /\ w = "dead" => Over(c)
         /\ w = "done" => ~Unwritten(c) /\ ~open[c]
         /\ UNCHANGED <<client, req, srv, open, sent, written, got, disk, node>>
  BY DEF WriterFails, WriterEnds
<1>2. TypeOK'
  BY <1>1 DEF IInv, TypeOK, disk, node
<1>3. \A d \in Calls \ {c} : Same(d)
  BY <1>1 DEF IInv, TypeOK, Same
<1>4. writer'[c] = w
  BY <1>1 DEF IInv, TypeOK
<1>5. w = "done" /\ sent[c] = Items - 1 => written[c] = Items
  BY <1>1, ItemsType DEF IInv, TypeOK, Unwritten
<1>6. CallInv(c)'
  <2>1. Kind(c)' = Kind(c) /\ Over(c)' = Over(c) /\ Whole' = Whole
    BY <1>1 DEF Kind, Over, Whole, node
  <2>2. Places(c)' /\ DoneInv(c)'
    BY <1>1, <2>1 DEF IInv, CallInv, Places, DoneInv, node
  <2>3. open[c] => w # "done"
    BY <1>1
  <2>4. WriterInv(c)'
    BY <1>1, <1>4, <1>5, <2>1, <2>3 DEF IInv, CallInv, WriterInv, Over
  <2>5. QED
    BY <2>2, <2>4 DEF CallInv
<1>7. FileInv' /\ Grows
  BY <1>1, <1>3, FileKept DEF Grows, node
<1>8. QED
  BY <1>2, <1>3, <1>6, <1>7, OneCall

\* When the node stops, every call that was not over is reset.
LEMMA StopKeeps == ASSUME IInv, NodeStops PROVE IInv'
<1>1. UNCHANGED <<client, req, disk, store, queued>> /\ loop' = "stopped" /\ up' = FALSE
  BY DEF NodeStops
<1>2. ASSUME NEW c \in Calls
      PROVE  /\ ~open'[c]
             /\ Over(c) => /\ srv'[c] = srv[c] /\ sent'[c] = sent[c]
                           /\ written'[c] = written[c] /\ got'[c] = got[c]
             /\ ~Over(c) => srv'[c] = "reset"
  BY DEF NodeStops
<1>3. TypeOK'
  <2>1. 0 \in 0 .. Items /\ 0 \in 0 .. Items - 1
    BY ItemsType
  <2>2. srv' \in [Calls -> Place] /\ open' \in [Calls -> BOOLEAN]
    BY DEF NodeStops, IInv, TypeOK, Place
  <2>3. writer' \in [Calls -> {"none", "run", "done", "dead"}]
    BY DEF NodeStops, IInv, TypeOK
  <2>4. sent' \in [Calls -> 0 .. Items - 1]
    BY <2>1 DEF NodeStops, IInv, TypeOK
  <2>5. written' \in [Calls -> 0 .. Items] /\ got' \in [Calls -> 0 .. Items]
    BY <2>1 DEF NodeStops, IInv, TypeOK
  <2>6. QED
    BY <1>1, <2>2, <2>3, <2>4, <2>5 DEF IInv, TypeOK, disk, Place
<1>4. FileInv'
  BY <1>1, <1>2 DEF IInv, FileInv, Holds, Over, disk
<1>5. ASSUME NEW c \in Calls PROVE CallInv(c)'
  <2>1. CallInv(c) /\ Kind(c)' = Kind(c) /\ Whole' = Whole
    BY <1>1 DEF IInv, Kind, Whole
  <2>2. Over(c)'
    BY <1>2 DEF Over
  <2>3. Places(c)'
    BY <1>1, <1>2, <2>1 DEF CallInv, Places, Over
  <2>4. WriterInv(c)'
    BY <1>2, <2>2 DEF WriterInv, Over
  <2>5. DoneInv(c)'
    BY <1>1, <1>2, <2>1, <2>2 DEF CallInv, DoneInv, Over
  <2>6. QED
    BY <2>3, <2>4, <2>5 DEF CallInv
<1>6. QED
  BY <1>3, <1>4, <1>5 DEF IInv

\* The end of the loop, and a step that changes nothing.
LEMMA IdleKeeps ==
  ASSUME IInv, LoopEnds \/ UNCHANGED vars
  PROVE  IInv'
<1>1. /\ UNCHANGED <<client, req, srv, car, disk, up, store, queued>>
      /\ loop' \in {"running", "stopped"}
  BY DEF LoopEnds, vars, car, disk, IInv, TypeOK
<1>2. TypeOK'
  BY <1>1 DEF IInv, TypeOK, car, disk
<1>3. FileInv'
  BY <1>1 DEF IInv, FileInv, Holds, Over, car, disk
<1>4. ASSUME NEW c \in Calls PROVE CallInv(c)'
  <2>1. CallInv(c) /\ Same(c) /\ Grows
    BY <1>1 DEF IInv, Same, Grows, car
  <2>2. QED
    BY <2>1, OthersKeep
<1>5. QED
  BY <1>2, <1>3, <1>4 DEF IInv

-----------------------------------------------------------------------------
\* Every step keeps the invariant.
LEMMA NextInv == IInv /\ [Next]_vars => IInv'
<1> SUFFICES ASSUME IInv, [Next]_vars PROVE IInv'
  OBVIOUS
<1>1. ASSUME NEW c \in Calls, Server(c) PROVE IInv'
  BY <1>1, FailingKeeps, AcceptKeeps, PutKeeps, GetKeeps, SaveKeeps DEF Server
<1>2. ASSUME NEW c \in Calls, Writer(c) PROVE IInv'
  BY <1>2, WriterStepKeeps, WriterStopKeeps DEF Writer
<1>3. ASSUME NEW c \in Calls, Client(c) \/ GiveUp(c) PROVE IInv'
  BY <1>3, ClientKeeps, ReadKeeps, EndKeeps DEF Client
<1>4. ASSUME NEW c \in Calls, Abort(c) PROVE IInv'
  BY <1>4, FailingKeeps
<1>5. ASSUME NEW c \in Calls, NEW r \in Request, Call(c, r) PROVE IInv'
  BY <1>5, CallKeeps
<1>6. QED
  BY <1>1, <1>2, <1>3, <1>4, <1>5, StopKeeps, IdleKeeps DEF Next

\* The invariant holds in every state of every behaviour.
LEMMA AlwaysIInv == Spec => []IInv
<1>1. Init => IInv
  BY InitInv
<1>2. IInv /\ [Next]_vars => IInv'
  BY NextInv
<1>3. QED
  BY <1>1, <1>2, PTL DEF Spec

(***************************************************************************)
(* Success is never reported for what was not done: a put has its root     *)
(* queued (the answer to Index comes after the push), a get has the block, *)
(* and a stream that ended or a file that was saved holds the whole CAR,   *)
(* since the walk has found every block before the first is sent and the   *)
(* writer ends only after the last.                                        *)
(***************************************************************************)
THEOREM SuccessIsDone == Spec => []OkIsDone
<1>1. IInv => OkIsDone
  <2> SUFFICES ASSUME IInv, NEW c \in Calls, client[c] = "ok"
               PROVE  CASE Kind(c) \in Puts -> c \in queued
                        [] Kind(c) = "get_cid" -> Root \in store
                        [] Kind(c) = "stream" -> got[c] = Items /\ Blocks \subseteq store
                        [] OTHER -> written[c] = Items /\ Blocks \subseteq store
    BY DEF OkIsDone
  <2>1. srv[c] = "ok" /\ DoneInv(c)
    BY DEF IInv, CallInv, Places
  <2>2. Kind(c) \in Rpc \cup Http
    BY DEF IInv, TypeOK, Kind, Request
  <2>3. QED
    BY <2>1, <2>2 DEF DoneInv, Whole, Rpc, Http, Puts
<1>2. QED
  BY <1>1, AlwaysIInv, PTL

(***************************************************************************)
(* "file stored at" of get_file: the file is the whole CAR if the call     *)
(* that truncated it last says so, although File::create lets any number   *)
(* of calls write to one path; when that call's last write has failed      *)
(* unnoticed, the last part may be missing and nothing else.               *)
(***************************************************************************)
THEOREM StoredFileIsWhole == Spec => []StoredIsWhole
<1>1. IInv => StoredIsWhole
  BY DEF IInv, FileInv, StoredIsWhole
<1>2. QED
  BY <1>1, AlwaysIInv, PTL

=============================================================================
