----------------------------- MODULE AdPublish -----------------------------
(***************************************************************************)
(* How uploaded content gets advertised to the indexer: put_car            *)
(* (ursa-rpc-server/src/api.rs) loads a CAR file and sends an Index        *)
(* command; the network loop (ursa-network/src/service.rs) queues the root *)
(* and, when the node has a public address, walks the queue, building for  *)
(* every root an advertisement with the index provider                     *)
(* (ursa-index-provider/src/provider.rs), whose HTTP server lets an        *)
(* indexer read the head of the chain of advertisements.                   *)
(*                                                                         *)
(* The queue of roots and the head live in memory; blocks, and so the      *)
(* advertisements themselves, are in the database and survive a restart.   *)
(***************************************************************************)
EXTENDS Naturals, Sequences, FiniteSets, Functions

CONSTANTS
  Puts,         \* the calls of put_car
  Roots,        \* the root cids
  RootsOf,      \* per call, the roots of its CAR file, in order
  Whole,        \* the roots whose CAR file carries their whole DAG
  Size,         \* per root, the number of blocks of its DAG
  MaxEntries,   \* MAX_ENTRIES of an EntryChunk
  Faults,       \* whether the database, or the encoding of a value, may fail
  MaxNatChanges, MaxRestarts   \* bounds, for model checking

ASSUME RootsOfAssumption == RootsOf \in [Puts -> Seq(Roots) \ {<<>>}]
ASSUME WholeAssumption == Whole \subseteq Roots
ASSUME SizeAssumption == Size \in [Roots -> Nat \ {0}]
ASSUME MaxEntriesAssumption == MaxEntries \in Nat \ {0}
ASSUME FaultsAssumption == Faults \in BOOLEAN
ASSUME BoundsAssumption == MaxNatChanges \in Nat /\ MaxRestarts \in Nat

NoRoot == "no root"

VARIABLES
  put,        \* where each call is
  commands,   \* the Index commands in the channel
  nat,        \* autonat's status, as public_address() sees it
  changes,    \* how often it changed (bound)
  events,     \* Behaviour::events
  root_cids,  \* Provider::root_cids
  loop,       \* where the network loop is
  cur,        \* the root being advertised
  entries,    \* how many of its blocks the chunks of its draft hold
  prev,       \* the head that publish has taken
  head,       \* Provider::head, 0 for None
  ads,        \* the advertisements in the database
  session,    \* how many of them are from before the last restart
  seen,       \* the head that the indexer last read
  restarts    \* how often the node restarted (bound)

vars == <<put, commands, nat, changes, events, root_cids, loop, cur, entries, prev,
          head, ads, session, seen, restarts>>
provider == <<cur, entries, prev, head, ads>>
env == <<nat, changes, session, seen, restarts>>

\* An advertisement: its ContextID is the root, its Entries the chunks, its
\* PreviousID the one before (0 for none).
Ad == [root : Roots, entries : Nat, prev : Nat]

TypeOK ==
  /\ put \in [Puts -> {"idle", "loaded", "sent", "ok", "err"}]
  /\ commands \in Seq(Puts)
  /\ nat \in {"unknown", "private", "public"}
  /\ changes \in 0 .. MaxNatChanges
  /\ events \in Seq({"natPublic", "natOther", "publish"})
  /\ root_cids \in Seq(Roots)
  /\ loop \in {"idle", "take", "walk", "chunk", "sign", "announce", "stopped"}
  /\ cur \in Roots \cup {NoRoot}
  /\ entries \in Nat
  /\ prev \in Nat
  /\ head \in Nat
  /\ ads \in Seq(Ad)
  /\ session \in Nat
  /\ seen \in Nat
  /\ restarts \in 0 .. MaxRestarts

Init ==
  /\ put = [p \in Puts |-> "idle"]
  /\ commands = <<>>
  /\ nat = "unknown"
  /\ changes = 0
  /\ events = <<>>
  /\ root_cids = <<>>
  /\ loop = "idle"
  /\ cur = NoRoot
  /\ entries = 0
  /\ prev = 0
  /\ head = 0
  /\ ads = <<>>
  /\ session = 0
  /\ seen = 0
  /\ restarts = 0

-----------------------------------------------------------------------------
(***************************************************************************)
(* put_car.                                                                *)
(***************************************************************************)
\* load_car has written the blocks of the file to the store.
Load(p) ==
  /\ put[p] = "idle"
  /\ put' = [put EXCEPT ![p] = "loaded"]
  /\ UNCHANGED <<commands, events, root_cids, loop, provider, env>>

\* The Index command is sent; the channel is closed once the loop has ended.
Send(p) ==
  /\ put[p] = "loaded"
  /\ IF loop = "stopped"
       THEN put' = [put EXCEPT ![p] = "err"] /\ UNCHANGED commands
       ELSE put' = [put EXCEPT ![p] = "sent"] /\ commands' = Append(commands, p)
  /\ UNCHANGED <<events, root_cids, loop, provider, env>>

-----------------------------------------------------------------------------
(***************************************************************************)
(* The network loop: the Index command and the NAT events.                 *)
(***************************************************************************)
\* The root is queued, and nothing more.
WhenPublicNothing == events

\* publish_ad pushes StartPublish; only with a public address at hand.
WhenPublic == IF nat = "public" THEN Append(events, "publish") ELSE events

\* Only the first root is queued; publish_ad if there is a public address.
IndexCommand ==
  /\ loop = "idle"
  /\ commands # <<>>
  /\ LET p == Head(commands)
     IN  /\ root_cids' = Append(root_cids, Head(RootsOf[p]))
         /\ put' = [put EXCEPT ![p] = "ok"]
  /\ commands' = Tail(commands)
  /\ events' = WhenPublic
  /\ UNCHANGED <<loop, provider, env>>

\* autonat changes its mind; handle_autonat queues the event.
NatChange(status) ==
  /\ loop = "idle"
  /\ changes < MaxNatChanges
  /\ status # nat \/ status = "public"      \* also from one address to another
  /\ changes' = changes + 1
  /\ nat' = status
  /\ events' = Append(events, IF status = "public" THEN "natPublic" ELSE "natOther")
  /\ UNCHANGED <<put, commands, root_cids, loop, provider, session, seen, restarts>>

\* NatStatusChanged: to Public starts publishing; the others queue nothing
\* (on a private address the node may listen on a relay, left out here).
HandleNat ==
  /\ loop = "idle"
  /\ events # <<>>
  /\ Head(events) # "publish"
  /\ events' = IF Head(events) = "natPublic" THEN Append(Tail(events), "publish")
                                             ELSE Tail(events)
  /\ UNCHANGED <<put, commands, root_cids, loop, provider, env>>

-----------------------------------------------------------------------------
(***************************************************************************)
(* StartPublish: one advertisement for every root of the queue.  The loop  *)
(* awaits between these steps, so the HTTP server runs in between.         *)
(***************************************************************************)
StartPublish ==
  /\ loop = "idle"
  /\ events # <<>>
  /\ Head(events) = "publish"
  /\ events' = Tail(events)
  /\ loop' = "take"
  /\ UNCHANGED <<put, commands, root_cids, provider, env>>

\* `while !cid_queue.is_empty()`: pop a root, Provider::create a draft.
TakeRoot ==
  /\ loop = "take"
  /\ IF root_cids = <<>>
       THEN loop' = "idle" /\ UNCHANGED <<root_cids, cur, entries>>
       ELSE /\ cur' = Head(root_cids)
            /\ root_cids' = Tail(root_cids)
            /\ entries' = 0
            /\ loop' = "walk"
  /\ UNCHANGED <<put, commands, events, prev, head, ads, env>>

\* `dag_traversal(..)?`: an incomplete DAG ends the whole network loop.
WalkDag ==
  /\ loop = "walk"
  /\ loop' = IF cur \in Whole THEN "chunk" ELSE "stopped"
  /\ UNCHANGED <<put, commands, events, root_cids, provider, env>>

\* Only full chunks are written.
ChunkOfFull(rest) == IF rest < MaxEntries THEN 0 ELSE MaxEntries

\* The length of the next of `entries.chunks(MAX_ENTRIES)`, 0 after the last.
ChunkOf(rest) == IF rest < MaxEntries THEN rest ELSE MaxEntries

\* Provider::add_chunk: a chunk is stored and linked from the draft.
AddChunk ==
  /\ loop = "chunk"
  /\ ChunkOf(Size[cur] - entries) > 0
  /\ entries' = entries + ChunkOf(Size[cur] - entries)
  /\ UNCHANGED <<put, commands, events, root_cids, loop, cur, prev, head, ads, env>>

\* dag_traversal and to_vec return their error from the loop; an error of
\* add_chunk makes it panic (`expect`).
BuildFails ==
  /\ Faults
  /\ \/ loop = "walk"
     \/ loop = "chunk" /\ ChunkOf(Size[cur] - entries) > 0
  /\ loop' = "stopped"
  /\ UNCHANGED <<put, commands, events, root_cids, provider, env>>

\* Provider::publish locks the head and takes it.
TakeHead ==
  /\ loop = "chunk"
  /\ ChunkOf(Size[cur] - entries) = 0
  /\ prev' = head
  /\ head' = 0
  /\ loop' = "sign"
  /\ UNCHANGED <<put, commands, events, root_cids, cur, entries, ads, env>>

\* The previous head is not linked: it was taken before.
PublishUnlinked ==
  /\ loop = "sign"
  /\ ads' = Append(ads, [root |-> cur, entries |-> entries, prev |-> head])
  /\ head' = Len(ads')
  /\ prev' = 0
  /\ loop' = "announce"
  /\ UNCHANGED <<put, commands, events, root_cids, cur, entries, env>>

\* publish: link, sign and store the draft; set the head; unlock.
Publish ==
  /\ loop = "sign"
  /\ ads' = Append(ads, [root |-> cur, entries |-> entries, prev |-> prev])
  /\ head' = Len(ads')
  /\ prev' = 0
  /\ loop' = "announce"
  /\ UNCHANGED <<put, commands, events, root_cids, cur, entries, env>>

\* sign, to_ipld or put_obj fails: publish returns the error and unlocks the
\* head, which stays empty, and the loop panics (`expect`); the HTTP server
\* is another task and goes on.
PublishFails ==
  /\ Faults
  /\ loop = "sign"
  /\ prev' = 0
  /\ loop' = "stopped"
  /\ UNCHANGED <<put, commands, events, root_cids, cur, entries, head, ads, env>>

\* One root of the queue is advertised per StartPublish.
AnnounceAndLeave ==
  /\ loop = "announce"
  /\ cur' = NoRoot
  /\ entries' = 0
  /\ loop' = "idle"
  /\ UNCHANGED <<put, commands, events, root_cids, prev, head, ads, env>>

\* Gossip, or HTTP when gossip fails; a failure of both is only logged.
Announce ==
  /\ loop = "announce"
  /\ cur' = NoRoot
  /\ entries' = 0
  /\ loop' = "take"
  /\ UNCHANGED <<put, commands, events, root_cids, prev, head, ads, env>>

-----------------------------------------------------------------------------
\* The head is not protected while publish works on it.
HeadAlwaysFree == TRUE

\* The head can be read: publish does not hold its lock.
HeadFree == loop # "sign"

\* GET /head, by the indexer; 0 is "No head found".
ReadHead ==
  /\ HeadFree
  /\ head # seen
  /\ seen' = head
  /\ UNCHANGED <<put, commands, nat, changes, events, root_cids, loop, provider,
                 session, restarts>>

\* The node stops, at any point, and starts again: its memory is lost.
Restart ==
  /\ restarts < MaxRestarts
  /\ restarts' = restarts + 1
  /\ put' = [p \in Puts |-> IF put[p] \in {"loaded", "sent"} THEN "err" ELSE put[p]]
  /\ commands' = <<>>
  /\ nat' = "unknown"
  /\ events' = <<>>
  /\ root_cids' = <<>>
  /\ loop' = "idle"
  /\ cur' = NoRoot
  /\ entries' = 0
  /\ prev' = 0
  /\ head' = 0
  /\ session' = Len(ads)
  /\ seen' = 0
  /\ UNCHANGED <<ads, changes>>

LoopStep ==
  \/ IndexCommand \/ HandleNat \/ StartPublish
  \/ TakeRoot \/ WalkDag \/ AddChunk \/ TakeHead \/ Publish \/ Announce
  \/ BuildFails \/ PublishFails

Next ==
  \/ \E p \in Puts : Load(p) \/ Send(p)
  \/ \E status \in {"private", "public"} : NatChange(status)
  \/ LoopStep
  \/ ReadHead
  \/ Restart

(***************************************************************************)
(* The loop is a task that is always scheduled; of its two sources neither *)
(* is starved, as select! picks at random.                                 *)
(***************************************************************************)
Spec ==
  /\ Init /\ [][Next]_vars
  /\ WF_vars(HandleNat \/ StartPublish)
  /\ WF_vars(TakeRoot \/ WalkDag \/ AddChunk \/ TakeHead \/ Publish \/ Announce)

-----------------------------------------------------------------------------
\* The advertisements of this run of the node.
Current == session + 1 .. Len(ads)
Advertised(r) == \E i \in Current : ads[i].root = r
Pending(r) == loop # "stopped" /\ (r \in Range(root_cids) \/ r = cur)

(***************************************************************************)
(* No root is left behind: while the node has a public address and roots   *)
(* are queued, an event that will make the loop publish them is queued, or *)
(* it is publishing.  The root may have been queued before or after        *)
(* autonat found the address, and before or after the loop heard of it.    *)
(***************************************************************************)
NoStrandedRoot ==
  nat = "public" /\ root_cids # <<>> /\ loop = "idle"
    => \E e \in Range(events) : e \in {"natPublic", "publish"}

(***************************************************************************)
(* The chain the indexer walks is whole: from the head it meets, in order, *)
(* every advertisement published since the node started, and no other.     *)
(* The one exception is a publish that failed with the head in its hands   *)
(* (provider.rs: the errors between head.take() and the new head): the     *)
(* loop has ended then and there is no head, but the links stay right.     *)
(***************************************************************************)
ChainIsWhole ==
  /\ HeadFree => \/ head = IF Current = {} THEN 0 ELSE Len(ads)
                 \/ loop = "stopped" /\ head = 0
  /\ \A i \in Current : ads[i].prev = IF i = session + 1 THEN 0 ELSE i - 1

(***************************************************************************)
(* An advertisement lists every block of its DAG, whatever the number of   *)
(* chunks, and is published only for a DAG that is wholly in the store.    *)
(***************************************************************************)
AdsListWholeDags ==
  \A i \in DOMAIN ads : ads[i].root \in Whole /\ ads[i].entries = Size[ads[i].root]

(***************************************************************************)
(* Until the node restarts, an indexer that has seen a head never reads an *)
(* older one; and it reads none only when a publish has failed and ended   *)
(* the loop, never because a publish is under way.                         *)
(***************************************************************************)
HeadNeverGoesBack ==
  [][restarts' = restarts => \/ seen' >= seen
                             \/ seen' = 0 /\ loop = "stopped"]_vars

(***************************************************************************)
(* A queued root is advertised once the node has a public address, unless  *)
(* the loop ends or the node restarts first; also when the address is lost *)
(* again meanwhile.                                                        *)
(***************************************************************************)
QueuedIsAdvertised ==
  \A r \in Roots :
     nat = "public" /\ r \in Range(root_cids)
       ~> Advertised(r) \/ loop = "stopped" \/ restarts > 0

(***************************************************************************)
(* What the interface says of put_car (ursa-rpc-server/src/api.rs: "Put a  *)
(* car file and start providing to the network"): after Ok, every root of  *)
(* the file that is whole has been advertised or is going to be.  The code *)
(* does NOT guarantee it: see the run put_provides.                        *)
(***************************************************************************)
PutProvides ==
  \A p \in Puts : put[p] = "ok" /\ restarts = 0
     => \A r \in Range(RootsOf[p]) \cap Whole : Advertised(r) \/ Pending(r)

=============================================================================
