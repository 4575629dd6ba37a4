---------------------------- MODULE DagTraversal ----------------------------
(***************************************************************************)
(* Store::dag_traversal (ursa-store/src/store.rs): the walk that collects  *)
(* every block under a root.  It runs in an RPC task (get_data) or in the  *)
(* network loop (StartPublish), while the database thread of the bitswap   *)
(* engine, and uploads in other tasks, keep inserting blocks in the store  *)
(* it reads: one iteration of its loop is one step here, and inserts may   *)
(* come between any two.                                                   *)
(***************************************************************************)
EXTENDS StoreWalk, Dag, Naturals, Sequences, Functions

CONSTANT Shapes   \* the graphs of links the walk is run on

ASSUME ShapesAssumption == Shapes \subseteq Graph(Cids)

VARIABLES
  links,     \* the links of every block
  current,   \* the worklist, a hash set: its iteration order is arbitrary
  refs,      \* the cids already expanded
  res        \* the blocks collected so far, in order

vars == <<links, bad, root, store, current, refs, res, pc>>

TypeOK ==
  /\ links \in Graph(Cids)
  /\ bad \in SUBSET Cids
  /\ root \in Cids
  /\ store \in SUBSET Cids
  /\ current \in SUBSET Cids
  /\ refs \in SUBSET Cids
  /\ res \in Seq(Cids)
  /\ pc \in {"loop", "ok", "missing", "bad", "unread"}

Init ==
  /\ links \in Shapes
  /\ bad \in BadSets
  /\ root \in Cids
  /\ store \in SUBSET Cids
  /\ current = {root}
  /\ refs = {}
  /\ res = <<>>
  /\ pc = "loop"

\* A block that was expanded already stays in the worklist.
SkipKeeping(c) ==
  /\ c \in refs
  /\ UNCHANGED <<current, refs, res, pc>>

\* `if refs.contains(&cid) { continue }`: a block linked from two places.
Skip(c) ==
  /\ c \in refs
  /\ current' = current \ {c}
  /\ UNCHANGED <<refs, res, pc>>

\* Forgets to record the block as expanded.
ExpandUnmarked(c) ==
  /\ c \notin refs
  /\ c \in store \ bad
  /\ res' = Append(res, c)
  /\ current' = (current \ {c}) \cup links[c]
  /\ UNCHANGED <<refs, pc>>

\* Replaces the worklist instead of extending it.
ExpandReplacing(c) ==
  /\ c \notin refs
  /\ c \in store \ bad
  /\ res' = Append(res, c)
  /\ current' = links[c]
  /\ refs' = refs \cup {c}
  /\ UNCHANGED pc

\* The block is read: it is collected and its links join the worklist.
Expand(c) ==
  /\ c \notin refs
  /\ c \in store \ bad
  /\ res' = Append(res, c)
  /\ current' = (current \ {c}) \cup links[c]
  /\ refs' = refs \cup {c}
  /\ UNCHANGED pc

\* Fails on a block that it has met before, too.
FailOnRevisit(c) ==
  /\ c \in refs \/ c \notin store
  /\ pc' = "missing"
  /\ current' = current \ {c}
  /\ UNCHANGED <<refs, res>>

\* The block is not in the store: "Some of the cids for root is missing".
Fail(c) ==
  /\ c \notin refs
  /\ c \notin store
  /\ pc' = "missing"
  /\ current' = current \ {c}
  /\ UNCHANGED <<refs, res>>

\* The block is there and cannot be opened: Block::new panics (`unwrap`) or
\* references fails (`?`).  What was collected is dropped with the call.
Spoil(c) ==
  /\ c \notin refs
  /\ c \in store \cap bad
  /\ pc' = "bad"
  /\ current' = current \ {c}
  /\ UNCHANGED <<refs, res>>

\* One iteration of `while let Some(cid) = current.iter().next()`.
Iterate ==
  /\ pc = "loop"
  /\ \E c \in current : Skip(c) \/ Expand(c) \/ Fail(c) \/ Spoil(c)
  /\ UNCHANGED <<links, bad, root, store>>

\* The database fails to read the block (`get(..)?`), whether it is there or
\* not.
Unread(c) ==
  /\ pc = "loop"
  /\ c \in current \ refs
  /\ pc' = "unread"
  /\ current' = current \ {c}
  /\ UNCHANGED <<links, bad, root, store, refs, res>>

\* The worklist is empty: `Ok(res)`.
Finish ==
  /\ pc = "loop"
  /\ current = {}
  /\ pc' = "ok"
  /\ UNCHANGED <<links, bad, root, store, current, refs, res>>

\* Another thread writes a block (BitswapStore::insert, or load_car).
Insert(c) == PutBlock(c) /\ UNCHANGED <<links, current, refs, res>>

Next == Iterate \/ Finish \/ \E c \in Cids : Unread(c) \/ Insert(c)

\* The walk runs to its end: nothing in its loop waits.  It does not need a
\* failing read to end.
Spec == Init /\ [][Next]_vars /\ WF_vars(Iterate \/ Finish)

-----------------------------------------------------------------------------
(***************************************************************************)
(* The loop's invariant: everything met so far belongs to the DAG, every   *)
(* link of an expanded block is expanded or waiting, and the root is one   *)
(* of them.  This is what makes an empty worklist mean "complete", also    *)
(* when the store grows during the walk.                                   *)
(***************************************************************************)
WorklistInv ==
  /\ Range(res) = refs
  /\ refs \subseteq store \ bad
  /\ refs \cup current \subseteq Reach(links, root)
  /\ pc \in {"loop", "ok"} => /\ root \in refs \cup current
                              /\ \A c \in refs : links[c] \subseteq refs \cup current
  /\ pc = "ok" => current = {}

(***************************************************************************)
(* When dag_traversal returns Ok it returns exactly the blocks of the DAG  *)
(* under the root, whatever was inserted while it ran and in whatever      *)
(* order the hash set was iterated, and opened every one of them (the CAR  *)
(* file and the index advertisement are built from this list).             *)
(***************************************************************************)
OkMeansWholeDag ==
  pc = "ok" => Range(res) = Reach(links, root) /\ Range(res) \cap bad = {}

(***************************************************************************)
(* No block is collected twice, also when several blocks link to it: the   *)
(* CAR file that get_file and stream write has each block once.            *)
(***************************************************************************)
NoBlockTwice == IsInjective(res)

(***************************************************************************)
(* The reason the walk gives for failing is true at that moment, whatever  *)
(* stale worklist it has: "some of the cids is missing" is said only while *)
(* a block of the DAG is absent, and it gives up on a block that cannot be *)
(* opened only when such a block of the DAG is in the store.  So on a      *)
(* complete DAG of good blocks only a failing read makes get_data and      *)
(* StartPublish fail.                                                      *)
(***************************************************************************)
FailsForItsReason ==
  [][pc = "loop" => /\ pc' = "missing" => ~(Reach(links, root) \subseteq store)
                    /\ pc' = "bad" => Reach(links, root) \cap store \cap bad # {}]_vars

(***************************************************************************)
(* The walk always ends, on diamonds as on chains.                         *)
(***************************************************************************)
Terminates == <>(pc # "loop")

=============================================================================
