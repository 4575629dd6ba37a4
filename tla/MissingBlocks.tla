--------------------------- MODULE MissingBlocks ---------------------------
(***************************************************************************)
(* BitswapStorage::missing_blocks (ursa-store/src/store.rs): the walk with *)
(* which a sync query of the bitswap engine finds out what to ask for      *)
(* next.  It keeps a stack and, unlike dag_traversal, no set of visited    *)
(* blocks.  It runs in the engine's database thread; uploads insert blocks *)
(* while it runs.                                                          *)
(***************************************************************************)
EXTENDS StoreWalk, Dag, Naturals, Sequences, Functions

CONSTANT Lists   \* per block, the list of its links, repetitions included

ASSUME ListsAssumption == Lists \subseteq [Cids -> Seq(Cids)]

VARIABLES
  lists,    \* the links of every block, in the order of its bytes
  before,   \* the blocks that were in the database when the call began
  stack,    \* the blocks to look at, the next one last
  missing   \* the result so far

missingVars == <<lists, bad, root, before, store, stack, missing, pc>>

\* The graph of the links.
Links == [c \in Cids |-> Range(lists[c])]

MissingTypeOK ==
  /\ lists \in [Cids -> Seq(Cids)]
  /\ bad \in SUBSET Cids
  /\ root \in Cids
  /\ before \in SUBSET Cids
  /\ store \in SUBSET Cids
  /\ stack \in Seq(Cids)
  /\ missing \in Seq(Cids)
  /\ pc \in {"loop", "done", "err"}

MissingInit ==
  /\ lists \in Lists
  /\ bad \in BadSets
  /\ root \in Cids
  /\ before \in SUBSET Cids
  /\ store = before
  /\ stack = <<root>>
  /\ missing = <<>>
  /\ pc = "loop"

Top  == stack[Len(stack)]
Rest == SubSeq(stack, 1, Len(stack) - 1)

\* The links of the block replace what is left on the stack.
OpenDropping ==
  /\ Top \in store \ bad
  /\ stack' = lists[Top]
  /\ UNCHANGED <<missing, pc>>

\* The block stays on the stack.
OpenKeeping ==
  /\ Top \in store \ bad
  /\ stack' = stack \o lists[Top]
  /\ UNCHANGED <<missing, pc>>

\* The block is there: `block.references(&mut stack)`.
Open ==
  /\ Top \in store \ bad
  /\ stack' = Rest \o lists[Top]
  /\ UNCHANGED <<missing, pc>>

\* A missing block ends the walk.
ReportAndLeave ==
  /\ Top \notin store
  /\ missing' = Append(missing, Top)
  /\ stack' = <<>>
  /\ UNCHANGED pc

\* The block is not there: `missing.push(cid)`.
Report ==
  /\ Top \notin store
  /\ missing' = Append(missing, Top)
  /\ stack' = Rest
  /\ UNCHANGED pc

\* The block does not decode (`references(..)?`): no result.
Spoilt ==
  /\ Top \in store \cap bad
  /\ pc' = "err"
  /\ stack' = Rest
  /\ UNCHANGED missing

\* One iteration of `while let Some(cid) = stack.pop()`.
Pop ==
  /\ pc = "loop"
  /\ stack # <<>>
  /\ Open \/ Report \/ Spoilt
  /\ UNCHANGED <<lists, bad, root, before, store>>

\* The database fails to read the block: the call panics (`unwrap` in get).
ReadFails ==
  /\ pc = "loop"
  /\ stack # <<>>
  /\ pc' = "err"
  /\ stack' = Rest
  /\ UNCHANGED <<lists, bad, root, before, store, missing>>

Return ==
  /\ pc = "loop"
  /\ stack = <<>>
  /\ pc' = "done"
  /\ UNCHANGED <<lists, bad, root, before, store, stack, missing>>

\* An upload writes a block meanwhile.
Upload(c) == PutBlock(c) /\ UNCHANGED <<lists, before, stack, missing>>

MissingNext == Pop \/ ReadFails \/ Return \/ \E c \in Cids : Upload(c)

\* Nothing in the loop waits, and it does not need a failing read to end.
MissingSpec == MissingInit /\ [][MissingNext]_missingVars /\ WF_missingVars(Pop \/ Return)

-----------------------------------------------------------------------------
(***************************************************************************)
(* Nothing is overlooked: as long as the walk has not failed, a block of   *)
(* the DAG is stored, or lies under a block reported or still on the       *)
(* stack.  When the stack is empty the sync query therefore knows all it   *)
(* has to ask for, also when blocks were inserted behind the walk's back.  *)
(***************************************************************************)
NothingOverlooked ==
  pc # "err" => \A d \in Reach(Links, root) :
     \/ d \in store
     \/ \E m \in Range(missing) \cup Range(stack) : d \in Reach(Links, m)

(***************************************************************************)
(* Without inserts the result is exactly the reference MissingIn, which    *)
(* module BitswapFetch uses for this walk: no more than is absent, so that *)
(* a sync never asks its peers for what the node has, and no less.         *)
(***************************************************************************)
ExactWhenQuiet ==
  pc = "done" /\ store = before => Range(missing) = MissingIn(Links, root, store)

(***************************************************************************)
(* The walk ends although it keeps no visited set: a block is walked once  *)
(* per path to it, and a content-addressed graph has no cycles.            *)
(***************************************************************************)
WalkEnds == <>(pc # "loop")

=============================================================================
