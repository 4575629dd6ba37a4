----------------------------- MODULE StoreWalk -----------------------------
(***************************************************************************)
(* What the two walks of ursa-store/src/store.rs have in common: a root,   *)
(* and a database that other tasks and threads write to while the walk     *)
(* reads it.                                                               *)
(***************************************************************************)
CONSTANTS
  Cids,    \* the blocks
  BadSets  \* which of them may be bad together, see `bad`

ASSUME BadSetsAssumption == BadSets \subseteq SUBSET Cids

VARIABLES
  bad,     \* the blocks that cannot be opened: bytes that do not match the cid
           \* or do not decode, a hash or codec that libipld does not know
  root,    \* the cid that the walk starts from, its argument
  store,   \* the blocks that are in the database now
  pc       \* "loop", then how the walk has ended

\* A block that was not there is written by somebody else.
PutBlock(c) ==
  /\ c \notin store
  /\ store' = store \cup {c}
  /\ UNCHANGED <<bad, root, pc>>

=============================================================================
