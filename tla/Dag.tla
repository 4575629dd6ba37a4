-------------------------------- MODULE Dag --------------------------------
(***************************************************************************)
(* The content-addressed graph that every other module talks about.  A     *)
(* block is named by its cid; `links` gives the cids its bytes refer to    *)
(* (libipld's Block::references).  A block's bytes, and so its links, are  *)
(* fixed by its cid: a node that holds a block knows its links, a node     *)
(* that does not hold it knows nothing of them.                            *)
(*                                                                         *)
(* The operators below are the REFERENCE results of the two graph walks of *)
(* ursa-store/src/store.rs; modules DagTraversal and MissingBlocks show    *)
(* that the loops of the code compute them.                                *)
(***************************************************************************)
\* Every way of linking the blocks.
Graph(cids) == [cids -> SUBSET cids]

\* S holds the links of every one of its blocks that is in the store st.
ClosedUnder(links, S, st) == \A c \in S \cap st : links[c] \subseteq S

(***************************************************************************)
(* What a walk from root can meet when it can only open the blocks of st:  *)
(* the least set that holds root and is closed.  It is defined as an       *)
(* intersection, not by recursion, so that the proofs need no induction    *)
(* over paths.                                                             *)
(***************************************************************************)
ReachIn(links, root, st) ==
  {d \in DOMAIN links : \A S \in SUBSET DOMAIN links :
                           root \in S /\ ClosedUnder(links, S, st) => d \in S}

\* The whole DAG under root.
Reach(links, root) == ReachIn(links, root, DOMAIN links)

\* The result of Store::missing_blocks on a store that does not change.
MissingIn(links, root, st) == ReachIn(links, root, st) \ st

\* Store::dag_traversal succeeds on a store that does not change.
DagPresent(links, root, st) == ReachIn(links, root, st) \subseteq st

=============================================================================
