--------------------------- MODULE MCDagTraversal ---------------------------
(***************************************************************************)
(* dag_traversal on every DAG of MaxCid blocks.  A content-addressed graph *)
(* has no cycles, so its blocks can be numbered with every link going to a *)
(* larger number.                                                          *)
(***************************************************************************)
EXTENDS DagTraversal

CONSTANT MaxCid

AllCids == 1..MaxCid

\* No bad block, or any one of them.
OneBad == {{}} \cup {{c} : c \in AllCids}

AllShapes == {g \in [AllCids -> SUBSET AllCids] :
                 \A c \in AllCids : \A d \in g[c] : d > c}

=============================================================================
