--------------------------- MODULE MCMissingBlocks ---------------------------
(***************************************************************************)
(* missing_blocks on every DAG of MaxCid blocks with at most MaxLinks      *)
(* links per block; a block may link to another one several times.         *)
(***************************************************************************)
EXTENDS MissingBlocks

CONSTANTS MaxCid, MaxLinks

AllCids == 1..MaxCid

\* No bad block, or the last one, which several blocks may link to.
LastBad == {{}, {MaxCid}}

\* The lists of links of block c, to blocks with larger numbers only.
ListsOf(c) == UNION {[1..n -> c + 1 .. MaxCid] : n \in 0..MaxLinks}

AllLists == {g \in [AllCids -> UNION {ListsOf(c) : c \in AllCids}] :
                 \A c \in AllCids : g[c] \in ListsOf(c)}

=============================================================================
