--------------------------- MODULE MCBitswapFetch ---------------------------
(***************************************************************************)
(* Instances of BitswapFetch: calls race for the same few blocks.          *)
(***************************************************************************)
EXTENDS BitswapFetch

CONSTANTS r, a, b     \* blocks

\* A root with one child.
Pair == [k \in {r, a} |-> IF k = r THEN {a} ELSE {}]

\* A chain of three: a root, its child and its grandchild.
Chain == [k \in {r, a, b} |-> CASE k = r -> {a} [] k = a -> {b} [] OTHER -> {}]

=============================================================================
