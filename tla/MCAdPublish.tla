---------------------------- MODULE MCAdPublish ----------------------------
(***************************************************************************)
(* Instances of AdPublish.                                                 *)
(***************************************************************************)
EXTENDS AdPublish

CONSTANTS p1, p2, p3, r1, r2, r3

\* Three files with one root each.
OneRootEach == [p \in {p1, p2, p3} |-> CASE p = p1 -> <<r1>>
                                         [] p = p2 -> <<r2>>
                                         [] OTHER -> <<r3>>]

\* One chunk and a bit, exactly two chunks, less than a chunk.
Sizes == [r \in {r1, r2, r3} |-> CASE r = r1 -> 3 [] r = r2 -> 4 [] OTHER -> 1]

=============================================================================
