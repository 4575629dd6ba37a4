----------------------------- MODULE MCGossip ------------------------------
(***************************************************************************)
(* An instance of Gossip: two nodes that know each other only through a    *)
(* third.                                                                  *)
(***************************************************************************)
EXTENDS Gossip

CONSTANTS a, b, c

Line == {<<a, b>>, <<b, a>>, <<b, c>>, <<c, b>>}

=============================================================================
