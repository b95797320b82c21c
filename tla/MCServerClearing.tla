---------------------------- MODULE MCServerClearing ----------------------------
(* Three tools, interchangeable.                                                *)
EXTENDS ServerClearing, TLC
Tools3 == Permutations(Name)
=============================================================================
