---------------------------- MODULE MCHostState ----------------------------
EXTENDS HostState, TLC

CONSTANTS p1, p2, claude, codex_, w1, w2, a

Symmetry == Permutations(Proc) \cup Permutations(Checkout)
============================================================================
