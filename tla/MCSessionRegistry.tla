------------------------- MODULE MCSessionRegistry -------------------------
(* Small instances of SessionRegistry for TLC.                              *)
EXTENDS SessionRegistry, TLC

CONSTANTS r1, r2, d1, d2

Symmetry == Permutations(Renamers) \cup Permutations(Deleters)
=============================================================================
