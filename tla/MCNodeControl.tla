--------------------------- MODULE MCNodeControl ---------------------------
(* Small instances of NodeControl for TLC. *)
EXTENDS NodeControl, TLC

CONSTANTS i1, i2, m1, m2

Symmetries == Permutations(Match)
=============================================================================
