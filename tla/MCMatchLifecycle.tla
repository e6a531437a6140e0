-------------------------- MODULE MCMatchLifecycle --------------------------
(* Small instances of MatchLifecycle for TLC. *)
EXTENDS MatchLifecycle, TLC

MatchSymmetry == Permutations(Match)
=============================================================================
