----------------------------- MODULE MCNodeAgent -----------------------------
(* NodeAgent on small instances. *)
EXTENDS NodeAgent
=============================================================================
