---------------------------- MODULE MCRedisQueue ----------------------------
(* Small instances of RedisQueue for TLC. *)
EXTENDS RedisQueue, TLC

CONSTANTS p1, p2, p3, lobby

Solo(p) == [party |-> NoParty, leader |-> p, members |-> {p}]

\* A Steam lobby led by p1 with p2, and everybody alone.
LobbyGroups ==
  {Solo(p) : p \in Player}
    \cup {[party |-> lobby, leader |-> p1, members |-> {p1, p2}]}

SoloGroups == {Solo(p) : p \in Player}

Symmetry == Permutations(MatchId) \cup Permutations(Worker)
=============================================================================
