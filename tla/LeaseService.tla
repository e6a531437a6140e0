---------------------------- MODULE LeaseService ----------------------------
(***************************************************************************)
(* What the control plane promises about leases, seen from the side of     *)
(* whoever holds them (docs/architecture.md:59): a holder has one lease at *)
(* a time, and the fencing token of a new lease is higher than any token   *)
(* handed out before.  A lease that has ended never comes back.            *)
(*                                                                         *)
(* NodeControl implements this twice: for matches, and for the server      *)
(* instances they are played on.                                           *)
(***************************************************************************)
EXTENDS Integers

CONSTANT Holder  \* who can hold a lease

VARIABLES
  held,    \* per holder the token of its lease, zero for none
  issued   \* the highest token handed out

leaseVars == <<held, issued>>

Init ==
  /\ held = [h \in Holder |-> 0]
  /\ issued = 0

Grant(h) ==
  /\ held[h] = 0
  /\ issued' = issued + 1
  /\ held' = [held EXCEPT ![h] = issued']

End(h) ==
  /\ held[h] # 0
  /\ held' = [held EXCEPT ![h] = 0]
  /\ UNCHANGED issued

Next == \E h \in Holder : Grant(h) \/ End(h)

Spec == Init /\ [][Next]_leaseVars
=============================================================================
