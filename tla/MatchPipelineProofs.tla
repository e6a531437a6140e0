------------------------- MODULE MatchPipelineProofs -------------------------
(***************************************************************************)
(* Players are sent to a match only while its reservation stands and its   *)
(* server is leased, for every number of API processes, matches, servers   *)
(* and faults.                                                             *)
(***************************************************************************)
EXTENDS MatchPipeline, SequenceTheorems, TLAPS

Reservations == {"none", "pending", "live", "cancelled", "over"}
Stages == {"none", "ready", "allocating", "assigned", "cancelled", "over"}
Leases == {"none", "active", "released"}
MakerPass == [pc : {"idle", "claim", "release", "cancel"}, match : Match \cup {"none"}]
CancellerPass == Pass({"idle", "release", "cancel", "acknowledge"}, SUBSET Match)
FinalizerPass == Pass({"idle", "next", "read", "lease", "grant", "deliver"}, Seq(Match))

\* One pass reserves a match, and has its tickets to itself until it claims them.
OneMaker ==
  /\ \A p, q \in Process : maker[p].pc # "idle" /\ maker[q].pc # "idle" /\ p # q => maker[p].match # maker[q].match
  /\ \A p \in Process : maker[p].pc # "idle" => maker[p].match \in Match /\ reservation[maker[p].match] # "none"
  /\ \A p \in Process : maker[p].pc = "claim" =>
       stage[maker[p].match] = "none" /\ reservation[maker[p].match] = "pending"

\* A reservation is given up only for a match without a live ready check.
AbortedIsNotReady ==
  \A p \in Process : maker[p].pc \in {"release", "cancel"} =>
    stage[maker[p].match] = "none" \/ maker[p].match \in unanswered

Unreserved == \A m \in Match : reservation[m] = "none" => stage[m] = "none"

CancelledForGood ==
  /\ \A m \in outbox : stage[m] = "cancelled"
  /\ \A p \in Process : canceller[p].pc # "idle" =>
       /\ canceller[p].match \in Match /\ stage[canceller[p].match] = "cancelled"
       /\ \A m \in canceller[p].todo : stage[m] = "cancelled"

LiveIsPending ==
  \A m \in Match : stage[m] \in {"ready", "allocating"} /\ m \notin unanswered => reservation[m] = "pending"

Accepted(m) == stage[m] \notin {"none", "ready"}

FinalizedIsAccepted ==
  /\ \A k \in DOMAIN finalizations : Accepted(finalizations[k])
  /\ \A p \in Process :
       /\ \A k \in DOMAIN finalizer[p].todo : Accepted(finalizer[p].todo[k])
       /\ finalizer[p].pc \in {"read", "lease", "grant", "deliver"} => finalizer[p].match \in Match /\ Accepted(finalizer[p].match)

DeliversLeased ==
  \A p \in Process : LET m == finalizer[p].match IN
    finalizer[p].pc = "deliver" /\ stage[m] = "allocating" /\ m \notin unanswered => server[m] = "active"

PipelineIInv ==
  /\ PipelineTypeOK /\ OneMaker /\ AbortedIsNotReady /\ Unreserved /\ CancelledForGood
  /\ LiveIsPending /\ FinalizedIsAccepted /\ DeliversLeased

LEMMA NoneIsNoMatch == "none" \notin Match
BY PipelineAssumption

LEMMA TodoIs ==
  ASSUME PipelineTypeOK, NEW p \in Process
  PROVE  /\ finalizer[p].todo \in Seq(Match) /\ canceller[p].todo \subseteq Match
         /\ \A k \in DOMAIN finalizer[p].todo : finalizer[p].todo[k] \in Match
<1>1. finalizer[p].todo \in Seq(Match) /\ canceller[p].todo \subseteq Match
  BY DEF PipelineTypeOK, Pass
<1>. QED
  BY <1>1, ElementOfSeq, LenProperties

\* Whatever a list or a pass names is a match.
LEMMA Located ==
  ASSUME PipelineIInv
  PROVE  /\ outbox \subseteq Match
         /\ \A k \in DOMAIN finalizations : finalizations[k] \in Match
         /\ \A q \in Process :
              /\ maker[q].pc # "idle" => maker[q].match \in Match
              /\ canceller[q].pc # "idle" => canceller[q].match \in Match
              /\ canceller[q].todo \subseteq Match
              /\ finalizer[q].pc \in {"read", "lease", "grant", "deliver"} => finalizer[q].match \in Match
              /\ \A k \in DOMAIN finalizer[q].todo : finalizer[q].todo[k] \in Match
<1>1. PipelineTypeOK /\ OneMaker /\ CancelledForGood /\ FinalizedIsAccepted
  BY DEF PipelineIInv
<1>2. \A k \in DOMAIN finalizations : finalizations[k] \in Match
  BY <1>1, ElementOfSeq, LenProperties DEF PipelineTypeOK
<1>3. \A q \in Process : /\ canceller[q].todo \subseteq Match
                         /\ \A k \in DOMAIN finalizer[q].todo : finalizer[q].todo[k] \in Match
  BY <1>1, TodoIs
<1>. QED
  BY <1>1, <1>2, <1>3 DEF PipelineTypeOK, OneMaker, CancelledForGood, FinalizedIsAccepted

LEMMA TailOf ==
  ASSUME NEW s \in Seq(Match), s # <<>>
  PROVE  /\ Head(s) \in Match /\ Tail(s) \in Seq(Match)
         /\ \E k \in DOMAIN s : s[k] = Head(s)
         /\ \A k \in DOMAIN Tail(s) : \E j \in DOMAIN s : Tail(s)[k] = s[j]
<1>1. /\ Head(s) \in Match /\ Tail(s) \in Seq(Match) /\ Len(s) \in Nat /\ Len(s) > 0
      /\ Head(s) = s[1] /\ DOMAIN s = 1..Len(s) /\ DOMAIN Tail(s) = 1..(Len(s) - 1)
      /\ \A k \in 1..(Len(s) - 1) : Tail(s)[k] = s[k + 1]
  BY HeadTailProperties, LenProperties, EmptySeq
<1>. QED
  BY <1>1

LEMMA AppendOf ==
  ASSUME NEW s \in Seq(Match), NEW m \in Match
  PROVE  /\ Append(s, m) \in Seq(Match)
         /\ \A k \in DOMAIN Append(s, m) : Append(s, m)[k] = m \/ \E j \in DOMAIN s : Append(s, m)[k] = s[j]
BY AppendProperties, LenProperties

LEMMA RemovedOf ==
  ASSUME finalizations \in Seq(Match), NEW m, Removed(m)
  PROVE  /\ finalizations' \in Seq(Match)
         /\ \A k \in DOMAIN finalizations' : \E j \in DOMAIN finalizations : finalizations'[k] = finalizations[j]
<1>. DEFINE s == finalizations
<1>1. CASE UNCHANGED finalizations
  BY <1>1
<1>2. ASSUME NEW k \in DOMAIN s, finalizations' = SubSeq(s, 1, k - 1) \o SubSeq(s, k + 1, Len(s))
      PROVE  /\ finalizations' \in Seq(Match)
             /\ \A i \in DOMAIN finalizations' : \E j \in DOMAIN s : finalizations'[i] = s[j]
  <2>1. Len(s) \in Nat /\ DOMAIN s = 1..Len(s) /\ k \in 1..Len(s)
    BY LenProperties
  <2>. DEFINE a == SubSeq(s, 1, k - 1)  b == SubSeq(s, k + 1, Len(s))
  <2>2. /\ a \in Seq(Match) /\ Len(a) = k - 1 /\ \A i \in 1..(k - 1) : a[i] = s[i]
    BY <2>1, SubSeqProperties
  <2>3. /\ b \in Seq(Match) /\ Len(b) = Len(s) - k /\ \A i \in 1..(Len(s) - k) : b[i] = s[k + i]
    BY <2>1, SubSeqProperties
  <2>. HIDE DEF a, b
  <2>4. /\ a \o b \in Seq(Match) /\ DOMAIN (a \o b) = 1..(Len(a) + Len(b))
        /\ \A i \in 1..(Len(a) + Len(b)) : (a \o b)[i] = IF i <= Len(a) THEN a[i] ELSE b[i - Len(a)]
    <3>1. /\ a \o b \in Seq(Match) /\ Len(a \o b) = Len(a) + Len(b)
          /\ \A i \in 1..(Len(a) + Len(b)) : (a \o b)[i] = IF i <= Len(a) THEN a[i] ELSE b[i - Len(a)]
      BY <2>2, <2>3, ConcatProperties
    <3>2. DOMAIN (a \o b) = 1..Len(a \o b)
      BY <3>1, LenProperties
    <3>. QED
      BY <3>1, <3>2
  <2>5. finalizations' = a \o b
    BY <1>2 DEF a, b
  <2>6. ASSUME NEW i \in DOMAIN finalizations' PROVE \E j \in DOMAIN s : finalizations'[i] = s[j]
    <3>1. i \in 1..(Len(s) - 1) /\ finalizations'[i] = IF i <= k - 1 THEN a[i] ELSE b[i - (k - 1)]
      <4>1. i \in 1..(Len(a) + Len(b)) /\ finalizations'[i] = IF i <= Len(a) THEN a[i] ELSE b[i - Len(a)]
        BY <2>4, <2>5, <2>6
      <4>2. Len(a) = k - 1 /\ Len(a) + Len(b) = Len(s) - 1
        BY <2>1, <2>2, <2>3
      <4>. QED
        BY <4>1, <4>2
    <3>2. CASE i <= k - 1
      BY <2>1, <2>2, <3>1, <3>2
    <3>3. CASE ~(i <= k - 1)
      <4>1. i - (k - 1) \in 1..(Len(s) - k) /\ k + (i - (k - 1)) = i + 1 /\ i + 1 \in 1..Len(s)
        BY <2>1, <3>1, <3>3
      <4>. QED
        BY <2>1, <2>3, <3>1, <3>3, <4>1
    <3>. QED
      BY <3>2, <3>3
  <2>. QED
    BY <2>4, <2>5, <2>6
<1>. QED
  BY <1>1, <1>2 DEF Removed

LEMMA InitPipeline == PipelineInit => PipelineIInv
<1>. SUFFICES ASSUME PipelineInit PROVE PipelineIInv
  OBVIOUS
<1>1. PipelineTypeOK
  BY PipelineAssumption DEF PipelineInit, PipelineTypeOK, Resting, AtRest, BetweenPasses, Pass
<1>2. OneMaker /\ AbortedIsNotReady /\ Unreserved /\ LiveIsPending
  BY DEF PipelineInit, OneMaker, AbortedIsNotReady, Unreserved, LiveIsPending, Resting
<1>3. CancelledForGood /\ FinalizedIsAccepted /\ DeliversLeased
  BY DEF PipelineInit, CancelledForGood, FinalizedIsAccepted, DeliversLeased, AtRest, BetweenPasses
<1>. QED
  BY <1>1, <1>2, <1>3 DEF PipelineIInv

-----------------------------------------------------------------------------
LEMMA ReserveMatchKeeps ==
  ASSUME PipelineIInv, NEW p \in Process, NEW m \in Match, ReserveMatch(p, m)
  PROVE  PipelineIInv'
<1>0. /\ UNCHANGED <<stage, outbox, finalizations, server, draining, lock, canceller, finalizer, enabled, unanswered, stops>>
      /\ PipelineTypeOK /\ OneMaker /\ AbortedIsNotReady /\ Unreserved /\ CancelledForGood
      /\ LiveIsPending /\ FinalizedIsAccepted /\ DeliversLeased
  BY DEF ReserveMatch, PipelineIInv
<1>1. maker \in [Process -> MakerPass] /\ reservation \in [Match -> Reservations]
  BY <1>0 DEF PipelineTypeOK, MakerPass, CancellerPass, FinalizerPass, Stages, Reservations, Leases
<1>2. /\ maker[p].pc = "idle" /\ reservation[m] = "none" /\ stage[m] = "none"
      /\ reservation' = [reservation EXCEPT ![m] = "pending"]
      /\ maker' = [maker EXCEPT ![p] = [pc |-> "claim", match |-> m]]
  BY <1>0 DEF ReserveMatch, Unreserved
<1>3. /\ reservation' \in [Match -> Reservations] /\ reservation'[m] = "pending"
      /\ \A n \in Match \ {m} : reservation'[n] = reservation[n]
  BY <1>1, <1>2 DEF Reservations
<1>4. /\ maker' \in [Process -> MakerPass] /\ maker'[p].pc = "claim" /\ maker'[p].match = m
      /\ \A q \in Process \ {p} : maker'[q] = maker[q]
  BY <1>1, <1>2 DEF MakerPass
<1>5. /\ stage[m] = "none" /\ reservation[m] = "none" /\ maker[p].pc = "idle"
  BY <1>2
<1>6. PipelineTypeOK'
  BY <1>0, <1>3, <1>4 DEF PipelineTypeOK, MakerPass, CancellerPass, FinalizerPass, Stages, Reservations, Leases
<1>7. OneMaker'
  BY <1>0, <1>3, <1>4, <1>5, Located DEF OneMaker
<1>8. AbortedIsNotReady'
  BY <1>0, <1>3, <1>4, <1>5, Located DEF AbortedIsNotReady
<1>9. Unreserved'
  BY <1>0, <1>3, <1>4, <1>5, Located DEF Unreserved
<1>10. LiveIsPending'
  BY <1>0, <1>3, <1>4, <1>5, Located DEF LiveIsPending
<1>11. CancelledForGood' /\ FinalizedIsAccepted' /\ DeliversLeased'
  BY <1>0 DEF CancelledForGood, FinalizedIsAccepted, DeliversLeased, Accepted
<1>. QED
  BY <1>6, <1>7, <1>8, <1>9, <1>10, <1>11 DEF PipelineIInv

LEMMA ClaimTicketsKeeps ==
  ASSUME PipelineIInv, NEW p \in Process, ClaimTickets(p)
  PROVE  PipelineIInv'
<1>. DEFINE m == maker[p].match
<1>0. /\ UNCHANGED <<reservation, outbox, finalizations, server, draining, lock, canceller, finalizer, enabled>>
      /\ PipelineTypeOK /\ OneMaker /\ AbortedIsNotReady /\ Unreserved /\ CancelledForGood
      /\ LiveIsPending /\ FinalizedIsAccepted /\ DeliversLeased
  BY DEF ClaimTickets, PipelineIInv
<1>1. maker \in [Process -> MakerPass] /\ stage \in [Match -> Stages]
  BY <1>0 DEF PipelineTypeOK, MakerPass, CancellerPass, FinalizerPass, Stages, Reservations, Leases
<1>2. /\ m \in Match /\ maker[p].pc = "claim" /\ stage[m] = "none" /\ reservation[m] = "pending"
      /\ \/ /\ stage' = [stage EXCEPT ![m] = "ready"] /\ maker' = [maker EXCEPT ![p] = Resting]
            /\ UNCHANGED unanswered
         \/ /\ maker' = [maker EXCEPT ![p] = [pc |-> "release", match |-> m]]
            /\ UNCHANGED <<stage, unanswered>>
         \/ /\ stage' = [stage EXCEPT ![m] = "ready"]
            /\ maker' = [maker EXCEPT ![p] = [pc |-> "release", match |-> m]]
            /\ unanswered' = unanswered \cup {m}
      /\ stops' \in 0..MaxFaults
  BY <1>0, PipelineAssumption DEF ClaimTickets, Faulty, PipelineTypeOK, OneMaker
<1>3. /\ maker' \in [Process -> MakerPass] /\ maker'[p].pc \in {"idle", "release"}
      /\ maker'[p].pc = "release" => maker'[p].match = m /\ (stage'[m] = "none" \/ m \in unanswered')
      /\ \A q \in Process \ {p} : maker'[q] = maker[q]
  BY <1>1, <1>2 DEF MakerPass, Resting
<1>4. /\ stage' \in [Match -> Stages] /\ stage'[m] \in {"none", "ready"}
      /\ \A n \in Match \ {m} : stage'[n] = stage[n]
      /\ unanswered \subseteq unanswered' /\ unanswered' \subseteq unanswered \cup {m}
  BY <1>1, <1>2 DEF Stages
<1>5. /\ m \in Match /\ maker[p].pc = "claim" /\ maker[p].match = m /\ stage[m] = "none" /\ reservation[m] = "pending"
      /\ stops' \in 0..MaxFaults
  BY <1>2
<1>. HIDE DEF m
<1>6. PipelineTypeOK'
  BY <1>0, <1>3, <1>4, <1>5 DEF PipelineTypeOK, MakerPass, CancellerPass, FinalizerPass, Stages, Reservations, Leases
<1>7. OneMaker'
  BY <1>0, <1>3, <1>4, <1>5, Located DEF OneMaker
<1>8. AbortedIsNotReady'
  BY <1>0, <1>3, <1>4, <1>5, Located DEF AbortedIsNotReady, OneMaker
<1>9. Unreserved'
  BY <1>0, <1>3, <1>4, <1>5, Located DEF Unreserved
<1>10. CancelledForGood'
  BY <1>0, <1>3, <1>4, <1>5, Located DEF CancelledForGood
<1>11. LiveIsPending'
  BY <1>0, <1>3, <1>4, <1>5, Located DEF LiveIsPending
<1>12. FinalizedIsAccepted'
  BY <1>0, <1>3, <1>4, <1>5, Located DEF FinalizedIsAccepted, Accepted
<1>13. DeliversLeased'
  BY <1>0, <1>3, <1>4, <1>5, Located DEF DeliversLeased
<1>. QED
  BY <1>6, <1>7, <1>8, <1>9, <1>10, <1>11, <1>12, <1>13 DEF PipelineIInv

LEMMA AbortReservationKeeps ==
  ASSUME PipelineIInv, NEW p \in Process, AbortReservation(p)
  PROVE  PipelineIInv'
<1>. DEFINE m == maker[p].match
<1>0. /\ UNCHANGED <<stage, outbox, finalizations, lock, canceller, finalizer, enabled, unanswered, stops>>
      /\ PipelineTypeOK /\ OneMaker /\ AbortedIsNotReady /\ Unreserved /\ CancelledForGood
      /\ LiveIsPending /\ FinalizedIsAccepted /\ DeliversLeased
  BY DEF AbortReservation, PipelineIInv
<1>1. maker \in [Process -> MakerPass] /\ stage \in [Match -> Stages] /\ reservation \in [Match -> Reservations] /\ server \in [Match -> Leases] /\ draining \in Nat
  BY <1>0 DEF PipelineTypeOK, MakerPass, CancellerPass, FinalizerPass, Stages, Reservations, Leases
<1>2. /\ m \in Match /\ maker[p].pc \in {"release", "cancel"} /\ maker[p].match = m
      /\ stage[m] = "none" \/ m \in unanswered
  BY <1>0 DEF AbortReservation, OneMaker, AbortedIsNotReady
<1>3. /\ maker' \in [Process -> MakerPass] /\ maker'[p].pc \in {"idle", "cancel"}
      /\ maker'[p].pc = "cancel" => maker'[p].match = m
      /\ \A q \in Process \ {p} : maker'[q] = maker[q]
  BY <1>1, <1>2 DEF AbortReservation, MakerPass, Resting
<1>4. /\ reservation' \in [Match -> Reservations] /\ server' \in [Match -> Leases] /\ draining' \in Nat
      /\ \A n \in Match \ {m} : reservation'[n] = reservation[n] /\ server'[n] = server[n]
      /\ reservation'[m] = "none" => reservation[m] = "none"
  BY <1>1, <1>2 DEF AbortReservation, GiveServerBack, CancelRow, Reservations, Leases
<1>. HIDE DEF m
<1>5. PipelineTypeOK'
  BY <1>0, <1>3, <1>4 DEF PipelineTypeOK, MakerPass, CancellerPass, FinalizerPass, Stages, Reservations, Leases
<1>6. OneMaker'
  BY <1>0, <1>2, <1>3, <1>4, Located DEF OneMaker
<1>7. AbortedIsNotReady'
  BY <1>0, <1>2, <1>3, <1>4, Located DEF AbortedIsNotReady
<1>8. Unreserved'
  BY <1>0, <1>2, <1>3, <1>4, Located DEF Unreserved
<1>9. LiveIsPending'
  BY <1>0, <1>2, <1>3, <1>4, Located DEF LiveIsPending
<1>10. DeliversLeased'
  BY <1>0, <1>2, <1>3, <1>4, Located DEF DeliversLeased
<1>11. CancelledForGood' /\ FinalizedIsAccepted'
  BY <1>0 DEF CancelledForGood, FinalizedIsAccepted, Accepted
<1>. QED
  BY <1>5, <1>6, <1>7, <1>8, <1>9, <1>10, <1>11 DEF PipelineIInv

LEMMA RosterAcceptsKeeps ==
  ASSUME PipelineIInv, NEW m \in Match, RosterAccepts(m)
  PROVE  PipelineIInv'
<1>0. /\ UNCHANGED <<reservation, outbox, server, draining, lock, maker, canceller, finalizer, enabled, unanswered, stops>>
      /\ PipelineTypeOK /\ OneMaker /\ AbortedIsNotReady /\ Unreserved /\ CancelledForGood
      /\ LiveIsPending /\ FinalizedIsAccepted /\ DeliversLeased
  BY DEF RosterAccepts, loopVars, PipelineIInv
<1>1. stage \in [Match -> Stages] /\ finalizations \in Seq(Match)
  BY <1>0 DEF PipelineTypeOK, MakerPass, CancellerPass, FinalizerPass, Stages, Reservations, Leases
<1>2. /\ stage[m] = "ready" /\ stage' = [stage EXCEPT ![m] = "allocating"]
      /\ finalizations' = Append(finalizations, m)
  BY DEF RosterAccepts
<1>3. /\ stage' \in [Match -> Stages] /\ stage[m] = "ready" /\ stage'[m] = "allocating"
      /\ \A n \in Match \ {m} : stage'[n] = stage[n]
  BY <1>1, <1>2 DEF Stages
<1>4. /\ finalizations' \in Seq(Match)
      /\ \A k \in DOMAIN finalizations' :
           finalizations'[k] = m \/ \E j \in DOMAIN finalizations : finalizations'[k] = finalizations[j]
  BY <1>1, <1>2, AppendOf
<1>5. PipelineTypeOK'
  BY <1>0, <1>3, <1>4 DEF PipelineTypeOK, MakerPass, CancellerPass, FinalizerPass, Stages, Reservations, Leases
<1>6. OneMaker'
  BY <1>0, <1>3, <1>4, Located DEF OneMaker
<1>7. AbortedIsNotReady'
  BY <1>0, <1>3, <1>4, Located DEF AbortedIsNotReady
<1>8. Unreserved'
  BY <1>0, <1>3, <1>4, Located DEF Unreserved
<1>9. CancelledForGood'
  BY <1>0, <1>3, <1>4, Located DEF CancelledForGood
<1>10. LiveIsPending'
  BY <1>0, <1>3, <1>4, Located DEF LiveIsPending
<1>11. FinalizedIsAccepted'
  BY <1>0, <1>3, <1>4, Located DEF FinalizedIsAccepted, Accepted
<1>12. DeliversLeased'
  BY <1>0, <1>3, Located DEF DeliversLeased, FinalizedIsAccepted, Accepted
<1>. QED
  BY <1>5, <1>6, <1>7, <1>8, <1>9, <1>10, <1>11, <1>12 DEF PipelineIInv

LEMMA ReadyCheckCancelledKeeps ==
  ASSUME PipelineIInv, NEW m \in Match, ReadyCheckCancelled(m)
  PROVE  PipelineIInv'
<1>0. /\ UNCHANGED <<reservation, finalizations, server, draining, lock, maker, canceller, finalizer, enabled, unanswered, stops>>
      /\ PipelineTypeOK /\ OneMaker /\ AbortedIsNotReady /\ Unreserved /\ CancelledForGood
      /\ LiveIsPending /\ FinalizedIsAccepted /\ DeliversLeased
  BY DEF ReadyCheckCancelled, loopVars, PipelineIInv
<1>1. stage \in [Match -> Stages]
  BY <1>0 DEF PipelineTypeOK, MakerPass, CancellerPass, FinalizerPass, Stages, Reservations, Leases
<1>2. /\ stage' \in [Match -> Stages] /\ stage[m] = "ready" /\ stage'[m] = "cancelled"
      /\ \A n \in Match \ {m} : stage'[n] = stage[n]
      /\ outbox' = outbox \cup {m}
  BY <1>1 DEF ReadyCheckCancelled, Stages
<1>3. PipelineTypeOK'
  BY <1>0, <1>2 DEF PipelineTypeOK, MakerPass, CancellerPass, FinalizerPass, Stages, Reservations, Leases
<1>4. OneMaker'
  BY <1>0, <1>2, Located DEF OneMaker
<1>5. AbortedIsNotReady'
  BY <1>0, <1>2, Located DEF AbortedIsNotReady
<1>6. Unreserved'
  BY <1>0, <1>2, Located DEF Unreserved
<1>7. CancelledForGood'
  BY <1>0, <1>2, Located DEF CancelledForGood
<1>8. LiveIsPending'
  BY <1>0, <1>2, Located DEF LiveIsPending
<1>9. FinalizedIsAccepted'
  BY <1>0, <1>2, Located DEF FinalizedIsAccepted, Accepted
<1>10. DeliversLeased'
  BY <1>0, <1>2, Located DEF DeliversLeased
<1>. QED
  BY <1>3, <1>4, <1>5, <1>6, <1>7, <1>8, <1>9, <1>10 DEF PipelineIInv

LEMMA ListCancellationsKeeps ==
  ASSUME PipelineIInv, NEW p \in Process, ListCancellations(p)
  PROVE  PipelineIInv'
<1>0. /\ UNCHANGED <<reservation, stage, outbox, finalizations, server, draining, lock, maker, finalizer, enabled, unanswered, stops>>
      /\ PipelineTypeOK /\ OneMaker /\ AbortedIsNotReady /\ Unreserved /\ CancelledForGood
      /\ LiveIsPending /\ FinalizedIsAccepted /\ DeliversLeased
  BY DEF ListCancellations, PipelineIInv
<1>1. canceller \in [Process -> CancellerPass] /\ outbox \subseteq Match
  BY <1>0 DEF PipelineTypeOK, MakerPass, CancellerPass, FinalizerPass, Stages, Reservations, Leases
<1>2. \E m \in outbox : canceller' = [canceller EXCEPT ![p] = [pc |-> "release", match |-> m, todo |-> outbox \ {m}]]
  BY DEF ListCancellations
<1>3. /\ canceller' \in [Process -> CancellerPass] /\ canceller'[p].match \in outbox /\ canceller'[p].todo \subseteq outbox
      /\ \A q \in Process \ {p} : canceller'[q] = canceller[q]
  BY <1>1, <1>2 DEF CancellerPass, Pass
<1>4. PipelineTypeOK'
  BY <1>0, <1>3 DEF PipelineTypeOK, MakerPass, CancellerPass, FinalizerPass, Stages, Reservations, Leases
<1>5. CancelledForGood'
  BY <1>0, <1>3, Located DEF CancelledForGood
<1>6. OneMaker' /\ AbortedIsNotReady' /\ Unreserved' /\ LiveIsPending' /\ FinalizedIsAccepted' /\ DeliversLeased'
  BY <1>0 DEF OneMaker, AbortedIsNotReady, Unreserved, LiveIsPending, FinalizedIsAccepted, DeliversLeased, Accepted
<1>. QED
  BY <1>4, <1>5, <1>6 DEF PipelineIInv

LEMMA ReconcileKeeps ==
  ASSUME PipelineIInv, NEW p \in Process, Reconcile(p)
  PROVE  PipelineIInv'
<1>. DEFINE m == canceller[p].match  todo == canceller[p].todo
<1>0. /\ UNCHANGED <<stage, finalizations, lock, maker, finalizer, enabled, unanswered, stops>>
      /\ PipelineTypeOK /\ OneMaker /\ AbortedIsNotReady /\ Unreserved /\ CancelledForGood
      /\ LiveIsPending /\ FinalizedIsAccepted /\ DeliversLeased
  BY DEF Reconcile, PipelineIInv
<1>1. canceller \in [Process -> CancellerPass] /\ reservation \in [Match -> Reservations] /\ server \in [Match -> Leases] /\ draining \in Nat
  BY <1>0 DEF PipelineTypeOK, MakerPass, CancellerPass, FinalizerPass, Stages, Reservations, Leases
<1>2. /\ m \in Match /\ canceller[p].match = m /\ stage[m] = "cancelled" /\ canceller[p].pc # "idle"
      /\ todo \subseteq Match /\ canceller[p].todo = todo
  BY <1>0, <1>1, NoneIsNoMatch DEF Reconcile, CancelledForGood, CancellerPass, Pass
<1>3. /\ canceller' \in [Process -> CancellerPass]
      /\ canceller'[p].pc # "idle" => canceller'[p].match \in todo \cup {m} /\ canceller'[p].todo \subseteq todo
      /\ \A q \in Process \ {p} : canceller'[q] = canceller[q]
  BY <1>1, <1>2 DEF Reconcile, CancellerPass, Pass, AtRest
<1>4. /\ reservation' \in [Match -> Reservations] /\ server' \in [Match -> Leases] /\ draining' \in Nat
      /\ \A n \in Match \ {m} : reservation'[n] = reservation[n] /\ server'[n] = server[n]
      /\ reservation'[m] = "none" => reservation[m] = "none"
      /\ outbox' \subseteq outbox
  BY <1>1, <1>2 DEF Reconcile, GiveServerBack, CancelRow, Reservations, Leases
<1>. HIDE DEF m
<1>5. PipelineTypeOK'
  BY <1>0, <1>3, <1>4 DEF PipelineTypeOK, MakerPass, CancellerPass, FinalizerPass, Stages, Reservations, Leases
<1>6. OneMaker'
  BY <1>0, <1>2, <1>3, <1>4, Located DEF OneMaker
<1>7. Unreserved'
  BY <1>0, <1>2, <1>3, <1>4, Located DEF Unreserved
<1>8. CancelledForGood'
  BY <1>0, <1>2, <1>3, <1>4, Located DEF CancelledForGood
<1>9. LiveIsPending'
  BY <1>0, <1>2, <1>3, <1>4, Located DEF LiveIsPending
<1>10. DeliversLeased'
  BY <1>0, <1>2, <1>3, <1>4, Located DEF DeliversLeased
<1>11. AbortedIsNotReady' /\ FinalizedIsAccepted'
  BY <1>0 DEF AbortedIsNotReady, FinalizedIsAccepted, Accepted
<1>. QED
  BY <1>5, <1>6, <1>7, <1>8, <1>9, <1>10, <1>11 DEF PipelineIInv

LEMMA ListFinalizationsKeeps ==
  ASSUME PipelineIInv, NEW p \in Process, ListFinalizations(p)
  PROVE  PipelineIInv'
<1>0. /\ UNCHANGED <<reservation, stage, outbox, finalizations, server, draining, lock, maker, canceller, enabled, unanswered, stops>>
      /\ PipelineTypeOK /\ OneMaker /\ AbortedIsNotReady /\ Unreserved /\ CancelledForGood
      /\ LiveIsPending /\ FinalizedIsAccepted /\ DeliversLeased
  BY DEF ListFinalizations, finalizerKeeps, PipelineIInv
<1>1. finalizer \in [Process -> FinalizerPass] /\ finalizations \in Seq(Match)
  BY <1>0 DEF PipelineTypeOK, MakerPass, CancellerPass, FinalizerPass, Stages, Reservations, Leases
<1>2. /\ finalizer' \in [Process -> FinalizerPass] /\ finalizer'[p].pc = "next" /\ finalizer'[p].todo = finalizations
      /\ \A q \in Process \ {p} : finalizer'[q] = finalizer[q]
  BY <1>1 DEF ListFinalizations, FinalizerPass, Pass
<1>3. PipelineTypeOK'
  BY <1>0, <1>2 DEF PipelineTypeOK, MakerPass, CancellerPass, FinalizerPass, Stages, Reservations, Leases
<1>4. FinalizedIsAccepted'
  BY <1>0, <1>2, Located DEF FinalizedIsAccepted, Accepted
<1>5. DeliversLeased'
  BY <1>0, <1>2, Located DEF DeliversLeased
<1>6. OneMaker' /\ AbortedIsNotReady' /\ Unreserved' /\ CancelledForGood' /\ LiveIsPending'
  BY <1>0 DEF OneMaker, AbortedIsNotReady, Unreserved, CancelledForGood, LiveIsPending
<1>. QED
  BY <1>3, <1>4, <1>5, <1>6 DEF PipelineIInv

LEMMA NextFinalizationKeeps ==
  ASSUME PipelineIInv, NEW p \in Process, NextFinalization(p)
  PROVE  PipelineIInv'
<1>. DEFINE s == finalizer[p].todo
<1>0. /\ UNCHANGED <<reservation, stage, outbox, finalizations, server, draining, maker, canceller, enabled, unanswered, stops>>
      /\ PipelineTypeOK /\ OneMaker /\ AbortedIsNotReady /\ Unreserved /\ CancelledForGood
      /\ LiveIsPending /\ FinalizedIsAccepted /\ DeliversLeased
  BY DEF NextFinalization, finalizerKeeps, PipelineIInv
<1>1. finalizer \in [Process -> FinalizerPass] /\ lock \in [Match -> Process \cup {"none"}]
  BY <1>0 DEF PipelineTypeOK, MakerPass, CancellerPass, FinalizerPass, Stages, Reservations, Leases
<1>2. /\ s \in Seq(Match) /\ finalizer[p].todo = s
      /\ s # <<>> => /\ Head(s) \in Match /\ Tail(s) \in Seq(Match)
                     /\ \E k \in DOMAIN s : s[k] = Head(s)
                     /\ \A k \in DOMAIN Tail(s) : \E j \in DOMAIN s : Tail(s)[k] = s[j]
  BY <1>0, TailOf, TodoIs
<1>3. /\ lock' \in [Match -> Process \cup {"none"}] /\ \A q \in Process \ {p} : finalizer'[q] = finalizer[q]
      /\ \/ finalizer' = [finalizer EXCEPT ![p] = BetweenPasses]
         \/ s # <<>> /\ finalizer' = [finalizer EXCEPT ![p] = [pc |-> "next", match |-> "none", todo |-> Tail(s)]]
         \/ s # <<>> /\ finalizer' = [finalizer EXCEPT ![p] = [pc |-> "read", match |-> Head(s), todo |-> Tail(s)]]
  BY <1>1, <1>2 DEF NextFinalization
<1>4. /\ finalizer' \in [Process -> FinalizerPass] /\ finalizer'[p].pc \in {"idle", "next", "read"}
      /\ \A k \in DOMAIN finalizer'[p].todo : \E j \in DOMAIN s : finalizer'[p].todo[k] = s[j]
      /\ finalizer'[p].pc = "read" => finalizer'[p].match \in Match /\ \E j \in DOMAIN s : finalizer'[p].match = s[j]
      /\ \A q \in Process \ {p} : finalizer'[q] = finalizer[q]
  <2>1. BetweenPasses \in FinalizerPass /\ BetweenPasses.pc = "idle" /\ DOMAIN BetweenPasses.todo = {}
    BY EmptySeq DEF BetweenPasses, FinalizerPass, Pass
  <2>2. \A pc \in {"next", "read", "lease", "grant", "deliver"}, m \in Match \cup {"none"}, t \in Seq(Match) :
          [pc |-> pc, match |-> m, todo |-> t] \in FinalizerPass
    BY DEF FinalizerPass, Pass
  <2>3. CASE finalizer' = [finalizer EXCEPT ![p] = BetweenPasses]
    BY <1>1, <2>1, <2>3
  <2>4. CASE s # <<>> /\ finalizer' = [finalizer EXCEPT ![p] = [pc |-> "next", match |-> "none", todo |-> Tail(s)]]
    BY <1>1, <1>2, <2>2, <2>4
  <2>5. CASE s # <<>> /\ finalizer' = [finalizer EXCEPT ![p] = [pc |-> "read", match |-> Head(s), todo |-> Tail(s)]]
    BY <1>1, <1>2, <2>2, <2>5
  <2>. QED
    BY <1>3, <2>3, <2>4, <2>5
<1>5. finalizer[p].todo = s /\ lock' \in [Match -> Process \cup {"none"}]
  BY <1>2, <1>3
<1>. HIDE DEF s
<1>6. PipelineTypeOK'
  BY <1>0, <1>4, <1>5 DEF PipelineTypeOK, MakerPass, CancellerPass, FinalizerPass, Stages, Reservations, Leases
<1>7. FinalizedIsAccepted'
  BY <1>0, <1>4, <1>5, Located DEF FinalizedIsAccepted, Accepted
<1>8. DeliversLeased'
  BY <1>0, <1>4, <1>5, Located DEF DeliversLeased
<1>9. OneMaker' /\ AbortedIsNotReady' /\ Unreserved' /\ CancelledForGood' /\ LiveIsPending'
  BY <1>0 DEF OneMaker, AbortedIsNotReady, Unreserved, CancelledForGood, LiveIsPending
<1>. QED
  BY <1>6, <1>7, <1>8, <1>9 DEF PipelineIInv

LEMMA ReadReservationKeeps ==
  ASSUME PipelineIInv, NEW p \in Process, ReadReservation(p)
  PROVE  PipelineIInv'
<1>0. /\ UNCHANGED <<reservation, stage, outbox, finalizations, server, draining, maker, canceller, enabled, unanswered, stops>>
      /\ PipelineTypeOK /\ OneMaker /\ AbortedIsNotReady /\ Unreserved /\ CancelledForGood
      /\ LiveIsPending /\ FinalizedIsAccepted /\ DeliversLeased
  BY DEF ReadReservation, finalizerKeeps, PipelineIInv
<1>1. finalizer \in [Process -> FinalizerPass] /\ lock \in [Match -> Process \cup {"none"}] /\ server \in [Match -> Leases]
  BY <1>0 DEF PipelineTypeOK, MakerPass, CancellerPass, FinalizerPass, Stages, Reservations, Leases
<1>2. /\ finalizer' \in [Process -> FinalizerPass] /\ finalizer[p].pc = "read" /\ lock' \in [Match -> Process \cup {"none"}]
      /\ \/ finalizer'[p] = BetweenPasses
         \/ /\ finalizer'[p].pc = "lease" /\ finalizer'[p].match = finalizer[p].match
            /\ finalizer'[p].todo = finalizer[p].todo
      /\ \A q \in Process \ {p} : finalizer'[q] = finalizer[q]
  <2>1. BetweenPasses \in FinalizerPass
    BY EmptySeq DEF BetweenPasses, FinalizerPass, Pass
  <2>2. finalizer[p].match \in Match \cup {"none"} /\ finalizer[p].todo \in Seq(Match)
    BY <1>1 DEF FinalizerPass, Pass
  <2>. DEFINE row == [pc |-> "lease", match |-> finalizer[p].match, todo |-> finalizer[p].todo]
  <2>3. row \in FinalizerPass /\ row.pc = "lease" /\ row.match = finalizer[p].match /\ row.todo = finalizer[p].todo
    BY <2>2 DEF FinalizerPass, Pass
  <2>4. finalizer' = [finalizer EXCEPT ![p] = BetweenPasses] \/ finalizer' = [finalizer EXCEPT ![p] = row]
    BY DEF ReadReservation, Throw
  <2>5. finalizer[p].pc = "read" /\ lock' \in [Match -> Process \cup {"none"}]
    BY <1>1 DEF ReadReservation, Throw, Unlocked
  <2>. HIDE DEF row
  <2>. QED
    BY <1>1, <2>1, <2>3, <2>4, <2>5
<1>3. BetweenPasses.pc = "idle" /\ DOMAIN BetweenPasses.todo = {}
  BY DEF BetweenPasses
<1>4. PipelineTypeOK'
  BY <1>0, <1>2 DEF PipelineTypeOK, MakerPass, CancellerPass, FinalizerPass, Stages, Reservations, Leases
<1>5. FinalizedIsAccepted'
  BY <1>0, <1>2, <1>3, Located DEF FinalizedIsAccepted, Accepted
<1>6. DeliversLeased'
  BY <1>0, <1>2, <1>3, Located DEF DeliversLeased
<1>7. OneMaker' /\ AbortedIsNotReady' /\ Unreserved' /\ CancelledForGood' /\ LiveIsPending'
  BY <1>0 DEF OneMaker, AbortedIsNotReady, Unreserved, CancelledForGood, LiveIsPending
<1>. QED
  BY <1>4, <1>5, <1>6, <1>7 DEF PipelineIInv

LEMMA LeaseForMatchKeeps ==
  ASSUME PipelineIInv, NEW p \in Process, LeaseForMatch(p)
  PROVE  PipelineIInv'
<1>0. /\ UNCHANGED <<reservation, stage, outbox, finalizations, draining, maker, canceller, enabled, unanswered, stops>>
      /\ PipelineTypeOK /\ OneMaker /\ AbortedIsNotReady /\ Unreserved /\ CancelledForGood
      /\ LiveIsPending /\ FinalizedIsAccepted /\ DeliversLeased
  BY DEF LeaseForMatch, finalizerKeeps, PipelineIInv
<1>1. finalizer \in [Process -> FinalizerPass] /\ lock \in [Match -> Process \cup {"none"}] /\ server \in [Match -> Leases]
  BY <1>0 DEF PipelineTypeOK, MakerPass, CancellerPass, FinalizerPass, Stages, Reservations, Leases
<1>2. /\ finalizer' \in [Process -> FinalizerPass] /\ finalizer[p].pc = "lease" /\ lock' \in [Match -> Process \cup {"none"}]
      /\ \/ finalizer'[p] = BetweenPasses
         \/ /\ finalizer'[p].pc = "grant" /\ finalizer'[p].match = finalizer[p].match
            /\ finalizer'[p].todo = finalizer[p].todo
      /\ \A q \in Process \ {p} : finalizer'[q] = finalizer[q]
  <2>1. BetweenPasses \in FinalizerPass
    BY EmptySeq DEF BetweenPasses, FinalizerPass, Pass
  <2>2. finalizer[p].match \in Match \cup {"none"} /\ finalizer[p].todo \in Seq(Match)
    BY <1>1 DEF FinalizerPass, Pass
  <2>. DEFINE row == [pc |-> "grant", match |-> finalizer[p].match, todo |-> finalizer[p].todo]
  <2>3. row \in FinalizerPass /\ row.pc = "grant" /\ row.match = finalizer[p].match /\ row.todo = finalizer[p].todo
    BY <2>2 DEF FinalizerPass, Pass
  <2>4. finalizer' = [finalizer EXCEPT ![p] = BetweenPasses] \/ finalizer' = [finalizer EXCEPT ![p] = row]
    BY DEF LeaseForMatch, Throw
  <2>5. finalizer[p].pc = "lease" /\ lock' \in [Match -> Process \cup {"none"}]
    BY <1>1 DEF LeaseForMatch, Throw, Unlocked
  <2>. HIDE DEF row
  <2>. QED
    BY <1>1, <2>1, <2>3, <2>4, <2>5
<1>3. BetweenPasses.pc = "idle" /\ DOMAIN BetweenPasses.todo = {}
  BY DEF BetweenPasses
<1>4. /\ server' \in [Match -> Leases] /\ \A n \in Match : server[n] = "active" => server'[n] = "active"
      /\ finalizer'[p].pc # "deliver"
  BY <1>1, <1>2, <1>3 DEF LeaseForMatch, Leases
<1>5. PipelineTypeOK'
  BY <1>0, <1>2, <1>4 DEF PipelineTypeOK, MakerPass, CancellerPass, FinalizerPass, Stages, Reservations, Leases
<1>6. FinalizedIsAccepted'
  BY <1>0, <1>2, <1>3, <1>4, Located DEF FinalizedIsAccepted, Accepted
<1>7. DeliversLeased'
  BY <1>0, <1>2, <1>3, <1>4, Located DEF DeliversLeased
<1>8. OneMaker' /\ AbortedIsNotReady' /\ Unreserved' /\ CancelledForGood' /\ LiveIsPending'
  BY <1>0 DEF OneMaker, AbortedIsNotReady, Unreserved, CancelledForGood, LiveIsPending
<1>. QED
  BY <1>5, <1>6, <1>7, <1>8 DEF PipelineIInv

LEMMA IssueLauncherGrantKeeps ==
  ASSUME PipelineIInv, NEW p \in Process, IssueLauncherGrant(p)
  PROVE  PipelineIInv'
<1>0. /\ UNCHANGED <<reservation, stage, outbox, finalizations, server, draining, maker, canceller, enabled, unanswered>>
      /\ PipelineTypeOK /\ OneMaker /\ AbortedIsNotReady /\ Unreserved /\ CancelledForGood
      /\ LiveIsPending /\ FinalizedIsAccepted /\ DeliversLeased
  BY DEF IssueLauncherGrant, finalizerKeeps, PipelineIInv
<1>1. finalizer \in [Process -> FinalizerPass] /\ lock \in [Match -> Process \cup {"none"}] /\ server \in [Match -> Leases]
  BY <1>0 DEF PipelineTypeOK, MakerPass, CancellerPass, FinalizerPass, Stages, Reservations, Leases
<1>2. /\ finalizer' \in [Process -> FinalizerPass] /\ finalizer[p].pc = "grant" /\ lock' \in [Match -> Process \cup {"none"}]
      /\ \/ finalizer'[p] = BetweenPasses
         \/ /\ finalizer'[p].pc = "deliver" /\ finalizer'[p].match = finalizer[p].match
            /\ finalizer'[p].todo = finalizer[p].todo
      /\ \A q \in Process \ {p} : finalizer'[q] = finalizer[q]
  <2>1. BetweenPasses \in FinalizerPass
    BY EmptySeq DEF BetweenPasses, FinalizerPass, Pass
  <2>2. finalizer[p].match \in Match \cup {"none"} /\ finalizer[p].todo \in Seq(Match)
    BY <1>1 DEF FinalizerPass, Pass
  <2>. DEFINE row == [pc |-> "deliver", match |-> finalizer[p].match, todo |-> finalizer[p].todo]
  <2>3. row \in FinalizerPass /\ row.pc = "deliver" /\ row.match = finalizer[p].match /\ row.todo = finalizer[p].todo
    BY <2>2 DEF FinalizerPass, Pass
  <2>4. finalizer' = [finalizer EXCEPT ![p] = BetweenPasses] \/ finalizer' = [finalizer EXCEPT ![p] = row]
    BY DEF IssueLauncherGrant, Throw
  <2>5. finalizer[p].pc = "grant" /\ lock' \in [Match -> Process \cup {"none"}]
    BY <1>1 DEF IssueLauncherGrant, Throw, Unlocked
  <2>. HIDE DEF row
  <2>. QED
    BY <1>1, <2>1, <2>3, <2>4, <2>5
<1>3. BetweenPasses.pc = "idle" /\ DOMAIN BetweenPasses.todo = {}
  BY DEF BetweenPasses
<1>4. /\ stops' \in 0..MaxFaults
      /\ finalizer'[p].pc = "deliver" => server[finalizer[p].match] = "active"
  <2>1. stops' \in 0..MaxFaults
    BY <1>0, PipelineAssumption DEF IssueLauncherGrant, Faulty, PipelineTypeOK
  <2>2. server[finalizer[p].match] = "active" \/ finalizer' = [finalizer EXCEPT ![p] = BetweenPasses]
    BY DEF IssueLauncherGrant, Throw
  <2>. QED
    BY <1>1, <1>3, <2>1, <2>2
<1>5. PipelineTypeOK'
  BY <1>0, <1>2, <1>4 DEF PipelineTypeOK, MakerPass, CancellerPass, FinalizerPass, Stages, Reservations, Leases
<1>6. FinalizedIsAccepted'
  BY <1>0, <1>2, <1>3, <1>4, Located DEF FinalizedIsAccepted, Accepted
<1>7. DeliversLeased'
  BY <1>0, <1>2, <1>3, <1>4, Located DEF DeliversLeased
<1>8. OneMaker' /\ AbortedIsNotReady' /\ Unreserved' /\ CancelledForGood' /\ LiveIsPending'
  BY <1>0 DEF OneMaker, AbortedIsNotReady, Unreserved, CancelledForGood, LiveIsPending
<1>. QED
  BY <1>5, <1>6, <1>7, <1>8 DEF PipelineIInv

LEMMA DeliverKeeps ==
  ASSUME PipelineIInv, NEW p \in Process, Deliver(p)
  PROVE  PipelineIInv'
<1>. DEFINE m == finalizer[p].match
<1>0. /\ UNCHANGED <<reservation, outbox, server, draining, maker, canceller, enabled, unanswered, stops>>
      /\ PipelineTypeOK /\ OneMaker /\ AbortedIsNotReady /\ Unreserved /\ CancelledForGood
      /\ LiveIsPending /\ FinalizedIsAccepted /\ DeliversLeased
  BY DEF Deliver, finalizerKeeps, PipelineIInv
<1>1. finalizer \in [Process -> FinalizerPass] /\ lock \in [Match -> Process \cup {"none"}] /\ stage \in [Match -> Stages]
  BY <1>0 DEF PipelineTypeOK, MakerPass, CancellerPass, FinalizerPass, Stages, Reservations, Leases
<1>2. /\ m \in Match /\ Accepted(m) /\ Removed(m)
      /\ lock' \in [Match -> Process \cup {"none"}]
  BY <1>0, <1>1 DEF Deliver, Unlocked, FinalizedIsAccepted
<1>3. /\ finalizer' \in [Process -> FinalizerPass] /\ finalizer'[p].pc \in {"idle", "next"}
      /\ finalizer'[p].todo = finalizer[p].todo \/ DOMAIN finalizer'[p].todo = {}
      /\ \A q \in Process \ {p} : finalizer'[q] = finalizer[q]
  <2>1. BetweenPasses \in FinalizerPass /\ BetweenPasses.pc = "idle" /\ DOMAIN BetweenPasses.todo = {}
    BY EmptySeq DEF BetweenPasses, FinalizerPass, Pass
  <2>2. CASE finalizer' = [finalizer EXCEPT ![p] = BetweenPasses]
    BY <1>1, <2>1, <2>2
  <2>3. CASE finalizer' = [finalizer EXCEPT ![p] = [pc |-> "next", match |-> "none", todo |-> finalizer[p].todo]]
    BY <1>1, <2>3 DEF FinalizerPass, Pass
  <2>. QED
    BY <2>2, <2>3 DEF Deliver
<1>4. /\ stage' \in [Match -> Stages] /\ \A n \in Match \ {m} : stage'[n] = stage[n]
      /\ stage'[m] = IF stage[m] = "allocating" THEN "assigned" ELSE stage[m]
  BY <1>1, <1>2 DEF Deliver, Stages
<1>5. /\ finalizations' \in Seq(Match)
      /\ \A k \in DOMAIN finalizations' : \E j \in DOMAIN finalizations : finalizations'[k] = finalizations[j]
  BY <1>0, <1>2, RemovedOf DEF PipelineTypeOK
<1>. HIDE DEF m
<1>6. PipelineTypeOK'
  BY <1>0, <1>2, <1>3, <1>4, <1>5 DEF PipelineTypeOK, MakerPass, CancellerPass, FinalizerPass, Stages, Reservations, Leases
<1>7. OneMaker'
  BY <1>0, <1>2, <1>3, <1>4, <1>5, Located DEF OneMaker
<1>8. AbortedIsNotReady'
  BY <1>0, <1>2, <1>3, <1>4, <1>5, Located DEF AbortedIsNotReady
<1>9. Unreserved'
  BY <1>0, <1>2, <1>3, <1>4, <1>5, Located DEF Unreserved
<1>10. CancelledForGood'
  BY <1>0, <1>2, <1>3, <1>4, <1>5, Located DEF CancelledForGood
<1>11. LiveIsPending'
  BY <1>0, <1>2, <1>3, <1>4, <1>5, Located DEF LiveIsPending
<1>12. FinalizedIsAccepted'
  BY <1>0, <1>2, <1>3, <1>4, <1>5, Located DEF FinalizedIsAccepted, Accepted
<1>13. DeliversLeased'
  BY <1>0, <1>2, <1>3, <1>4, <1>5, Located DEF DeliversLeased
<1>. QED
  BY <1>6, <1>7, <1>8, <1>9, <1>10, <1>11, <1>12, <1>13 DEF PipelineIInv

LEMMA LockLapsesKeeps ==
  ASSUME PipelineIInv, NEW m \in Match, LockLapses(m)
  PROVE  PipelineIInv'
<1>0. /\ UNCHANGED <<reservation, stage, outbox, finalizations, server, draining, maker, canceller, finalizer, enabled, unanswered, stops>>
      /\ PipelineTypeOK /\ OneMaker /\ AbortedIsNotReady /\ Unreserved /\ CancelledForGood
      /\ LiveIsPending /\ FinalizedIsAccepted /\ DeliversLeased
  BY DEF LockLapses, loopVars, PipelineIInv
<1>1. lock' = [lock EXCEPT ![m] = "none"]
  BY DEF LockLapses
<1>2. PipelineTypeOK'
  BY <1>0, <1>1 DEF PipelineTypeOK
<1>3. OneMaker' /\ AbortedIsNotReady' /\ Unreserved' /\ CancelledForGood' /\ LiveIsPending' /\ FinalizedIsAccepted' /\ DeliversLeased'
  BY <1>0 DEF OneMaker, AbortedIsNotReady, Unreserved, CancelledForGood, LiveIsPending, FinalizedIsAccepted, DeliversLeased, Accepted
<1>. QED
  BY <1>2, <1>3 DEF PipelineIInv

LEMMA MatchGoesLiveKeeps ==
  ASSUME PipelineIInv, NEW m \in Match, MatchGoesLive(m)
  PROVE  PipelineIInv'
<1>0. /\ UNCHANGED <<stage, outbox, finalizations, server, draining, lock, maker, canceller, finalizer, enabled, unanswered, stops>>
      /\ PipelineTypeOK /\ OneMaker /\ AbortedIsNotReady /\ Unreserved /\ CancelledForGood
      /\ LiveIsPending /\ FinalizedIsAccepted /\ DeliversLeased
  BY DEF MatchGoesLive, loopVars, PipelineIInv
<1>1. reservation \in [Match -> Reservations]
  BY <1>0 DEF PipelineTypeOK, MakerPass, CancellerPass, FinalizerPass, Stages, Reservations, Leases
<1>2. /\ reservation' \in [Match -> Reservations] /\ stage[m] = "assigned" /\ reservation[m] = "pending" /\ reservation'[m] = "live"
      /\ \A n \in Match \ {m} : reservation'[n] = reservation[n]
  BY <1>1 DEF MatchGoesLive, Reservations
<1>3. PipelineTypeOK'
  BY <1>0, <1>2 DEF PipelineTypeOK, MakerPass, CancellerPass, FinalizerPass, Stages, Reservations, Leases
<1>4. OneMaker'
  BY <1>0, <1>2, Located DEF OneMaker
<1>5. Unreserved'
  BY <1>0, <1>2, Located DEF Unreserved
<1>6. LiveIsPending'
  BY <1>0, <1>2, Located DEF LiveIsPending
<1>7. AbortedIsNotReady' /\ CancelledForGood' /\ FinalizedIsAccepted' /\ DeliversLeased'
  BY <1>0 DEF AbortedIsNotReady, CancelledForGood, FinalizedIsAccepted, DeliversLeased, Accepted
<1>. QED
  BY <1>3, <1>4, <1>5, <1>6, <1>7 DEF PipelineIInv

LEMMA MatchIsOverKeeps ==
  ASSUME PipelineIInv, NEW m \in Match, MatchIsOver(m)
  PROVE  PipelineIInv'
<1>0. /\ UNCHANGED <<outbox, finalizations, lock, maker, canceller, finalizer, enabled, unanswered, stops>>
      /\ PipelineTypeOK /\ OneMaker /\ AbortedIsNotReady /\ Unreserved /\ CancelledForGood
      /\ LiveIsPending /\ FinalizedIsAccepted /\ DeliversLeased
  BY DEF MatchIsOver, loopVars, PipelineIInv
<1>1. stage \in [Match -> Stages] /\ reservation \in [Match -> Reservations] /\ server \in [Match -> Leases] /\ draining \in Nat
  BY <1>0 DEF PipelineTypeOK, MakerPass, CancellerPass, FinalizerPass, Stages, Reservations, Leases
<1>2. /\ stage' \in [Match -> Stages] /\ server' \in [Match -> Leases] /\ reservation' \in [Match -> Reservations]
      /\ draining' \in Nat
      /\ stage[m] \in {"assigned", "over"} /\ stage'[m] = "over"
      /\ reservation'[m] = "none" => reservation[m] = "none"
      /\ \A n \in Match \ {m} : stage'[n] = stage[n] /\ reservation'[n] = reservation[n] /\ server'[n] = server[n]
  BY <1>1 DEF MatchIsOver, GiveServerBack, Stages, Reservations, Leases
<1>3. PipelineTypeOK'
  BY <1>0, <1>2 DEF PipelineTypeOK, MakerPass, CancellerPass, FinalizerPass, Stages, Reservations, Leases
<1>4. OneMaker'
  BY <1>0, <1>2, Located DEF OneMaker
<1>5. AbortedIsNotReady'
  BY <1>0, <1>2, Located DEF AbortedIsNotReady
<1>6. Unreserved'
  BY <1>0, <1>2, Located DEF Unreserved
<1>7. CancelledForGood'
  BY <1>0, <1>2, Located DEF CancelledForGood
<1>8. LiveIsPending'
  BY <1>0, <1>2, Located DEF LiveIsPending
<1>9. FinalizedIsAccepted'
  BY <1>0, <1>2, Located DEF FinalizedIsAccepted, Accepted
<1>10. DeliversLeased'
  BY <1>0, <1>2, Located DEF DeliversLeased
<1>. QED
  BY <1>3, <1>4, <1>5, <1>6, <1>7, <1>8, <1>9, <1>10 DEF PipelineIInv

LEMMA ProcessStopsKeeps ==
  ASSUME PipelineIInv, NEW p \in Process, ProcessStops(p)
  PROVE  PipelineIInv'
<1>0. /\ UNCHANGED <<reservation, stage, outbox, finalizations, server, draining, lock, enabled, unanswered>>
      /\ PipelineTypeOK /\ OneMaker /\ AbortedIsNotReady /\ Unreserved /\ CancelledForGood
      /\ LiveIsPending /\ FinalizedIsAccepted /\ DeliversLeased
  BY DEF ProcessStops, PipelineIInv
<1>1. maker \in [Process -> MakerPass] /\ canceller \in [Process -> CancellerPass] /\ finalizer \in [Process -> FinalizerPass]
  BY <1>0 DEF PipelineTypeOK, MakerPass, CancellerPass, FinalizerPass, Stages, Reservations, Leases
<1>2. /\ maker' \in [Process -> MakerPass] /\ maker'[p].pc = "idle" /\ \A q \in Process \ {p} : maker'[q] = maker[q]
      /\ canceller' \in [Process -> CancellerPass] /\ canceller'[p].pc = "idle" /\ \A q \in Process \ {p} : canceller'[q] = canceller[q]
      /\ finalizer' \in [Process -> FinalizerPass] /\ finalizer'[p].pc = "idle" /\ DOMAIN finalizer'[p].todo = {}
      /\ \A q \in Process \ {p} : finalizer'[q] = finalizer[q]
  BY <1>1 DEF ProcessStops, MakerPass, CancellerPass, FinalizerPass, Pass, Resting, AtRest, BetweenPasses
<1>3. stops' \in 0..MaxFaults
  BY <1>0, PipelineAssumption DEF ProcessStops, Faulty, PipelineTypeOK
<1>4. PipelineTypeOK'
  BY <1>0, <1>2, <1>3 DEF PipelineTypeOK, MakerPass, CancellerPass, FinalizerPass, Stages, Reservations, Leases
<1>5. OneMaker'
  BY <1>0, <1>2, <1>3, Located DEF OneMaker
<1>6. AbortedIsNotReady'
  BY <1>0, <1>2, <1>3, Located DEF AbortedIsNotReady
<1>7. CancelledForGood'
  BY <1>0, <1>2, <1>3, Located DEF CancelledForGood
<1>8. FinalizedIsAccepted'
  BY <1>0, <1>2, <1>3, Located DEF FinalizedIsAccepted, Accepted
<1>9. DeliversLeased'
  BY <1>0, <1>2, <1>3, Located DEF DeliversLeased
<1>10. Unreserved' /\ LiveIsPending'
  BY <1>0 DEF Unreserved, LiveIsPending
<1>. QED
  BY <1>4, <1>5, <1>6, <1>7, <1>8, <1>9, <1>10 DEF PipelineIInv

LEMMA ServerDrainedKeeps ==
  ASSUME PipelineIInv, ServerDrained
  PROVE  PipelineIInv'
<1>0. /\ UNCHANGED <<reservation, stage, outbox, finalizations, server, lock, maker, canceller, finalizer, enabled, unanswered, stops>>
      /\ PipelineTypeOK /\ OneMaker /\ AbortedIsNotReady /\ Unreserved /\ CancelledForGood
      /\ LiveIsPending /\ FinalizedIsAccepted /\ DeliversLeased
  BY DEF ServerDrained, loopVars, PipelineIInv
<1>1. draining' \in Nat
  BY <1>0 DEF ServerDrained, PipelineTypeOK
<1>2. PipelineTypeOK'
  BY <1>0, <1>1 DEF PipelineTypeOK
<1>3. OneMaker' /\ AbortedIsNotReady' /\ Unreserved' /\ CancelledForGood' /\ LiveIsPending' /\ FinalizedIsAccepted' /\ DeliversLeased'
  BY <1>0 DEF OneMaker, AbortedIsNotReady, Unreserved, CancelledForGood, LiveIsPending, FinalizedIsAccepted, DeliversLeased, Accepted
<1>. QED
  BY <1>2, <1>3 DEF PipelineIInv

LEMMA OperatorPausesKeeps ==
  ASSUME PipelineIInv, OperatorPauses
  PROVE  PipelineIInv'
<1>0. /\ UNCHANGED <<reservation, stage, outbox, finalizations, server, draining, lock, maker, canceller, finalizer, unanswered>>
      /\ PipelineTypeOK /\ OneMaker /\ AbortedIsNotReady /\ Unreserved /\ CancelledForGood
      /\ LiveIsPending /\ FinalizedIsAccepted /\ DeliversLeased
  BY DEF OperatorPauses, loopVars, PipelineIInv
<1>1. enabled' \in BOOLEAN /\ stops' \in 0..MaxFaults
  BY <1>0, PipelineAssumption DEF OperatorPauses, Faulty, PipelineTypeOK
<1>2. PipelineTypeOK'
  BY <1>0, <1>1 DEF PipelineTypeOK
<1>3. OneMaker' /\ AbortedIsNotReady' /\ Unreserved' /\ CancelledForGood' /\ LiveIsPending' /\ FinalizedIsAccepted' /\ DeliversLeased'
  BY <1>0 DEF OneMaker, AbortedIsNotReady, Unreserved, CancelledForGood, LiveIsPending, FinalizedIsAccepted, DeliversLeased, Accepted
<1>. QED
  BY <1>2, <1>3 DEF PipelineIInv

-----------------------------------------------------------------------------
LEMMA PipelineStep == PipelineIInv /\ [PipelineNext]_pipelineVars => PipelineIInv'
<1>. SUFFICES ASSUME PipelineIInv, [PipelineNext]_pipelineVars PROVE PipelineIInv'
  OBVIOUS
<1>1. ASSUME NEW p \in Process, NEW m \in Match, ReserveMatch(p, m) PROVE PipelineIInv'
  BY <1>1, ReserveMatchKeeps
<1>2. ASSUME NEW p \in Process, ClaimTickets(p) \/ AbortReservation(p) \/ ProcessStops(p) PROVE PipelineIInv'
  BY <1>2, ClaimTicketsKeeps, AbortReservationKeeps, ProcessStopsKeeps
<1>3. ASSUME NEW p \in Process, Loops(p) PROVE PipelineIInv'
  BY <1>3, ListCancellationsKeeps, ReconcileKeeps, ListFinalizationsKeeps, NextFinalizationKeeps,
     ReadReservationKeeps, LeaseForMatchKeeps, IssueLauncherGrantKeeps, DeliverKeeps DEF Loops
<1>4. ASSUME NEW m \in Match, RosterAccepts(m) \/ ReadyCheckCancelled(m) \/ LockLapses(m)
                                   \/ MatchGoesLive(m) \/ MatchIsOver(m)
      PROVE  PipelineIInv'
  BY <1>4, RosterAcceptsKeeps, ReadyCheckCancelledKeeps, LockLapsesKeeps, MatchGoesLiveKeeps, MatchIsOverKeeps
<1>5. CASE ServerDrained \/ OperatorPauses
  BY <1>5, ServerDrainedKeeps, OperatorPausesKeeps
<1>6. ASSUME UNCHANGED pipelineVars PROVE PipelineIInv'
  <2>0. PipelineTypeOK'
    BY <1>6 DEF pipelineVars, PipelineIInv, PipelineTypeOK
  <2>1. OneMaker' /\ AbortedIsNotReady' /\ Unreserved'
    BY <1>6 DEF pipelineVars, PipelineIInv, OneMaker, AbortedIsNotReady, Unreserved
  <2>2. CancelledForGood' /\ LiveIsPending'
    BY <1>6 DEF pipelineVars, PipelineIInv, CancelledForGood, LiveIsPending
  <2>3. FinalizedIsAccepted'
    BY <1>6 DEF pipelineVars, PipelineIInv, FinalizedIsAccepted, Accepted
  <2>4. DeliversLeased'
    BY <1>6 DEF pipelineVars, PipelineIInv, DeliversLeased
  <2>. QED
    BY <2>0, <2>1, <2>2, <2>3, <2>4 DEF PipelineIInv
<1>. QED
  BY <1>1, <1>2, <1>3, <1>4, <1>5, <1>6 DEF PipelineNext

\* The inductive invariant: a reservation is given up only for a match without a
\* live ready check, and a lease only for one that is not waiting for it.
THEOREM PipelineInvariant == PipelineSpec => []PipelineIInv
BY InitPipeline, PipelineStep, PTL DEF PipelineSpec

\* Every key, row and pass keeps its type (PipelineTypeOK).
THEOREM PipelineTypes == PipelineSpec => []PipelineTypeOK
BY PipelineInvariant, PTL DEF PipelineIInv

\* However many processes finalize a match at once, its players are sent to it
\* while its reservation stands and its server is leased (DeliveredHasServer).
THEOREM DeliveredToServer == PipelineSpec => DeliveredHasServer
<1>. DEFINE Step == \A m \in Match : stage[m] # "assigned" /\ stage'[m] = "assigned" =>
                      \/ reservation[m] = "pending" /\ server[m] = "active"
                      \/ m \in unanswered
<1>1. PipelineIInv /\ [PipelineNext]_pipelineVars => [Step]_pipelineVars
  <2>. SUFFICES ASSUME PipelineIInv, PipelineNext, NEW m \in Match, stage[m] # "assigned", stage'[m] = "assigned"
                PROVE  (reservation[m] = "pending" /\ server[m] = "active") \/ m \in unanswered
    OBVIOUS
  <2>0. stage \in [Match -> {"none", "ready", "allocating", "assigned", "cancelled", "over"}]
    BY DEF PipelineIInv, PipelineTypeOK
  <2>1. ASSUME NEW p \in Process, Deliver(p) PROVE (reservation[m] = "pending" /\ server[m] = "active") \/ m \in unanswered
    <3>1. /\ finalizer[p].pc = "deliver"
          /\ stage' = [stage EXCEPT ![finalizer[p].match] =
                         IF stage[finalizer[p].match] = "allocating" THEN "assigned" ELSE stage[finalizer[p].match]]
      BY <2>1 DEF Deliver
    <3>2. finalizer[p].match = m /\ stage[m] = "allocating"
      BY <2>0, <3>1
    <3>. QED
      BY <3>1, <3>2 DEF PipelineIInv, LiveIsPending, DeliversLeased
  <2>2. ASSUME NEW p \in Process, ClaimTickets(p) PROVE FALSE
    BY <2>0, <2>2 DEF ClaimTickets
  <2>3. ASSUME NEW n \in Match, RosterAccepts(n) \/ ReadyCheckCancelled(n) \/ MatchIsOver(n) PROVE FALSE
    BY <2>0, <2>3 DEF RosterAccepts, ReadyCheckCancelled, MatchIsOver
  <2>4. ASSUME UNCHANGED stage PROVE FALSE
    BY <2>4
  <2>. QED
    BY <2>1, <2>2, <2>3, <2>4
       DEF PipelineNext, Loops, ReserveMatch, AbortReservation, ListCancellations, Reconcile, ListFinalizations,
           NextFinalization, ReadReservation, LeaseForMatch, IssueLauncherGrant, LockLapses, MatchGoesLive,
           ProcessStops, ServerDrained, OperatorPauses
<1>2. PipelineSpec => [][Step]_pipelineVars
  BY <1>1, PipelineInvariant, PTL DEF PipelineSpec
<1>. QED
  BY <1>2 DEF DeliveredHasServer

=============================================================================
