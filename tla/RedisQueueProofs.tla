-------------------------- MODULE RedisQueueProofs --------------------------
(***************************************************************************)
(* IInv is an inductive invariant of RedisQueue, for every set of players, *)
(* parties, groups, matches and workers and every bound.                   *)
(***************************************************************************)
EXTENDS RedisQueue, FiniteSetTheorems, TLAPS

USE DEF ReadyLive, VetoActive

\* Two facts on the constants in the form the provers use.
LEMMA GroupFacts ==
  /\ NoGroup.members = {}
  /\ NoGroup.party = NoParty
  /\ \A g \in Group : g.members \subseteq Player /\ g.leader \in g.members
BY GroupAssumption DEF NoGroup

LEMMA InitIInv == Init => IInv
<1> SUFFICES ASSUME Init PROVE IInv
  OBVIOUS
<1> USE BoundsAssumption, MatchAssumption DEF Init
<1>1. TypeOK
  BY DEF TypeOK, Ticket, NoTicket, Phase, Ready, NoReady, Veto, NoVeto, Plan,
         NoPlan, Request, NoRequest, TicketId
<1>2. PointersLive
  BY DEF PointersLive
<1>3. NoTicketStranded
  BY DEF NoTicketStranded, NoTicket
<1>4. ClaimedOnce
  BY DEF ClaimedOnce, Claimed, NoReady, NoVeto
<1>5. CancelledMatchIsOver
  BY DEF CancelledMatchIsOver
<1>6. TicketShape /\ RecordShape /\ ClaimsSpent
  BY DEF TicketShape, RecordShape, ClaimsSpent, NoTicket, NoReady, NoVeto
<1>7. MatchFresh
  BY DEF MatchFresh, Unused, NoTicket, NoReady, NoVeto, NoPlan
<1>8. MatchStage /\ RequestShape
  BY DEF MatchStage, RequestShape, NoTicket, NoReady, NoVeto, NoRequest
<1>. QED
  BY <1>1, <1>2, <1>3, <1>4, <1>5, <1>6, <1>7, <1>8 DEF IInv

-----------------------------------------------------------------------------
(* Removing tickets *)

\* RemoveTickets keeps the types and the pointers, empties what it removes and
\* touches no other ticket.
LEMMA RemoveFacts ==
  ASSUME TypeOK, PointersLive, TicketShape,
         NEW S \in SUBSET TicketId, RemoveTickets(S)
  PROVE  /\ tickets' \in [TicketId -> Ticket]
         /\ pointer' \in [Player -> TicketId \cup {0}]
         /\ partyTicket' \in [Party -> TicketId \cup {0}]
         /\ searching' = searching \ S
         /\ \A t \in S : tickets'[t] = NoTicket
         /\ \A t \in TicketId \ S : tickets'[t] = tickets[t]
         /\ PointersLive'
<1>1. NoTicket \in Ticket
  BY DEF NoTicket, Ticket, Phase
<1>2. /\ tickets' \in [TicketId -> Ticket]
      /\ \A t \in S : tickets'[t] = NoTicket
      /\ \A t \in TicketId \ S : tickets'[t] = tickets[t]
  BY <1>1 DEF RemoveTickets, TypeOK
<1>3. /\ pointer' \in [Player -> TicketId \cup {0}]
      /\ partyTicket' \in [Party -> TicketId \cup {0}]
      /\ searching' = searching \ S
  BY DEF RemoveTickets, TypeOK
<1>4. \A p \in Player : pointer'[p] # 0 =>
         pointer'[p] = pointer[p] /\ pointer[p] \in TicketId \ S
  BY DEF RemoveTickets, TypeOK, PointersLive, Live
<1>5. \A y \in Party : partyTicket'[y] # 0 =>
         partyTicket'[y] = partyTicket[y] /\ partyTicket[y] \in TicketId \ S
  BY DEF RemoveTickets, TypeOK, PointersLive, Live
<1>6. PointersLive'
  BY <1>2, <1>4, <1>5 DEF PointersLive, Live
<1>. QED
  BY <1>2, <1>3, <1>6

\* A step that removes tickets and leaves every match record alone.
LEMMA RemovalIInv ==
  ASSUME IInv, NEW S \in SUBSET TicketId, RemoveTickets(S),
         request' \in [Player -> Request], RequestShape',
         UNCHANGED <<fence, readyVars, vetoVars, cancellations, penaltyVars,
                     roster, plan>>
  PROVE  IInv'
<1> USE DEF readyVars, vetoVars, penaltyVars
<1>1. /\ tickets' \in [TicketId -> Ticket]
      /\ pointer' \in [Player -> TicketId \cup {0}]
      /\ partyTicket' \in [Party -> TicketId \cup {0}]
      /\ searching' = searching \ S
      /\ \A t \in S : tickets'[t] = NoTicket
      /\ \A t \in TicketId \ S : tickets'[t] = tickets[t]
      /\ PointersLive'
  BY RemoveFacts DEF IInv
<1>2. TypeOK'
  BY <1>1 DEF IInv, TypeOK
<1>3. NoTicketStranded'
  BY <1>1 DEF IInv, NoTicketStranded, NoTicket
<1>4. ClaimedOnce' /\ RecordShape'
  BY DEF IInv, ClaimedOnce, Claimed, RecordShape
<1>5. CancelledMatchIsOver'
  BY <1>1, MatchAssumption DEF IInv, CancelledMatchIsOver, NoTicket
<1>6. TicketShape' /\ ClaimsSpent'
  BY <1>1 DEF IInv, TicketShape, ClaimsSpent, NoTicket
<1>7. \A m \in MatchId : Unused(m) => Unused(m)'
  BY <1>1, MatchAssumption DEF Unused, NoTicket
<1>8. MatchFresh'
  BY <1>7 DEF IInv, MatchFresh, TypeOK, Plan
<1>9. MatchStage'
  BY <1>1 DEF IInv, MatchStage, NoTicket
<1>. QED
  BY <1>1, <1>2, <1>3, <1>4, <1>5, <1>6, <1>8, <1>9 DEF IInv

\* A step that changes nothing but the request in progress.
LEMMA RequestIInv ==
  ASSUME IInv, request' \in [Player -> Request], RequestShape',
         UNCHANGED <<ticketVars, fence, readyVars, vetoVars, cancellations,
                     penaltyVars, roster, plan>>
  PROVE  IInv'
<1> USE DEF ticketVars, readyVars, vetoVars, penaltyVars
<1>1. TypeOK'
  BY DEF IInv, TypeOK
<1>2. PointersLive' /\ NoTicketStranded' /\ ClaimedOnce' /\ CancelledMatchIsOver'
  BY DEF IInv, PointersLive, Live, NoTicketStranded, ClaimedOnce, Claimed,
         CancelledMatchIsOver
<1>3. TicketShape' /\ RecordShape' /\ ClaimsSpent'
  BY DEF IInv, TicketShape, RecordShape, ClaimsSpent
<1>4. MatchFresh' /\ MatchStage'
  BY DEF IInv, MatchFresh, Unused, MatchStage
<1>. QED
  BY <1>1, <1>2, <1>3, <1>4 DEF IInv

\* Cancelling a live ready check.
LEMMA CancelIInv ==
  ASSUME IInv, NEW m \in MatchId, ReadyLive(m),
         NEW mode \in {"decline", "expiry"}, NEW requester,
         CancelReadyCheck(m, mode, requester),
         request' \in [Player -> Request], RequestShape'
  PROVE  IInv'
<1> USE DEF vetoVars
<1> DEFINE S == {t \in ready[m].tickets : Live(t)}
<1>0. /\ S \in SUBSET TicketId
      /\ RemoveTickets(S)
      /\ ready' = [ready EXCEPT ![m] = NoReady]
      /\ readyDeadlines' = readyDeadlines \ {m}
      /\ pressed' = [pressed EXCEPT ![m] = {}]
      /\ cancellations' = [cancellations EXCEPT ![m] = mode]
      /\ UNCHANGED <<fence, vetoVars, roster, plan>>
  BY DEF CancelReadyCheck, IInv, TypeOK, Ready, Live
<1>1. /\ tickets' \in [TicketId -> Ticket]
      /\ pointer' \in [Player -> TicketId \cup {0}]
      /\ partyTicket' \in [Party -> TicketId \cup {0}]
      /\ searching' = searching \ S
      /\ \A t \in S : tickets'[t] = NoTicket
      /\ \A t \in TicketId \ S : tickets'[t] = tickets[t]
      /\ PointersLive'
  BY <1>0, RemoveFacts DEF IInv
<1> HIDE DEF S
<1>2. /\ failures' \in [Player -> Nat]
      /\ cooldown' \in [Player -> {0, 30, 120, 600, 1800}]
  BY DEF CancelReadyCheck, CooldownSeconds, IInv, TypeOK
<1>3. ready' \in [MatchId -> Ready]
  BY <1>0, BoundsAssumption DEF IInv, TypeOK, Ready, NoReady
<1>4. TypeOK'
  BY <1>0, <1>1, <1>2, <1>3 DEF IInv, TypeOK
<1>5. \A t \in TicketId : tickets'[t].match # m
  <2> SUFFICES ASSUME NEW t \in TicketId, tickets'[t].match = m PROVE FALSE
    OBVIOUS
  <2>1. t \notin S /\ tickets[t].match = m
    BY <1>1, MatchAssumption DEF NoTicket
  <2>2. tickets[t].phase = "ready-check" => t \in S
    BY <2>1 DEF S, IInv, NoTicketStranded, Live
  <2>3. tickets[t].phase # "map-veto"
    BY <2>1 DEF IInv, NoTicketStranded, ClaimedOnce
  <2>4. tickets[t].phase # "assigned"
    BY <2>1 DEF IInv, MatchStage
  <2>5. tickets[t].phase \notin {"none", "searching"}
    BY <2>1, MatchAssumption DEF IInv, TicketShape, NoTicket
  <2>. QED
    BY <2>1, <2>2, <2>3, <2>4, <2>5 DEF IInv, TypeOK, Ticket, Phase
<1>6. NoTicketStranded'
  <2> SUFFICES ASSUME NEW t \in TicketId
               PROVE  NoTicketStranded!(t)'
    BY DEF NoTicketStranded
  <2>1. CASE t \in S
    BY <2>1, <1>1 DEF NoTicket
  <2>2. CASE t \notin S
    BY <2>2, <1>0, <1>1, <1>5 DEF IInv, NoTicketStranded, TicketShape, TypeOK
  <2>. QED
    BY <2>1, <2>2
<1>7. ClaimedOnce' /\ RecordShape'
  BY <1>0 DEF IInv, TypeOK, ClaimedOnce, Claimed, RecordShape, NoReady
<1>8. CancelledMatchIsOver'
  <2>1. ~ReadyLive(m)' /\ veto'[m].status = "none"
    BY <1>0 DEF IInv, TypeOK, ClaimedOnce, NoReady
  <2>2. ASSUME NEW n \in MatchId, n # m, cancellations'[n] # "none",
               NEW t \in TicketId
        PROVE  ~ReadyLive(n)' /\ veto'[n].status = "none"
                 /\ tickets'[t].match # n
    BY <2>2, <1>0, <1>1, MatchAssumption
    DEF IInv, TypeOK, CancelledMatchIsOver, NoTicket
  <2>3. ASSUME NEW n \in MatchId, n # m, cancellations'[n] # "none"
        PROVE  ~ReadyLive(n)' /\ veto'[n].status = "none"
    BY <2>3, <1>0 DEF IInv, TypeOK, CancelledMatchIsOver
  <2>. QED
    BY <2>1, <2>2, <2>3, <1>5 DEF CancelledMatchIsOver
<1>9. TicketShape'
  BY <1>0, <1>1 DEF IInv, TicketShape, NoTicket
<1>10. ClaimsSpent'
  BY <1>0, <1>1 DEF IInv, TypeOK, ClaimsSpent, NoTicket, NoReady
<1>11. \A n \in MatchId : Unused(n) => n # m /\ Unused(n)'
  BY <1>0, <1>1, MatchAssumption DEF Unused, NoTicket, IInv, TypeOK
<1>12. MatchFresh'
  BY <1>0, <1>11 DEF IInv, MatchFresh, TypeOK, Plan
<1>13. MatchStage'
  <2>1. \A n \in MatchId : ReadyLive(n)' \/ veto'[n].status # "none"
                             => cancellations'[n] = "none"
    BY <1>0 DEF IInv, MatchStage, TypeOK, ClaimedOnce, NoReady
  <2>2. \A t \in TicketId : tickets'[t].phase = "assigned" =>
          ready'[tickets'[t].match].status = "none"
            /\ veto'[tickets'[t].match].status = "none"
    BY <1>0, <1>1, <1>5 DEF IInv, MatchStage, TypeOK, NoTicket, TicketShape
  <2>. QED
    BY <2>1, <2>2 DEF MatchStage
<1>. QED
  BY <1>1, <1>4, <1>6, <1>7, <1>8, <1>9, <1>10, <1>12, <1>13 DEF IInv

\* Moving tickets changes the phase and match of the ones that still exist.
LEMMA MoveFacts ==
  ASSUME TypeOK, NEW S \in SUBSET TicketId, NEW phase \in Phase,
         NEW m \in MatchId, MoveTickets(S, phase, m)
  PROVE  /\ tickets' \in [TicketId -> Ticket]
         /\ \A t \in S : Live(t) => /\ tickets'[t].phase = phase
                                    /\ tickets'[t].match = m
                                    /\ tickets'[t].group = tickets[t].group
         /\ \A t \in TicketId : t \notin S \/ ~Live(t) => tickets'[t] = tickets[t]
<1>1. \A t \in TicketId :
        [phase |-> phase, group |-> tickets[t].group, match |-> m] \in Ticket
  BY DEF TypeOK, Ticket
<1>. QED
  BY <1>1 DEF MoveTickets, TypeOK

-----------------------------------------------------------------------------
(* Joining, leaving and reading *)

LEMMA JoinIInv ==
  ASSUME IInv, NEW g \in Group, Join(g)
  PROVE  IInv'
<1> USE DEF readyVars, vetoVars, penaltyVars
<1> DEFINE new == fence + 1
           ticket == [phase |-> "searching", group |-> g, match |-> NoMatch]
<1>1. /\ new \in TicketId
      /\ new > fence
      /\ fence' = new
      /\ ticket \in Ticket
  BY BoundsAssumption DEF Join, IInv, TypeOK, TicketId, Ticket, Phase
<1>2. /\ tickets' = [tickets EXCEPT ![new] = ticket]
      /\ searching' = searching \cup {new}
      /\ \A p \in Player : pointer'[p] = IF p \in g.members THEN new ELSE pointer[p]
      /\ \A y \in Party :
           partyTicket'[y] = IF y = g.party THEN new ELSE partyTicket[y]
      /\ UNCHANGED <<readyVars, vetoVars, cancellations, penaltyVars, roster,
                     plan, request>>
  BY DEF Join
<1>3. /\ pointer' \in [Player -> TicketId \cup {0}]
      /\ partyTicket' \in [Party -> TicketId \cup {0}]
  BY <1>1 DEF Join, IInv, TypeOK
<1>4. /\ tickets[new] = NoTicket
      /\ \A t \in TicketId \ {new} : tickets'[t] = tickets[t]
      /\ tickets'[new] = ticket
  BY <1>1, <1>2 DEF IInv, TypeOK, TicketShape, TicketId
<1>5. \A m \in MatchId : new \notin ready[m].tickets /\ new \notin veto[m].tickets
  <2>1. fence \in Nat /\ new \in Nat /\ ~(new <= fence)
    BY <1>1, BoundsAssumption DEF IInv, TypeOK, TicketId
  <2>. QED
    BY <1>1, <2>1 DEF IInv, ClaimsSpent
<1> HIDE DEF new
<1>6. TypeOK'
  <2>1. tickets' \in [TicketId -> Ticket] /\ searching' \subseteq TicketId
    BY <1>1, <1>2 DEF IInv, TypeOK
  <2>2. fence' \in 0..MaxTickets
    BY <1>1, BoundsAssumption DEF TicketId
  <2>. QED
    BY <1>2, <1>3, <2>1, <2>2 DEF IInv, TypeOK
<1>7. PointersLive'
  BY <1>1, <1>2, <1>4, GroupFacts DEF IInv, TypeOK, PointersLive, Live, NoTicket
<1>8. NoTicketStranded'
  BY <1>1, <1>2, <1>4 DEF IInv, TypeOK, NoTicketStranded, NoTicket
<1>9. ClaimedOnce' /\ RecordShape' /\ RequestShape'
  BY <1>2 DEF IInv, ClaimedOnce, Claimed, RecordShape, RequestShape
<1>10. CancelledMatchIsOver'
  BY <1>2, <1>4, MatchAssumption DEF IInv, CancelledMatchIsOver
<1>11. TicketShape'
  BY <1>1, <1>2, <1>4 DEF IInv, TicketShape, TypeOK, TicketId
<1>12. ClaimsSpent'
  BY <1>1, <1>2, <1>4, <1>5 DEF IInv, ClaimsSpent, TypeOK, TicketId
<1>13. \A m \in MatchId : Unused(m) => Unused(m)'
  BY <1>2, <1>4, MatchAssumption DEF Unused
<1>14. MatchFresh'
  BY <1>2, <1>13 DEF IInv, MatchFresh, TypeOK, Plan
<1>15. MatchStage'
  BY <1>2, <1>4 DEF IInv, MatchStage
<1>. QED
  BY <1>6, <1>7, <1>8, <1>9, <1>10, <1>11, <1>12, <1>14, <1>15 DEF IInv

\* Resuming, ending or starting a request keeps its type and shape.
LEMMA RequestFacts ==
  ASSUME IInv, NEW p \in Player,
         \/ Resume(p)
         \/ request' = [request EXCEPT ![p] = NoRequest]
         \/ \E op \in {"read", "leave"} : ReadPointer(p, op)
         \/ ReadTicket(p)
         \/ UNCHANGED request
  PROVE  request' \in [Player -> Request] /\ RequestShape'
<1>1. NoRequest \in Request
  BY DEF NoRequest, Request
<1>2. CASE Resume(p)
  <2>. DEFINE r == IF request[p].op = "leave" THEN [request[p] EXCEPT !.pc = "leaving"] ELSE NoRequest
  <2>1. request \in [Player -> Request] /\ request[p] \in Request /\ RequestShape
    BY DEF IInv, TypeOK
  <2>2. r \in Request
    BY <1>1, <2>1 DEF Request
  <2>3. r.pc \in {"leaving", "idle"}
    BY <2>1 DEF Request, NoRequest
  <2>4. request' = [request EXCEPT ![p] = r]
    BY <1>2 DEF Resume
  <2>. HIDE DEF r
  <2>5. request' \in [Player -> Request]
    BY <2>1, <2>2, <2>4
  <2>6. RequestShape'
    BY <2>1, <2>3, <2>4 DEF RequestShape
  <2>. QED
    BY <2>5, <2>6
<1>3. CASE request' = [request EXCEPT ![p] = NoRequest]
  BY <1>1, <1>3 DEF IInv, TypeOK, RequestShape, Request, NoRequest
<1>4. CASE \E op \in {"read", "leave"} : ReadPointer(p, op)
  <2>1. PICK op \in {"read", "leave"} : ReadPointer(p, op)
    BY <1>4
  <2>2. PICK r \in Request :
          /\ request' = [request EXCEPT ![p] = r]
          /\ r.pc = "pointed" => r.ticket \in TicketId
          /\ r.pc \notin {"lapsed", "declining"}
    <3> DEFINE r == [NoRequest EXCEPT !.op = op, !.ticket = pointer[p],
                       !.pc = IF pointer[p] # 0 THEN "pointed"
                              ELSE IF op = "leave" THEN "leaving" ELSE "idle"]
    <3>1. pointer[p] \in TicketId \cup {0}
      BY DEF IInv, TypeOK
    <3>2. /\ r \in Request
          /\ r.pc = "pointed" => r.ticket \in TicketId
          /\ r.pc \notin {"lapsed", "declining"}
      BY <3>1 DEF Request, NoRequest
    <3>. QED
      BY <2>1, <3>2 DEF ReadPointer
  <2>. QED
    BY <2>2 DEF IInv, TypeOK, RequestShape
<1>5. CASE ReadTicket(p)
  <2> DEFINE ticket == tickets[request[p].ticket]
  <2>1. /\ request[p].ticket \in TicketId
        /\ ticket \in Ticket
        /\ ticket.phase = "ready-check" => ticket.match \in MatchId
    BY <1>5 DEF ReadTicket, IInv, TypeOK, RequestShape, TicketShape
  <2> DEFINE late == ticket.phase = "ready-check" /\ ready[ticket.match].status = "late"
             next == AfterTicket(request[p].op, ticket, late)
  <2>2. /\ next \in {"gone", "lapsed", "declining", "idle", "leaving"}
        /\ next \in {"lapsed", "declining"} => ticket.phase = "ready-check"
        /\ request' = [request EXCEPT ![p] =
               IF next = "idle" THEN NoRequest
               ELSE [request[p] EXCEPT !.pc = next, !.match = ticket.match]]
    <3>1. /\ next \in {"gone", "lapsed", "declining", "idle", "leaving"}
          /\ next \in {"lapsed", "declining"} => ticket.phase = "ready-check"
      BY DEF AfterTicket
    <3>2. request' = [request EXCEPT ![p] =
               IF next = "idle" THEN NoRequest
               ELSE [request[p] EXCEPT !.pc = next, !.match = ticket.match]]
      BY <1>5 DEF ReadTicket
    <3>. QED
      BY <3>1, <3>2
  <2> HIDE DEF next, late
  <2>3. CASE next = "idle"
    BY <1>1, <2>2, <2>3 DEF IInv, TypeOK, RequestShape, NoRequest
  <2>4. CASE next # "idle"
    <3> DEFINE r == [request[p] EXCEPT !.pc = next, !.match = ticket.match]
    <3>1. request[p] \in Request /\ ticket.match \in MatchId \cup {NoMatch}
      BY <2>1 DEF IInv, TypeOK, Ticket
    <3>2. r \in Request /\ r.pc = next /\ r.match = ticket.match
      BY <2>2, <2>4, <3>1 DEF Request
    <3>3. request' = [request EXCEPT ![p] = r]
      BY <2>2, <2>4
    <3> HIDE DEF r, ticket
    <3>. QED
      BY <2>1, <2>2, <3>2, <3>3 DEF IInv, TypeOK, RequestShape
  <2>. QED
    BY <2>3, <2>4
<1>6. CASE UNCHANGED request
  BY <1>6 DEF IInv, TypeOK, RequestShape
<1>. QED
  BY <1>2, <1>3, <1>4, <1>5, <1>6

LEMMA LeavingIInv ==
  ASSUME IInv, NEW p \in Player,
         \/ \E t \in TicketId : ReleaseSearch(p, t)
         \/ LeaveTicket(p)
  PROVE  IInv'
<1>1. request' \in [Player -> Request] /\ RequestShape'
  BY RequestFacts DEF ReleaseSearch, LeaveTicket
<1>2. CASE \E t \in TicketId : ReleaseSearch(p, t)
  BY <1>1, <1>2, RemovalIInv DEF ReleaseSearch
<1>3. CASE LeaveTicket(p)
  <2>1. CASE RemoveTickets({pointer[p]}) /\ pointer[p] \in TicketId
    BY <1>1, <1>3, <2>1, RemovalIInv DEF LeaveTicket
  <2>2. CASE UNCHANGED ticketVars
    BY <1>1, <1>3, <2>2, RequestIInv DEF LeaveTicket
  <2>3. pointer[p] = 0 \/ Live(pointer[p])
    BY DEF IInv, PointersLive
  <2>. QED
    BY <1>3, <2>1, <2>2, <2>3 DEF LeaveTicket, Live
<1>. QED
  BY <1>2, <1>3

\* getQueueRuntime deletes a pointer without looking at it.
LEMMA DropPointerIInv ==
  ASSUME IInv, NEW p \in Player, DropPointer(p)
  PROVE  IInv'
<1> USE DEF readyVars, vetoVars, penaltyVars
<1>1. request' \in [Player -> Request] /\ RequestShape'
  BY RequestFacts DEF DropPointer
<1>2. /\ pointer' = [pointer EXCEPT ![p] = 0]
      /\ UNCHANGED <<tickets, partyTicket, searching, fence, readyVars, vetoVars,
                     cancellations, penaltyVars, roster, plan>>
  BY DEF DropPointer
<1>3. TypeOK'
  BY <1>1, <1>2 DEF IInv, TypeOK
<1>4. PointersLive'
  BY <1>2 DEF IInv, TypeOK, PointersLive, Live
<1>5. NoTicketStranded' /\ ClaimedOnce' /\ CancelledMatchIsOver'
  BY <1>2 DEF IInv, NoTicketStranded, ClaimedOnce, Claimed, CancelledMatchIsOver
<1>6. TicketShape' /\ RecordShape' /\ ClaimsSpent'
  BY <1>2 DEF IInv, TicketShape, RecordShape, ClaimsSpent
<1>7. MatchFresh' /\ MatchStage'
  BY <1>2 DEF IInv, MatchFresh, Unused, MatchStage
<1>. QED
  BY <1>1, <1>3, <1>4, <1>5, <1>6, <1>7 DEF IInv

LEMMA ReadingIInv ==
  ASSUME IInv, NEW p \in Player,
         \/ \E op \in {"read", "leave"} : ReadPointer(p, op)
         \/ ReadTicket(p)
         \/ RequestLost(p)
  PROVE  IInv'
BY RequestFacts, RequestIInv DEF ReadPointer, ReadTicket, RequestLost

\* Every step that cancels a ready check.
LEMMA CancellingIInv ==
  ASSUME IInv,
         \/ \E p \in Player : \/ CancelLapsed(p) \/ Decline(p)
                              \/ \E m \in MatchId : AcceptTooLate(p, m)
         \/ \E m \in MatchId : SweepReadyCheck(m)
  PROVE  IInv'
<1>1. ASSUME NEW p \in Player, CancelLapsed(p) \/ Decline(p) PROVE IInv'
  <2> DEFINE m == request[p].match
  <2>1. m \in MatchId
    BY <1>1 DEF CancelLapsed, Decline, IInv, RequestShape
  <2>2. request' \in [Player -> Request] /\ RequestShape'
    BY <1>1, RequestFacts DEF CancelLapsed, Decline
  <2>3. \/ ReadyLive(m) /\ CancelReadyCheck(m, "expiry", p)
        \/ ReadyLive(m) /\ CancelReadyCheck(m, "decline", p)
        \/ UNCHANGED <<ticketVars, fence, readyVars, vetoVars, cancellations,
                       penaltyVars, roster, plan>>
    BY <1>1 DEF CancelLapsed, Decline
  <2>. QED
    BY <2>1, <2>2, <2>3, CancelIInv, RequestIInv
<1>2. ASSUME NEW m \in MatchId,
             SweepReadyCheck(m) \/ \E p \in Player : AcceptTooLate(p, m)
      PROVE  IInv'
  <2>1. /\ ReadyLive(m) /\ UNCHANGED request
        /\ \E requester : CancelReadyCheck(m, "expiry", requester)
    BY <1>2 DEF SweepReadyCheck, AcceptTooLate
  <2>2. request' \in [Player -> Request] /\ RequestShape'
    BY <2>1 DEF IInv, TypeOK, RequestShape
  <2>. QED
    BY <2>1, <2>2, CancelIInv
<1>. QED
  BY <1>1, <1>2

-----------------------------------------------------------------------------
(* The matchmaker *)

LEMMA SelectMatchIInv ==
  ASSUME IInv, NEW w \in Worker, SelectMatch(w)
  PROVE  IInv'
<1> USE DEF ticketVars, readyVars, vetoVars, penaltyVars
<1>1. PICK m \in MatchId, S \in SUBSET searching, k \in 0..MaxMaps :
        /\ roster[m] = {} /\ S # {}
        /\ plan' = [plan EXCEPT ![w] = [tickets |-> S, match |-> m, maps |-> k]]
        /\ roster' = [roster EXCEPT ![m] =
             UNION {tickets[t].group.members : t \in S}]
  BY DEF SelectMatch
<1> DEFINE who == UNION {tickets[t].group.members : t \in S}
           new == [tickets |-> S, match |-> m, maps |-> k]
<1>2. /\ plan[w] = NoPlan
      /\ UNCHANGED <<ticketVars, fence, readyVars, vetoVars, cancellations,
                     penaltyVars, request>>
  BY DEF SelectMatch
<1>3. who \in SUBSET Player /\ who # {}
  <2>1. \A t \in S : t \in TicketId /\ tickets[t].group \in Group
    BY DEF IInv, TypeOK, NoTicketStranded, TicketShape
  <2>. QED
    BY <1>1, <2>1, GroupFacts
<1>4. new \in Plan /\ new.match = m
  BY DEF IInv, TypeOK, Plan
<1>5. plan' = [plan EXCEPT ![w] = new] /\ roster' = [roster EXCEPT ![m] = who]
  BY <1>1
<1> HIDE DEF who, new
<1>6. TypeOK'
  BY <1>2, <1>3, <1>4, <1>5 DEF IInv, TypeOK
<1>7. PointersLive' /\ NoTicketStranded' /\ ClaimedOnce' /\ CancelledMatchIsOver'
  BY <1>2 DEF IInv, PointersLive, Live, NoTicketStranded, ClaimedOnce, Claimed,
              CancelledMatchIsOver
<1>8. TicketShape' /\ RecordShape' /\ ClaimsSpent' /\ MatchStage' /\ RequestShape'
  BY <1>2 DEF IInv, TicketShape, RecordShape, ClaimsSpent, MatchStage,
              RequestShape
<1>9. \A n \in MatchId : Unused(n) => Unused(n)'
  BY <1>2 DEF Unused
<1>10. /\ \A n \in MatchId \ {m} : roster'[n] = roster[n]
       /\ roster'[m] # {}
       /\ \A v \in Worker \ {w} : plan'[v] = plan[v]
       /\ plan'[w].match = m
  BY <1>3, <1>4, <1>5 DEF IInv, TypeOK
<1>11. Unused(m) /\ \A v \in Worker : plan[v].match # m
  BY <1>1, MatchAssumption DEF IInv, MatchFresh
<1>12. \A v \in Worker : plan[v].match \in MatchId \cup {NoMatch}
  BY DEF IInv, TypeOK, Plan
<1>13. MatchFresh'
  <2>1. \A n \in MatchId : roster'[n] = {} => Unused(n)'
    BY <1>9, <1>10 DEF IInv, MatchFresh
  <2>2. \A v \in Worker : plan'[v].match # NoMatch =>
          (Unused(plan[v].match) /\ roster[plan[v].match] # {})'
    BY <1>9, <1>10, <1>11, <1>12 DEF IInv, MatchFresh
  <2>3. \A u, v \in Worker :
          u # v /\ plan'[u].match # NoMatch => plan'[u].match # plan'[v].match
    BY <1>10, <1>11, <1>12 DEF IInv, MatchFresh
  <2>. QED
    BY <2>1, <2>2, <2>3 DEF MatchFresh
<1>. QED
  BY <1>6, <1>7, <1>8, <1>13 DEF IInv

LEMMA PassEndsIInv ==
  ASSUME IInv, NEW w \in Worker, ClaimStale(w) \/ PassLost(w)
  PROVE  IInv'
<1> USE DEF ticketVars, readyVars, vetoVars, penaltyVars
<1>1. /\ plan' = [plan EXCEPT ![w] = NoPlan]
      /\ UNCHANGED <<ticketVars, fence, readyVars, vetoVars, cancellations,
                     penaltyVars, roster, request>>
  BY DEF ClaimStale, PassLost
<1>2. TypeOK'
  BY <1>1, BoundsAssumption DEF IInv, TypeOK, Plan, NoPlan
<1>3. PointersLive' /\ NoTicketStranded' /\ ClaimedOnce' /\ CancelledMatchIsOver'
  BY <1>1 DEF IInv, PointersLive, Live, NoTicketStranded, ClaimedOnce, Claimed,
              CancelledMatchIsOver
<1>4. TicketShape' /\ RecordShape' /\ ClaimsSpent' /\ MatchStage' /\ RequestShape'
  BY <1>1 DEF IInv, TicketShape, RecordShape, ClaimsSpent, MatchStage,
              RequestShape
<1>5. MatchFresh'
  BY <1>1 DEF IInv, MatchFresh, Unused, TypeOK, NoPlan
<1>. QED
  BY <1>2, <1>3, <1>4, <1>5 DEF IInv

LEMMA CreateReadyCheckIInv ==
  ASSUME IInv, NEW w \in Worker, CreateReadyCheck(w)
  PROVE  IInv'
<1> USE DEF vetoVars, penaltyVars
<1> DEFINE S == plan[w].tickets
           m == plan[w].match
           record == [status |-> "open", tickets |-> S,
                      members |-> UNION {tickets[t].group.members : t \in S},
                      accepted |-> {}, maps |-> plan[w].maps]
<1>1. /\ m \in MatchId /\ S \subseteq TicketId
      /\ \A t \in S : tickets[t].phase = "searching"
      /\ Unused(m) /\ roster[m] # {}
  BY DEF CreateReadyCheck, ClaimsValid, IInv, TypeOK, Plan, MatchFresh
<1>2. /\ ready' = [ready EXCEPT ![m] = record]
      /\ readyDeadlines' = readyDeadlines \cup {m}
      /\ searching' = searching \ S
      /\ plan' = [plan EXCEPT ![w] = NoPlan]
      /\ UNCHANGED <<pointer, partyTicket, fence, vetoVars, cancellations,
                     penaltyVars, roster, request, pressed>>
  BY DEF CreateReadyCheck
<1>3. /\ tickets' \in [TicketId -> Ticket]
      /\ \A t \in S : /\ tickets'[t].phase = "ready-check"
                      /\ tickets'[t].match = m
                      /\ tickets'[t].group = tickets[t].group
      /\ \A t \in TicketId \ S : tickets'[t] = tickets[t]
  <2>1. MoveTickets(S, "ready-check", m) /\ "ready-check" \in Phase
    BY DEF CreateReadyCheck, Phase
  <2> HIDE DEF S, m
  <2>2. \A t \in S : Live(t)
    BY <1>1 DEF Live
  <2>. QED
    BY <1>1, <2>1, <2>2, MoveFacts DEF IInv
<1>4. record \in Ready /\ record.tickets = S /\ record.status = "open"
  <2>1. \A t \in S : tickets[t].group \in Group
    BY <1>1 DEF IInv, TicketShape
  <2>. QED
    BY <1>1, <2>1, GroupFacts DEF Ready, IInv, TypeOK, Plan
<1>5. NoPlan \in Plan /\ NoPlan.match = NoMatch
  BY BoundsAssumption DEF Plan, NoPlan
<1> HIDE DEF S, m, record
<1>6. TypeOK'
  BY <1>1, <1>2, <1>3, <1>4, <1>5 DEF IInv, TypeOK
<1>7. PointersLive'
  BY <1>1, <1>2, <1>3 DEF IInv, TypeOK, PointersLive, Live
<1>8. \A n \in MatchId, t \in S :
        t \notin ready[n].tickets /\ t \notin veto[n].tickets
  BY <1>1 DEF IInv, ClaimsSpent
<1>9. /\ \A n \in MatchId \ {m} : ready'[n] = ready[n]
      /\ ready'[m] = record
  BY <1>1, <1>2 DEF IInv, TypeOK
<1>10. NoTicketStranded'
  <2> SUFFICES ASSUME NEW t \in TicketId PROVE NoTicketStranded!(t)'
    BY DEF NoTicketStranded
  <2>1. CASE t \in S
    BY <2>1, <1>1, <1>2, <1>3, <1>4, <1>9
  <2>2. CASE t \notin S
    <3>1. tickets[t].match # m
      BY <1>1 DEF Unused
    <3>. QED
      BY <2>2, <3>1, <1>1, <1>2, <1>3, <1>9 DEF IInv, NoTicketStranded, TicketShape
  <2>. QED
    BY <2>1, <2>2
<1>11. ClaimedOnce' /\ RecordShape'
  <2>1. ClaimedOnce'
    BY <1>1, <1>2, <1>4, <1>8, <1>9
    DEF IInv, TypeOK, ClaimedOnce, Claimed, RecordShape, Unused
  <2>2a. record.accepted = {}
    BY DEF record
  <2>2. record.accepted = {} /\ pressed'[m] = {}
    BY <1>1, <1>2, <2>2a DEF Unused
  <2>3. ASSUME NEW n \in MatchId, n # m PROVE RecordShape!(n)'
    BY <1>2, <1>9, <2>3 DEF IInv, TypeOK, RecordShape
  <2>4. veto[m].status = "none" /\ veto[m].tickets = {} /\ m \in readyDeadlines'
    BY <1>1, <1>2 DEF IInv, RecordShape, Unused
  <2>5. ASSUME NEW n \in MatchId, n = m PROVE RecordShape!(n)'
    BY <1>2, <1>4, <1>9, <2>2, <2>4, <2>5
  <2>6. RecordShape'
    BY <2>3, <2>5 DEF RecordShape
  <2>. QED
    BY <2>1, <2>6
<1>12. CancelledMatchIsOver'
  BY <1>1, <1>2, <1>3, <1>9 DEF IInv, CancelledMatchIsOver, Unused
<1>13. TicketShape'
  BY <1>1, <1>2, <1>3 DEF IInv, TicketShape
<1>14. ClaimsSpent'
  BY <1>1, <1>2, <1>3, <1>4, <1>8, <1>9 DEF IInv, ClaimsSpent, TicketShape
<1>15. \A n \in MatchId \ {m} : Unused(n) => Unused(n)'
  BY <1>2, <1>3, <1>9 DEF Unused
<1>16. \A v \in Worker : plan'[v].match # NoMatch =>
         v # w /\ plan'[v] = plan[v] /\ plan[v].match \in MatchId \ {m}
  BY <1>1, <1>2, <1>5 DEF IInv, TypeOK, Plan, MatchFresh, m
<1>17. MatchFresh'
  BY <1>1, <1>2, <1>15, <1>16 DEF IInv, MatchFresh
<1>18. MatchStage' /\ RequestShape'
  BY <1>1, <1>2, <1>3, <1>9
  DEF IInv, MatchStage, RequestShape, Unused
<1>. QED
  BY <1>6, <1>7, <1>10, <1>11, <1>12, <1>13, <1>14, <1>17, <1>18 DEF IInv

-----------------------------------------------------------------------------
(* Acceptance and the veto *)

\* Steps that touch a match record without moving a ticket: an acceptance that
\* still waits, a deadline, a map ban, an acknowledgement, a cooldown.
LEMMA RecordIInv ==
  ASSUME IInv, TypeOK', RecordShape',
         UNCHANGED <<ticketVars, fence, roster, plan, request>>,
         \A n \in MatchId :
           /\ ready'[n].status = "none" <=> ready[n].status = "none"
           /\ ready'[n].tickets = ready[n].tickets
           /\ veto'[n].status = "none" <=> veto[n].status = "none"
           /\ veto'[n].tickets = veto[n].tickets
           /\ cancellations[n] = "none" => cancellations'[n] = "none"
           /\ ready[n].status = "none" => pressed'[n] = pressed[n]
  PROVE  IInv'
<1> USE DEF ticketVars
<1>1. PointersLive' /\ ClaimedOnce' /\ CancelledMatchIsOver'
  <2>1. PointersLive'
    BY DEF IInv, PointersLive, Live
  <2>2. ClaimedOnce'
    BY DEF IInv, ClaimedOnce, Claimed
  <2>3. CancelledMatchIsOver'
    BY DEF IInv, CancelledMatchIsOver
  <2>. QED
    BY <2>1, <2>2, <2>3
<1>2. NoTicketStranded'
  <2> SUFFICES ASSUME NEW t \in TicketId PROVE NoTicketStranded!(t)'
    BY DEF NoTicketStranded
  <2> DEFINE m == tickets[t].match
  <2>1. CASE tickets[t].phase = "map-veto"
    <3>1. m \in MatchId /\ veto[m].status # "none" /\ t \in veto[m].tickets
      BY <2>1 DEF IInv, NoTicketStranded, TicketShape
    <3>2. veto'[m].status # "none" /\ t \in veto'[m].tickets
      BY <3>1
    <3>3. veto'[m].status \in {"active", "overdue", "allocating"}
      BY <3>1, <3>2 DEF TypeOK, Veto
    <3>4. UNCHANGED <<tickets, searching>>
      OBVIOUS
    <3>5. \/ veto'[m].status \in {"active", "overdue"} /\ m \in vetoDeadlines'
          \/ veto'[m].status = "allocating" /\ m \in finalizations'
      BY <3>1, <3>3 DEF RecordShape
    <3>. QED
      BY <2>1, <3>2, <3>4, <3>5 DEF IInv, NoTicketStranded
  <2>2. CASE tickets[t].phase # "map-veto"
    BY <2>2 DEF IInv, NoTicketStranded, TicketShape, RecordShape
  <2>. QED
    BY <2>1, <2>2
<1>3. TicketShape' /\ ClaimsSpent' /\ MatchStage' /\ RequestShape'
  <2>1. TicketShape' /\ RequestShape'
    BY DEF IInv, TicketShape, RequestShape
  <2>2. ClaimsSpent'
    BY DEF IInv, ClaimsSpent
  <2>3. MatchStage'
    BY DEF IInv, MatchStage, TicketShape
  <2>. QED
    BY <2>1, <2>2, <2>3
<1>4. \A m \in MatchId : Unused(m) => Unused(m)'
  BY DEF Unused
<1>5. MatchFresh'
  BY <1>4 DEF IInv, MatchFresh, TypeOK, Plan
<1>. QED
  BY <1>1, <1>2, <1>3, <1>5 DEF IInv

LEMMA QuietIInv ==
  ASSUME IInv,
         \/ \E p \in Player : \/ CooldownEnds(p) \/ FailuresExpire(p)
                              \/ \E m \in MatchId : AcceptWaits(p, m)
         \/ \E m \in MatchId : \/ ReadyDeadline(m) \/ AcknowledgeCancellation(m)
                               \/ VetoDeadline(m) \/ BanMap(m) \/ SweepVeto(m)
  PROVE  IInv'
<1> USE DEF readyVars, vetoVars, penaltyVars
<1>1. ASSUME NEW p \in Player, CooldownEnds(p) \/ FailuresExpire(p) PROVE IInv'
  <2>1. UNCHANGED <<ticketVars, fence, readyVars, vetoVars, cancellations,
                    roster, plan, request>>
    BY <1>1 DEF CooldownEnds, FailuresExpire
  <2>2. TypeOK' /\ RecordShape'
    BY <1>1, <2>1
    DEF CooldownEnds, FailuresExpire, IInv, TypeOK, RecordShape, ticketVars
  <2>. QED
    BY <2>1, <2>2, RecordIInv
<1>2. ASSUME NEW m \in MatchId, NEW r \in Ready, ready' = [ready EXCEPT ![m] = r],
             r.status = "none" <=> ready[m].status = "none", r.tickets = ready[m].tickets,
             ready[m].status # "none",
             pressed' = [pressed EXCEPT ![m] = r.accepted],
             UNCHANGED <<ticketVars, fence, readyDeadlines, vetoVars,
                         cancellations, penaltyVars, roster, plan, request>>
      PROVE  IInv'
  <2>0. r.accepted \in SUBSET Player
    BY DEF Ready
  <2>1. TypeOK' /\ RecordShape'
    BY <1>2, <2>0 DEF IInv, TypeOK, RecordShape, ticketVars
  <2>2. \A n \in MatchId :
          /\ ready'[n].status = "none" <=> ready[n].status = "none"
          /\ ready'[n].tickets = ready[n].tickets
          /\ ready[n].status = "none" => pressed'[n] = pressed[n]
    BY <1>2 DEF IInv, TypeOK
  <2>. QED
    BY <1>2, <2>1, <2>2, RecordIInv
<1>3. ASSUME NEW m \in MatchId, NEW p \in Player, AcceptWaits(p, m) PROVE IInv'
  <2> DEFINE r == [ready[m] EXCEPT !.accepted = AcceptedBy(p, m)]
  <2>1. /\ ready[m] \in Ready /\ ready[m].status # "none"
        /\ pressed[m] = ready[m].accepted
    BY <1>3 DEF IInv, TypeOK, RecordShape, AcceptWaits, Acceptance
  <2>2. /\ r \in Ready /\ r.status = ready[m].status /\ r.tickets = ready[m].tickets
        /\ r.accepted = pressed[m] \cup {p}
    BY <2>1 DEF AcceptedBy, Ready
  <2>3. /\ ready' = [ready EXCEPT ![m] = r]
        /\ pressed' = [pressed EXCEPT ![m] = r.accepted]
    BY <1>3, <2>2 DEF AcceptWaits, Presses
  <2>4. UNCHANGED <<ticketVars, fence, readyDeadlines, vetoVars,
                    cancellations, penaltyVars, roster, plan, request>>
    BY <1>3 DEF AcceptWaits
  <2> HIDE DEF r
  <2>. QED
    BY <1>2, <2>1, <2>2, <2>3, <2>4
<1>4. ASSUME NEW m \in MatchId, ReadyDeadline(m) PROVE IInv'
  <2> DEFINE r == [ready[m] EXCEPT !.status = "late"]
  <2>1. /\ ready[m] \in Ready /\ ready[m].status = "open"
        /\ pressed[m] = ready[m].accepted /\ pressed \in [MatchId -> SUBSET Player]
    BY <1>4 DEF ReadyDeadline, IInv, TypeOK, RecordShape
  <2>2. /\ r \in Ready /\ r.status = "late" /\ r.tickets = ready[m].tickets
        /\ r.accepted = pressed[m]
    BY <2>1 DEF Ready
  <2>3. /\ ready' = [ready EXCEPT ![m] = r]
        /\ pressed' = [pressed EXCEPT ![m] = r.accepted]
    BY <1>4, <2>1, <2>2 DEF ReadyDeadline
  <2>4. UNCHANGED <<ticketVars, fence, readyDeadlines, vetoVars,
                    cancellations, penaltyVars, roster, plan, request>>
    BY <1>4 DEF ReadyDeadline
  <2> HIDE DEF r
  <2>. QED
    BY <1>2, <2>1, <2>2, <2>3, <2>4
<1>5. ASSUME NEW m \in MatchId, AcknowledgeCancellation(m) PROVE IInv'
  <2>1. UNCHANGED <<ticketVars, fence, readyVars, vetoVars, penaltyVars,
                    roster, plan, request>>
    BY <1>5 DEF AcknowledgeCancellation
  <2>2. TypeOK' /\ RecordShape'
    BY <1>5, <2>1
    DEF AcknowledgeCancellation, IInv, TypeOK, RecordShape, ticketVars
  <2>3. \A n \in MatchId : cancellations[n] = "none" => cancellations'[n] = "none"
    BY <1>5 DEF AcknowledgeCancellation, IInv, TypeOK
  <2>. QED
    BY <2>1, <2>2, <2>3, RecordIInv
<1>6. ASSUME NEW m \in MatchId, NEW v \in Veto, veto' = [veto EXCEPT ![m] = v],
             v.status # "none", veto[m].status # "none",
             v.tickets = veto[m].tickets,
             v.status \in {"active", "overdue"} => m \in vetoDeadlines',
             v.status = "allocating" => m \in finalizations',
             vetoDeadlines' \subseteq MatchId, finalizations' \subseteq MatchId,
             vetoDeadlines \ {m} \subseteq vetoDeadlines',
             finalizations \subseteq finalizations',
             UNCHANGED <<ticketVars, fence, readyVars, cancellations,
                         penaltyVars, roster, plan, request>>
      PROVE  IInv'
  <2>1. TypeOK'
    BY <1>6 DEF IInv, TypeOK, ticketVars
  <2>2. RecordShape'
    BY <1>6 DEF IInv, TypeOK, RecordShape
  <2>3. \A n \in MatchId : /\ veto'[n].status = "none" <=> veto[n].status = "none"
                           /\ veto'[n].tickets = veto[n].tickets
    BY <1>6 DEF IInv, TypeOK
  <2>. QED
    BY <1>6, <2>1, <2>2, <2>3, RecordIInv
<1>7. ASSUME NEW m \in MatchId, VetoDeadline(m) PROVE IInv'
  <2> DEFINE v == [veto[m] EXCEPT !.status = "overdue"]
  <2>1. veto[m] \in Veto /\ veto[m].status = "active"
    BY <1>7 DEF VetoDeadline, IInv, TypeOK
  <2>2. v \in Veto /\ v.status = "overdue" /\ v.tickets = veto[m].tickets
    BY <2>1 DEF Veto
  <2>3. veto' = [veto EXCEPT ![m] = v]
    BY <1>7 DEF VetoDeadline
  <2>4. /\ UNCHANGED <<ticketVars, fence, readyVars, cancellations,
                       penaltyVars, roster, plan, request>>
        /\ vetoDeadlines' = vetoDeadlines /\ finalizations' = finalizations
    BY <1>7 DEF VetoDeadline
  <2>5. /\ m \in vetoDeadlines
        /\ vetoDeadlines \subseteq MatchId /\ finalizations \subseteq MatchId
    BY <2>1 DEF IInv, RecordShape, TypeOK
  <2> HIDE DEF v
  <2>. QED
    BY <1>6, <2>1, <2>2, <2>3, <2>4, <2>5
<1>8. ASSUME NEW m \in MatchId, BanMap(m) PROVE IInv'
  <2> DEFINE left == veto[m].left - 1
             after == IF left = 1 THEN "allocating" ELSE "active"
             v == [veto[m] EXCEPT !.left = left, !.status = after]
  <2>1. veto[m] \in Veto /\ veto[m].status # "none" /\ left \in 0..MaxMaps
    BY <1>8, BoundsAssumption DEF BanMap, IInv, TypeOK, Veto
  <2>2. v \in Veto /\ v.status = after /\ v.tickets = veto[m].tickets
    BY <2>1 DEF Veto
  <2>3. veto' = [veto EXCEPT ![m] = v]
    BY <1>8 DEF BanMap
  <2>4. /\ UNCHANGED <<ticketVars, fence, readyVars, cancellations,
                       penaltyVars, roster, plan, request>>
        /\ after \in {"active", "allocating"}
        /\ after = "active" => m \in vetoDeadlines'
        /\ after = "allocating" => m \in finalizations'
        /\ vetoDeadlines \ {m} \subseteq vetoDeadlines'
        /\ finalizations \subseteq finalizations'
        /\ vetoDeadlines' \subseteq MatchId /\ finalizations' \subseteq MatchId
    BY <1>8 DEF BanMap, IndexAfterBan, IInv, TypeOK
  <2> HIDE DEF v, after, left
  <2>. QED
    BY <1>6, <2>1, <2>2, <2>3, <2>4
<1>9. ASSUME NEW m \in MatchId, SweepVeto(m) PROVE IInv'
  BY <1>8, <1>9 DEF SweepVeto
<1>. QED
  BY <1>1, <1>3, <1>4, <1>5, <1>7, <1>8, <1>9

\* The end of a ready check that everyone accepted: its record is deleted and
\* its tickets move together, to a veto record v or straight to assigned.
LEMMA AcceptedIInv ==
  ASSUME IInv, NEW m \in MatchId, ReadyLive(m), NEW p \in Player, Presses(p, m),
         NEW v \in Veto, NEW phase \in {"map-veto", "assigned"},
         \/ /\ phase = "map-veto" /\ v.tickets = ready[m].tickets
            /\ \/ v.status = "active" /\ m \in vetoDeadlines'
               \/ v.status = "allocating" /\ m \in finalizations'
         \/ phase = "assigned" /\ v = veto[m],
         MoveTickets(ready[m].tickets, phase, m),
         ready' = [ready EXCEPT ![m] = NoReady],
         readyDeadlines' = readyDeadlines \ {m},
         veto' = [veto EXCEPT ![m] = v],
         vetoDeadlines \subseteq vetoDeadlines', vetoDeadlines' \subseteq MatchId,
         finalizations \subseteq finalizations', finalizations' \subseteq MatchId,
         UNCHANGED <<pointer, partyTicket, searching, fence, cancellations,
                     penaltyVars, roster, plan, request>>
  PROVE  IInv'
<1> USE DEF penaltyVars
<1> DEFINE S == ready[m].tickets
<1>1. S \in SUBSET TicketId /\ phase \in Phase
  BY DEF IInv, TypeOK, Ready, Phase
<1>2. MoveTickets(S, phase, m)
  OBVIOUS
<1>3. /\ veto[m].status = "none" /\ veto[m].tickets = {}
      /\ cancellations[m] = "none" /\ roster[m] # {}
      /\ \A w \in Worker : plan[w].match # m
  BY MatchAssumption
  DEF IInv, ClaimedOnce, RecordShape, MatchStage, MatchFresh, Unused
<1>4. \A t \in S : /\ t <= fence
                   /\ \/ tickets[t].phase = "none"
                      \/ tickets[t].phase = "ready-check" /\ tickets[t].match = m
  BY <1>1 DEF IInv, ClaimsSpent
<1>5. \A t \in TicketId \ S : tickets[t].match # m
  BY <1>3, MatchAssumption
  DEF IInv, NoTicketStranded, TicketShape, MatchStage, TypeOK, Ticket, Phase,
      NoTicket
<1>6. \A n \in MatchId \ {m} :
        /\ S \cap ready[n].tickets = {} /\ S \cap veto[n].tickets = {}
        /\ ready'[n] = ready[n] /\ veto'[n] = veto[n]
  BY DEF IInv, TypeOK, ClaimedOnce, Claimed
<1>7a. /\ pressed' \in [MatchId -> SUBSET Player]
       /\ \A n \in MatchId \ {m} : pressed'[n] = pressed[n]
  BY DEF Presses, IInv, TypeOK
<1>7. /\ ready'[m] = NoReady /\ veto'[m] = v
      /\ NoReady.status = "none" /\ NoReady.tickets = {} /\ NoReady \in Ready
  BY BoundsAssumption DEF IInv, TypeOK, NoReady, Ready
<1> HIDE DEF S
<1>8. /\ tickets' \in [TicketId -> Ticket]
      /\ \A t \in S : tickets[t].phase # "none" =>
           /\ tickets'[t].phase = phase
           /\ tickets'[t].match = m
           /\ tickets'[t].group = tickets[t].group
      /\ \A t \in TicketId :
           t \notin S \/ tickets[t].phase = "none" => tickets'[t] = tickets[t]
  <2>1. TypeOK
    BY DEF IInv
  <2>2. /\ tickets' \in [TicketId -> Ticket]
        /\ \A t \in S : Live(t) => /\ tickets'[t].phase = phase
                                   /\ tickets'[t].match = m
                                   /\ tickets'[t].group = tickets[t].group
        /\ \A t \in TicketId : t \notin S \/ ~Live(t) => tickets'[t] = tickets[t]
    BY <1>1, <1>2, <2>1, MoveFacts
  <2>. QED
    BY <1>1, <2>2 DEF Live
<1>9. TypeOK'
  <2>1. ready' \in [MatchId -> Ready] /\ veto' \in [MatchId -> Veto]
    BY <1>7 DEF IInv, TypeOK
  <2>2. readyDeadlines' \subseteq MatchId
    BY DEF IInv, TypeOK
  <2>. QED
    BY <1>7a, <1>8, <2>1, <2>2 DEF IInv, TypeOK
<1>10. PointersLive'
  BY <1>8 DEF IInv, TypeOK, PointersLive, Live
<1>11. NoTicketStranded'
  <2> SUFFICES ASSUME NEW t \in TicketId PROVE NoTicketStranded!(t)'
    BY DEF NoTicketStranded
  <2>1. CASE tickets[t].phase = "none"
    BY <2>1, <1>8 DEF IInv, NoTicketStranded
  <2>2. CASE t \in S /\ tickets[t].phase # "none"
    BY <2>2, <1>4, <1>7, <1>8 DEF IInv, NoTicketStranded, S
  <2>3. CASE t \notin S
    BY <2>3, <1>5, <1>6, <1>8 DEF IInv, NoTicketStranded, TicketShape
  <2>. QED
    BY <2>1, <2>2, <2>3
<1>12. v.tickets \subseteq S /\ (v.status = "none" => v.tickets = {})
  BY <1>3 DEF S
<1>13. ClaimedOnce'
  BY <1>6, <1>7, <1>12 DEF IInv, ClaimedOnce, Claimed
<1>14. RecordShape'
  <2>1. ASSUME NEW n \in MatchId \ {m} PROVE RecordShape!(n)'
    BY <1>6, <1>7a DEF IInv, RecordShape
  <2>2. RecordShape!(m)'
    BY <1>3, <1>7, <1>12 DEF IInv, RecordShape
  <2>. QED
    BY <2>1, <2>2 DEF RecordShape
<1>15. CancelledMatchIsOver'
  BY <1>3, <1>6, <1>8 DEF IInv, CancelledMatchIsOver
<1>16. TicketShape'
  BY <1>8, <1>4 DEF IInv, TicketShape
<1>17. ClaimsSpent'
  <2>1. ASSUME NEW n \in MatchId \ {m}, NEW t \in TicketId
        PROVE  ClaimsSpent!(n, t)'
    BY <1>6, <1>8 DEF IInv, ClaimsSpent
  <2>2. ASSUME NEW t \in TicketId PROVE ClaimsSpent!(m, t)'
    BY <1>3, <1>4, <1>7, <1>8, <1>12
  <2>. QED
    BY <2>1, <2>2 DEF ClaimsSpent
<1>18. \A n \in MatchId \ {m} : Unused(n) => Unused(n)'
  BY <1>6, <1>7a, <1>8 DEF Unused
<1>19. MatchFresh'
  BY <1>3, <1>18 DEF IInv, MatchFresh, TypeOK, Plan
<1>20. MatchStage'
  <2>1. \A n \in MatchId :
          ReadyLive(n)' \/ veto'[n].status # "none" => cancellations'[n] = "none"
    BY <1>3, <1>6, <1>7 DEF IInv, MatchStage
  <2>2. ASSUME NEW t \in TicketId, tickets'[t].phase = "assigned"
        PROVE  /\ ready'[tickets'[t].match].status = "none"
               /\ veto'[tickets'[t].match].status = "none"
    <3>1. CASE t \in S /\ tickets[t].phase # "none"
      BY <3>1, <2>2, <1>3, <1>7, <1>8
    <3>2. CASE t \notin S \/ tickets[t].phase = "none"
      <4>1. /\ tickets'[t] = tickets[t] /\ tickets[t].match \in MatchId
            /\ tickets[t].match # m
        BY <3>2, <2>2, <1>5, <1>8 DEF IInv, TicketShape
      <4>. QED
        BY <4>1, <2>2, <1>6 DEF IInv, MatchStage
    <3>. QED
      BY <3>1, <3>2
  <2>. QED
    BY <2>1, <2>2 DEF MatchStage
<1>21. RequestShape'
  BY DEF IInv, RequestShape
<1>. QED
  BY <1>9, <1>10, <1>11, <1>13, <1>14, <1>15, <1>16, <1>17, <1>19, <1>20, <1>21
  DEF IInv

LEMMA AcceptIInv ==
  ASSUME IInv, NEW p \in Player, NEW m \in MatchId, Accept(p, m)
  PROVE  IInv'
<1> USE DEF vetoVars
<1>1. CASE AcceptWaits(p, m)
  BY <1>1, QuietIInv
<1>2. CASE AcceptOpensVeto(p, m)
  <2> DEFINE one == ready[m].maps = 1
             v == [status |-> IF one THEN "allocating" ELSE "active",
                   tickets |-> ready[m].tickets, members |-> ready[m].members,
                   left |-> ready[m].maps]
  <2>1. ready[m] \in Ready
    BY DEF IInv, TypeOK
  <2>2. /\ v \in Veto /\ v.tickets = ready[m].tickets
        /\ v.status = IF one THEN "allocating" ELSE "active"
    BY <2>1 DEF Ready, Veto
  <2>3. veto' = [veto EXCEPT ![m] = v]
    BY <1>2 DEF AcceptOpensVeto
  <2> HIDE DEF v
  <2>4. /\ \/ v.status = "active" /\ m \in vetoDeadlines'
           \/ v.status = "allocating" /\ m \in finalizations'
        /\ vetoDeadlines \subseteq vetoDeadlines' /\ vetoDeadlines' \subseteq MatchId
        /\ finalizations \subseteq finalizations' /\ finalizations' \subseteq MatchId
    BY <1>2, <2>2 DEF AcceptOpensVeto, IInv, TypeOK
  <2>5. /\ ReadyLive(m) /\ Presses(p, m)
        /\ MoveTickets(ready[m].tickets, "map-veto", m)
        /\ ready' = [ready EXCEPT ![m] = NoReady]
        /\ readyDeadlines' = readyDeadlines \ {m}
        /\ UNCHANGED <<pointer, partyTicket, searching, fence, cancellations,
                       penaltyVars, roster, plan, request>>
    BY <1>2 DEF AcceptOpensVeto, Acceptance
  <2>. QED
    BY <2>2, <2>3, <2>4, <2>5, AcceptedIInv
<1>3. CASE AcceptAssigns(p, m)
  <2>1. /\ veto[m] \in Veto
        /\ veto' = [veto EXCEPT ![m] = veto[m]]
        /\ vetoDeadlines' = vetoDeadlines /\ finalizations' = finalizations
        /\ vetoDeadlines \subseteq MatchId /\ finalizations \subseteq MatchId
    BY <1>3 DEF AcceptAssigns, IInv, TypeOK
  <2>2. /\ ReadyLive(m) /\ Presses(p, m)
        /\ MoveTickets(ready[m].tickets, "assigned", m)
        /\ ready' = [ready EXCEPT ![m] = NoReady]
        /\ readyDeadlines' = readyDeadlines \ {m}
        /\ UNCHANGED <<pointer, partyTicket, searching, fence, cancellations,
                       penaltyVars, roster, plan, request>>
    BY <1>3 DEF AcceptAssigns, Acceptance
  <2>. QED
    BY <2>1, <2>2, AcceptedIInv
<1>. QED
  BY <1>1, <1>2, <1>3 DEF Accept

\* Finalization takes the veto record's remaining tickets to assigned.
LEMMA CompleteVetoIInv ==
  ASSUME IInv, NEW m \in MatchId, CompleteVeto(m)
  PROVE  IInv'
<1> USE DEF readyVars, penaltyVars
<1> DEFINE S == Deliverable(m)
<1>1. /\ m \in finalizations /\ veto[m].status = "allocating"
      /\ MoveTickets(S, "assigned", m)
      /\ veto' = [veto EXCEPT ![m] = NoVeto]
      /\ vetoDeadlines' = vetoDeadlines \ {m}
      /\ finalizations' = finalizations \ {m}
      /\ UNCHANGED <<pointer, partyTicket, searching, fence, readyVars,
                     cancellations, penaltyVars, roster, plan, request>>
  BY DEF CompleteVeto
<1>2. /\ S \in SUBSET TicketId /\ "assigned" \in Phase
      /\ \A t \in S : /\ tickets[t].phase = "map-veto" /\ tickets[t].match = m
                      /\ t \in veto[m].tickets
      /\ \A t \in veto[m].tickets \ S : tickets[t].phase = "none"
  BY DEF Deliverable, IInv, TypeOK, Veto, ClaimsSpent, Phase
<1>3. /\ ready[m].status = "none" /\ ready[m].tickets = {}
      /\ cancellations[m] = "none" /\ roster[m] # {}
      /\ \A w \in Worker : plan[w].match # m
  BY <1>1, MatchAssumption
  DEF IInv, ClaimedOnce, RecordShape, MatchStage, MatchFresh, Unused
<1>4. \A t \in TicketId \ S : tickets[t].match # m
  BY <1>1, <1>3, MatchAssumption
  DEF IInv, NoTicketStranded, TicketShape, MatchStage, TypeOK, Ticket, Phase,
      NoTicket, Deliverable
<1>5. \A n \in MatchId \ {m} :
        S \cap veto[n].tickets = {} /\ veto'[n] = veto[n]
  BY <1>1, <1>2 DEF IInv, TypeOK, ClaimedOnce, Claimed
<1>6. /\ veto'[m] = NoVeto /\ NoVeto \in Veto
      /\ NoVeto.status = "none" /\ NoVeto.tickets = {}
  BY <1>1, BoundsAssumption DEF IInv, TypeOK, NoVeto, Veto
<1> HIDE DEF S
<1>7. /\ tickets' \in [TicketId -> Ticket]
      /\ \A t \in S : /\ tickets'[t].phase = "assigned" /\ tickets'[t].match = m
                      /\ tickets'[t].group = tickets[t].group
      /\ \A t \in TicketId \ S : tickets'[t] = tickets[t]
  <2>1. \A t \in S : Live(t)
    BY <1>2 DEF Live
  <2>. QED
    BY <1>1, <1>2, <2>1, MoveFacts DEF IInv
<1>8. TypeOK'
  BY <1>1, <1>6, <1>7 DEF IInv, TypeOK
<1>9. PointersLive'
  BY <1>1, <1>2, <1>7 DEF IInv, TypeOK, PointersLive, Live
<1>10. NoTicketStranded'
  <2> SUFFICES ASSUME NEW t \in TicketId PROVE NoTicketStranded!(t)'
    BY DEF NoTicketStranded
  <2>1. CASE t \in S
    BY <2>1, <1>1, <1>2, <1>7 DEF IInv, NoTicketStranded
  <2>2. CASE t \notin S
    BY <2>2, <1>1, <1>4, <1>5, <1>7 DEF IInv, NoTicketStranded, TicketShape
  <2>. QED
    BY <2>1, <2>2
<1>11. ClaimedOnce'
  BY <1>1, <1>3, <1>5, <1>6 DEF IInv, ClaimedOnce, Claimed
<1>12. RecordShape'
  <2>1. ASSUME NEW n \in MatchId \ {m} PROVE RecordShape!(n)'
    BY <1>1, <1>5 DEF IInv, RecordShape
  <2>2. RecordShape!(m)'
    BY <1>1, <1>3, <1>6 DEF IInv, RecordShape
  <2>. QED
    BY <2>1, <2>2 DEF RecordShape
<1>13. CancelledMatchIsOver'
  BY <1>1, <1>3, <1>5, <1>7 DEF IInv, CancelledMatchIsOver
<1>14. TicketShape'
  BY <1>1, <1>2, <1>7 DEF IInv, TicketShape
<1>15. ClaimsSpent'
  <2>1. ASSUME NEW n \in MatchId \ {m}, NEW t \in TicketId
        PROVE  ClaimsSpent!(n, t)'
    BY <1>1, <1>2, <1>5, <1>7 DEF IInv, ClaimsSpent
  <2>2. ASSUME NEW t \in TicketId PROVE ClaimsSpent!(m, t)'
    BY <1>1, <1>3, <1>6
  <2>. QED
    BY <2>1, <2>2 DEF ClaimsSpent
<1>16. \A n \in MatchId \ {m} : Unused(n) => Unused(n)'
  BY <1>1, <1>5, <1>7 DEF Unused
<1>17. MatchFresh'
  BY <1>1, <1>3, <1>16 DEF IInv, MatchFresh, TypeOK, Plan
<1>18. MatchStage'
  <2>1. \A n \in MatchId :
          ReadyLive(n)' \/ veto'[n].status # "none" => cancellations'[n] = "none"
    BY <1>1, <1>3, <1>5, <1>6 DEF IInv, MatchStage
  <2>2. ASSUME NEW t \in TicketId, tickets'[t].phase = "assigned"
        PROVE  /\ ready'[tickets'[t].match].status = "none"
               /\ veto'[tickets'[t].match].status = "none"
    <3>1. CASE t \in S
      BY <3>1, <1>1, <1>3, <1>6, <1>7
    <3>2. CASE t \notin S
      <4>1. /\ tickets'[t] = tickets[t] /\ tickets[t].match \in MatchId
            /\ tickets[t].match # m
        BY <3>2, <2>2, <1>4, <1>7 DEF IInv, TicketShape
      <4>. QED
        BY <4>1, <2>2, <1>1, <1>5 DEF IInv, MatchStage
    <3>. QED
      BY <3>1, <3>2
  <2>. QED
    BY <2>1, <2>2 DEF MatchStage
<1>19. RequestShape'
  BY <1>1 DEF IInv, RequestShape
<1>. QED
  BY <1>8, <1>9, <1>10, <1>11, <1>12, <1>13, <1>14, <1>15, <1>17, <1>18, <1>19
  DEF IInv

\* A remake moves assigned tickets to a match id that was never used.
LEMMA ReassignMatchIInv ==
  ASSUME IInv, NEW old \in MatchId, NEW new \in MatchId, ReassignMatch(old, new)
  PROVE  IInv'
<1> USE DEF readyVars, vetoVars, penaltyVars
<1> DEFINE S == {t \in TicketId : /\ t \in {pointer[p] : p \in roster[old]} \ {0}
                                  /\ tickets[t].phase = "assigned"
                                  /\ tickets[t].match = old}
<1>1. /\ roster[old] # {} /\ roster[new] = {}
      /\ Unused(new) /\ \A w \in Worker : plan[w].match # new
      /\ roster' = [roster EXCEPT ![new] = roster[old]]
      /\ UNCHANGED <<pointer, partyTicket, searching, fence, readyVars, vetoVars,
                     cancellations, penaltyVars, plan, request>>
  BY MatchAssumption DEF ReassignMatch, IInv, MatchFresh
<1>2. \A t \in TicketId : [tickets[t] EXCEPT !.match = new] \in Ticket
  <2>1. \A t \in TicketId : tickets[t] \in Ticket
    BY DEF IInv, TypeOK
  <2>. QED
    BY <2>1 DEF Ticket
<1>3. /\ tickets' \in [TicketId -> Ticket]
      /\ \A t \in S : tickets'[t] = [tickets[t] EXCEPT !.match = new]
      /\ \A t \in TicketId \ S : tickets'[t] = tickets[t]
  BY <1>2 DEF ReassignMatch, IInv, TypeOK
<1>4. /\ S \subseteq TicketId
      /\ \A t \in S : tickets[t].phase = "assigned" /\ tickets[t] \in Ticket
  BY DEF IInv, TypeOK
<1> HIDE DEF S
<1>5. \A t \in S : /\ tickets'[t].phase = "assigned" /\ tickets'[t].match = new
                   /\ tickets'[t].group = tickets[t].group
  BY <1>3, <1>4 DEF Ticket
<1>6. TypeOK'
  BY <1>1, <1>3 DEF IInv, TypeOK
<1>7. PointersLive'
  BY <1>1, <1>3, <1>4, <1>5 DEF IInv, TypeOK, PointersLive, Live
<1>8. NoTicketStranded'
  <2> SUFFICES ASSUME NEW t \in TicketId PROVE NoTicketStranded!(t)'
    BY DEF NoTicketStranded
  <2>1. CASE t \in S
    BY <2>1, <1>1, <1>4, <1>5 DEF IInv, NoTicketStranded
  <2>2. CASE t \notin S
    BY <2>2, <1>1, <1>3 DEF IInv, NoTicketStranded
  <2>. QED
    BY <2>1, <2>2
<1>9. ClaimedOnce' /\ RecordShape' /\ RequestShape'
  BY <1>1 DEF IInv, ClaimedOnce, Claimed, RecordShape, RequestShape
<1>10. CancelledMatchIsOver'
  BY <1>1, <1>3, <1>5 DEF IInv, CancelledMatchIsOver, Unused
<1>11. TicketShape'
  BY <1>1, <1>3, <1>4, <1>5 DEF IInv, TicketShape
<1>12. ClaimsSpent'
  BY <1>1, <1>3, <1>4 DEF IInv, ClaimsSpent
<1>13. \A n \in MatchId \ {new} : Unused(n) => Unused(n)'
  BY <1>1, <1>3, <1>5 DEF Unused
<1>14. \A n \in MatchId : roster'[n] = IF n = new THEN roster[old] ELSE roster[n]
  BY <1>1 DEF IInv, TypeOK
<1>15. MatchFresh'
  BY <1>1, <1>13, <1>14 DEF IInv, MatchFresh, TypeOK, Plan
<1>16. MatchStage'
  BY <1>1, <1>3, <1>4, <1>5 DEF IInv, MatchStage, Unused
<1>. QED
  BY <1>6, <1>7, <1>8, <1>9, <1>10, <1>11, <1>12, <1>15, <1>16 DEF IInv

-----------------------------------------------------------------------------
(* The theorems *)

\* IInv is inductive: every step of the queue, and every stuttering step,
\* preserves it.
LEMMA NextIInv == IInv /\ [Next]_vars => IInv'
<1> SUFFICES ASSUME IInv, [Next]_vars PROVE IInv'
  OBVIOUS
<1>1. ASSUME NEW p \in Player, PlayerStep(p) PROVE IInv'
  BY <1>1, JoinIInv, LeavingIInv, ReadingIInv, DropPointerIInv, CancellingIInv,
     AcceptIInv, QuietIInv DEF PlayerStep
<1>2. ASSUME NEW w \in Worker, WorkerStep(w) PROVE IInv'
  BY <1>2, SelectMatchIInv, CreateReadyCheckIInv, PassEndsIInv DEF WorkerStep
<1>3. ASSUME NEW m \in MatchId, MatchStep(m) PROVE IInv'
  BY <1>3, QuietIInv, CancellingIInv, CompleteVetoIInv, ReassignMatchIInv
  DEF MatchStep
<1>4. CASE UNCHANGED vars
  <2>1. UNCHANGED <<ticketVars, fence, readyVars, vetoVars, cancellations,
                    penaltyVars, roster, plan, request>>
    BY <1>4 DEF vars
  <2>2. request' \in [Player -> Request] /\ RequestShape'
    BY <2>1 DEF IInv, TypeOK, RequestShape
  <2>. QED
    BY <2>1, <2>2, RequestIInv
<1>. QED
  BY <1>1, <1>2, <1>3, <1>4 DEF Next

LEMMA QueueInvariant == Spec => []IInv
BY InitIInv, NextIInv, PTL DEF Spec

\* Every variable keeps its type, for any number of players, parties, matches
\* and matchmaker workers.
THEOREM TypeCorrect == Spec => []TypeOK
<1>1. IInv => TypeOK
  BY DEF IInv
<1>. QED
  BY <1>1, QueueInvariant, PTL

\* No pointer of a player or party ever dangles or names a foreign ticket.
THEOREM PointersNeverDangle == Spec => []PointersLive
<1>1. IInv => PointersLive
  BY DEF IInv
<1>. QED
  BY <1>1, QueueInvariant, PTL

\* No ticket is ever out of sight of the sweep that has to move it on.
THEOREM TicketsNeverStranded == Spec => []NoTicketStranded
<1>1. IInv => NoTicketStranded
  BY DEF IInv
<1>. QED
  BY <1>1, QueueInvariant, PTL

\* However many workers plan from stale snapshots, a ticket is claimed once.
THEOREM TicketsClaimedOnce == Spec => []ClaimedOnce
<1>1. IInv => ClaimedOnce
  BY DEF IInv
<1>. QED
  BY <1>1, QueueInvariant, PTL

\* A match whose cancellation is pending has nobody left in it.
THEOREM CancelledMatchesAreOver == Spec => []CancelledMatchIsOver
<1>1. IInv => CancelledMatchIsOver
  BY DEF IInv
<1>. QED
  BY <1>1, QueueInvariant, PTL

-----------------------------------------------------------------------------
(* Penalties *)

\* A cancelled ready check penalises only players who earned it.
LEMMA CancelEarned ==
  ASSUME IInv, NEW m \in MatchId, ReadyLive(m), NEW mode \in {"decline", "expiry"},
         NEW requester, CancelReadyCheck(m, mode, requester),
         mode = "decline" => DeclinesNow(requester, m),
         mode = "expiry" => ready[m].status = "late",
         NEW p \in Player, failures'[p] > failures[p]
  PROVE  Earned(p, m)
<1>1. p \in Penalised(m, mode, requester)
  <2>1. failures[p] \in Nat
    BY DEF IInv, TypeOK
  <2>2. failures'[p] = IF p \in Penalised(m, mode, requester)
                       THEN failures[p] + 1 ELSE failures[p]
    BY DEF CancelReadyCheck
  <2>. QED
    BY <2>1, <2>2
<1>2. /\ p \in ready[m].members /\ p \notin LobbyFollowers(ready[m].tickets)
      /\ \/ mode = "decline" /\ DeclinesNow(p, m)
         \/ /\ mode = "expiry"
            /\ ready[m].status = "late" /\ p \notin ready[m].accepted
  BY <1>1 DEF Penalised
<1>3. cancellations'[m] = mode /\ ready[m].accepted = pressed[m]
  BY DEF CancelReadyCheck, IInv, TypeOK, RecordShape
<1>4. ASSUME NEW t \in ready[m].tickets, p \in tickets[t].group.members,
             tickets[t].group.party \in SteamLobby
      PROVE  p = tickets[t].group.leader
  <2>1. t \in TicketId
    BY DEF IInv, TypeOK, Ready
  <2>2. Live(t)
    BY <1>4, <2>1, GroupFacts DEF IInv, TicketShape, Live, NoTicket
  <2>. QED
    BY <1>2, <1>4, <2>2 DEF LobbyFollowers
<1>. QED
  BY <1>2, <1>3, <1>4 DEF Earned

\* Only steps that cancel a ready check raise a player's failure count.
LEMMA PenaltyStep ==
  ASSUME IInv, [Next]_vars, NEW p \in Player, failures'[p] > failures[p]
  PROVE  \E m \in MatchId : Earned(p, m)
<1> USE DEF penaltyVars
<1>1. failures' # failures /\ ~\E q \in Player : FailuresExpire(q)
  <2>1. failures \in [Player -> Nat]
    BY DEF IInv, TypeOK
  <2>2. ~(failures[p] > failures[p]) /\ ~(0 > failures[p])
    BY <2>1
  <2>. QED
    BY <2>1, <2>2 DEF FailuresExpire
<1>2. ASSUME NEW q \in Player, PlayerStep(q)
      PROVE  \/ CancelLapsed(q) \/ Decline(q)
             \/ \E m \in MatchId : AcceptTooLate(q, m)
  BY <1>1, <1>2
  DEF PlayerStep, Join, ReleaseSearch, ReadPointer, ReadTicket, DropPointer,
      LeaveTicket, RequestLost, Accept, AcceptWaits, AcceptOpensVeto, AcceptAssigns,
      CooldownEnds
<1>3. ASSUME NEW q \in Player, CancelLapsed(q) \/ Decline(q)
      PROVE  \E m \in MatchId : Earned(p, m)
  <2> DEFINE m == request[q].match
  <2>1. m \in MatchId
    BY <1>3 DEF CancelLapsed, Decline, IInv, RequestShape
  <2>2. \/ ready[m].status = "late" /\ CancelReadyCheck(m, "expiry", q)
        \/ /\ ReadyLive(m) /\ CancelReadyCheck(m, "decline", q)
           /\ DeclinesNow(q, m)
    BY <1>1, <1>3 DEF CancelLapsed, Decline, DeclinesNow, IInv, TypeOK
  <2> HIDE DEF m
  <2>. QED
    BY <2>1, <2>2, CancelEarned
<1>4. ASSUME NEW m \in MatchId,
             SweepReadyCheck(m) \/ \E q \in Player : AcceptTooLate(q, m)
      PROVE  \E n \in MatchId : Earned(p, n)
  <2>1. ready[m].status = "late" /\ \E q : CancelReadyCheck(m, "expiry", q)
    BY <1>4 DEF SweepReadyCheck, AcceptTooLate
  <2>. QED
    BY <2>1, CancelEarned
<1>5. ASSUME NEW w \in Worker, WorkerStep(w) PROVE FALSE
  BY <1>1, <1>5 DEF WorkerStep, SelectMatch, CreateReadyCheck, ClaimStale, PassLost
<1>6. ASSUME NEW m \in MatchId, MatchStep(m) PROVE SweepReadyCheck(m)
  BY <1>1, <1>6
  DEF MatchStep, ReadyDeadline, AcknowledgeCancellation, BanMap, SweepVeto,
      VetoDeadline, CompleteVeto, ReassignMatch
<1>. QED
  BY <1>1, <1>2, <1>3, <1>4, <1>5, <1>6 DEF Next, vars

\* No queue of any size penalises a player for somebody else's refusal: not one
\* who had accepted, nor one who had yet to accept when another declined, nor a
\* lobby member who never pressed Play.
THEOREM PenaltiesDeserved == Spec => PenaltyDeserved
<1>1. IInv /\ [Next]_vars =>
        [\A p \in Player : failures'[p] > failures[p] =>
           \E m \in MatchId : Earned(p, m)]_vars
  BY PenaltyStep
<1>. QED
  BY <1>1, QueueInvariant, PTL DEF Spec, PenaltyDeserved

-----------------------------------------------------------------------------
(* Full rosters *)

\* A live ready check has a full roster, and only players of it have accepted.
FullRoster ==
  \A m \in MatchId : ReadyLive(m) =>
    /\ IsFiniteSet(ready[m].members) /\ Cardinality(ready[m].members) = RosterSize
    /\ ready[m].accepted \subseteq ready[m].members

\* Claimed tickets that share no member fill as many places as they have members.
LEMMA SeatsAreMembers ==
  ASSUME TypeOK, TicketShape, NEW S \in SUBSET TicketId, ClaimsValid(S)
  PROVE  LET members == UNION {tickets[t].group.members : t \in S} IN
         IsFiniteSet(members) /\ Cardinality(members) = RosterSize
<1> DEFINE M(t) == tickets[t].group.members
           members == UNION {M(t) : t \in S}
           parts == {{t} \X M(t) : t \in S}
           part == [t \in S |-> {t} \X M(t)]
           places == UNION parts
           member == [x \in places |-> x[2]]
<1>1. \A t \in S : IsFiniteSet(M(t))
  <2>1. \A t \in S : tickets[t].group \in Group
    BY DEF ClaimsValid, TicketShape
  <2>. QED
    BY <2>1, GroupAssumption
<1>2. \A t, u \in S : t # u => M(t) \cap M(u) = {}
  BY DEF ClaimsValid
<1>3. Cardinality(places) = RosterSize
  BY DEF ClaimsValid, Seats
<1>4. IsFiniteSet(S)
  <2>1. IsFiniteSet(1..MaxTickets)
    BY FS_Interval, BoundsAssumption
  <2>. QED
    BY <2>1, FS_Subset DEF TicketId
<1> HIDE DEF M
<1>5. IsFiniteSet(places)
  <2>1. part \in Surjection(S, parts)
    BY DEF Surjection
  <2>2. IsFiniteSet(parts)
    BY <1>4, <2>1, FS_Surjection
  <2>3. ASSUME NEW t \in S PROVE IsFiniteSet({t} \X M(t))
    <3>1. IsFiniteSet({t}) /\ IsFiniteSet(M(t))
      BY <1>1, FS_Singleton
    <3>. QED
      BY <3>1, FS_Product
  <2>. QED
    BY <2>2, <2>3, FS_UNION
<1>6. \A x \in places : \E t \in S : \E p \in M(t) : x = <<t, p>>
  OBVIOUS
<1>7. \A t \in S : \A p \in M(t) : <<t, p>> \in places
  OBVIOUS
<1> HIDE DEF places
<1>8. member \in [places -> members]
  BY <1>6
<1>9. \A x, y \in places : member[x] = member[y] => x = y
  <2> SUFFICES ASSUME NEW x \in places, NEW y \in places, member[x] = member[y]
               PROVE  x = y
    OBVIOUS
  <2>1. PICK t \in S : \E p \in M(t) : x = <<t, p>>
    BY <1>6
  <2>1a. PICK p \in M(t) : x = <<t, p>>
    BY <2>1
  <2>2. PICK u \in S : \E q \in M(u) : y = <<u, q>>
    BY <1>6
  <2>2a. PICK q \in M(u) : y = <<u, q>>
    BY <2>2
  <2>3. p = q
    BY <2>1a, <2>2a
  <2>. QED
    BY <1>2, <2>1a, <2>2a, <2>3
<1>10. \A p \in members : \E x \in places : member[x] = p
  <2> SUFFICES ASSUME NEW p \in members PROVE \E x \in places : member[x] = p
    OBVIOUS
  <2>1. PICK t \in S : p \in M(t)
    OBVIOUS
  <2>2. <<t, p>> \in places /\ member[<<t, p>>] = p
    BY <1>7, <2>1
  <2>. QED
    BY <2>2
<1> HIDE DEF member, members
<1>11. member \in Bijection(places, members)
  BY <1>8, <1>9, <1>10 DEF Bijection, Injection, Surjection, IsInjective
<1>12. ExistsBijection(places, members)
  BY <1>11 DEF ExistsBijection
<1>13. IsFiniteSet(members) /\ Cardinality(members) = Cardinality(places)
  BY <1>5, <1>12, FS_Bijection
<1>. QED
  BY <1>3, <1>13 DEF M, members

\* What a step does to ready check m: nothing; it opens the check for claims that
\* were valid; somebody accepts; its deadline passes; it is complete; or cancelled.
ReadyMoves(m) ==
  \/ ready'[m] = ready[m]
  \/ \E S \in SUBSET TicketId :
       /\ ClaimsValid(S) /\ ready'[m].accepted = {} /\ ready'[m].status = "open"
       /\ ready'[m].members = UNION {tickets[t].group.members : t \in S}
  \/ \E p \in ready[m].members :
       ReadyLive(m) /\ ready'[m] = [ready[m] EXCEPT !.accepted = @ \cup {p}]
  \/ ready[m].status = "open" /\ ready'[m] = [ready[m] EXCEPT !.status = "late"]
  \/ \E p \in ready[m].members :
       ReadyLive(m) /\ ready'[m] = NoReady /\ Complete(p, m) /\ Presses(p, m)
  \/ ready'[m] = NoReady /\ cancellations'[m] # "none"

\* There is nothing else a step does to a ready check.
LEMMA ReadySteps ==
  ASSUME IInv, [Next]_vars, NEW m \in MatchId
  PROVE  ReadyMoves(m)
<1> USE DEF penaltyVars, vetoVars, readyVars, ticketVars
<1>1. ready \in [MatchId -> Ready] /\ cancellations \in [MatchId -> {"none", "decline", "expiry"}]
  BY DEF IInv, TypeOK
<1>2. ASSUME NEW n \in MatchId, NEW mode \in {"decline", "expiry"}, NEW q, CancelReadyCheck(n, mode, q)
      PROVE  ready'[m] = ready[m] \/ (ready'[m] = NoReady /\ cancellations'[m] # "none")
  <2>1. ready' = [ready EXCEPT ![n] = NoReady] /\ cancellations' = [cancellations EXCEPT ![n] = mode]
    BY <1>2 DEF CancelReadyCheck
  <2>. QED
    BY <1>1, <2>1
<1>3. ASSUME NEW p \in Player, NEW n \in MatchId, Accept(p, n)
      PROVE  ReadyMoves(m)
  <2>1. p \in ready[n].members /\ ReadyLive(n)
    BY <1>3 DEF Accept, AcceptWaits, AcceptOpensVeto, AcceptAssigns, Acceptance
  <2>2. CASE AcceptWaits(p, n)
    <3>1. ready' = [ready EXCEPT ![n].accepted = ready[n].accepted \cup {p}]
      BY <2>2 DEF AcceptWaits, AcceptedBy
    <3>. QED
      BY <1>1, <2>1, <3>1 DEF ReadyMoves
  <2>3. CASE AcceptOpensVeto(p, n) \/ AcceptAssigns(p, n)
    <3>1. ready' = [ready EXCEPT ![n] = NoReady] /\ Complete(p, n) /\ Presses(p, n)
      BY <2>3 DEF AcceptOpensVeto, AcceptAssigns
    <3>. QED
      BY <1>1, <2>1, <3>1 DEF ReadyMoves
  <2>. QED
    BY <1>3, <2>2, <2>3 DEF Accept
<1>4. ASSUME NEW p \in Player, CancelLapsed(p) \/ Decline(p)
      PROVE  ready'[m] = ready[m] \/ (ready'[m] = NoReady /\ cancellations'[m] # "none")
  <2>1. request[p].match \in MatchId
    BY <1>4 DEF CancelLapsed, Decline, IInv, RequestShape
  <2>. QED
    BY <1>2, <1>4, <2>1 DEF CancelLapsed, Decline
<1>5. ASSUME NEW p \in Player, PlayerStep(p)
      PROVE  ready' = ready \/ CancelLapsed(p) \/ Decline(p)
             \/ \E n \in MatchId : Accept(p, n) \/ AcceptTooLate(p, n)
  BY <1>5
  DEF PlayerStep, Join, ReleaseSearch, ReadPointer, ReadTicket, DropPointer,
      LeaveTicket, RequestLost, CooldownEnds, FailuresExpire
<1>6. ASSUME NEW w \in Worker, CreateReadyCheck(w)
      PROVE  ReadyMoves(m)
  <2> DEFINE S == plan[w].tickets
             n == plan[w].match
  <2>1. S \in SUBSET TicketId /\ n \in MatchId
    BY <1>6 DEF CreateReadyCheck, IInv, TypeOK, Plan
  <2>2. ClaimsValid(S) /\ ready' = [ready EXCEPT ![n] =
          [status |-> "open", tickets |-> S, members |-> UNION {tickets[t].group.members : t \in S},
           accepted |-> {}, maps |-> plan[w].maps]]
    BY <1>6 DEF CreateReadyCheck
  <2> HIDE DEF S, n
  <2>3. n = m \/ ready'[m] = ready[m]
    BY <1>1, <2>1, <2>2
  <2>4. n = m => ready'[m].accepted = {} /\ ready'[m].status = "open"
                /\ ready'[m].members = UNION {tickets[t].group.members : t \in S}
    BY <1>1, <2>1, <2>2
  <2>. QED
    BY <2>1, <2>2, <2>3, <2>4 DEF ReadyMoves
<1>7. ASSUME NEW n \in MatchId, ReadyDeadline(n)
      PROVE  ready'[m] = ready[m] \/ (ready[m].status = "open" /\ ready'[m] = [ready[m] EXCEPT !.status = "late"])
  BY <1>1, <1>7 DEF ReadyDeadline
<1>8. ASSUME NEW w \in Worker, WorkerStep(w)
      PROVE  ready' = ready \/ CreateReadyCheck(w)
  BY <1>8 DEF WorkerStep, SelectMatch, ClaimStale, PassLost
<1>9. ASSUME NEW n \in MatchId, MatchStep(n)
      PROVE  ready' = ready \/ ReadyDeadline(n) \/ SweepReadyCheck(n)
  BY <1>9
  DEF MatchStep, AcknowledgeCancellation, BanMap, SweepVeto, VetoDeadline,
      CompleteVeto, ReassignMatch
<1>10. ASSUME NEW n \in MatchId, SweepReadyCheck(n) \/ \E p \in Player : AcceptTooLate(p, n)
       PROVE  ready'[m] = ready[m] \/ (ready'[m] = NoReady /\ cancellations'[m] # "none")
  BY <1>2, <1>10 DEF SweepReadyCheck, AcceptTooLate
<1>11. CASE UNCHANGED vars
  BY <1>11 DEF vars, ReadyMoves
<1>. QED
  BY <1>3, <1>4, <1>5, <1>6, <1>7, <1>8, <1>9, <1>10, <1>11 DEF Next, ReadyMoves

\* Every step keeps the rosters full.
LEMMA FullRosterStays ==
  ASSUME IInv, FullRoster, [Next]_vars
  PROVE  FullRoster'
<1> SUFFICES ASSUME NEW m \in MatchId, ready'[m].status # "none"
             PROVE  /\ IsFiniteSet(ready'[m].members) /\ Cardinality(ready'[m].members) = RosterSize
                    /\ ready'[m].accepted \subseteq ready'[m].members
  BY DEF FullRoster
<1>1. ReadyMoves(m) /\ ready[m] \in Ready
  BY ReadySteps DEF IInv, TypeOK
<1>2. ASSUME NEW S \in SUBSET TicketId, ClaimsValid(S), ready'[m].accepted = {},
             ready'[m].members = UNION {tickets[t].group.members : t \in S}
      PROVE  /\ IsFiniteSet(ready'[m].members) /\ Cardinality(ready'[m].members) = RosterSize
             /\ ready'[m].accepted \subseteq ready'[m].members
  BY <1>2, SeatsAreMembers DEF IInv
<1>3. CASE /\ ReadyLive(m) /\ ready'[m].members = ready[m].members
           /\ \/ ready'[m].accepted = ready[m].accepted
              \/ \E p \in ready[m].members : ready'[m].accepted = ready[m].accepted \cup {p}
  BY <1>3 DEF FullRoster
<1>4. ready'[m] # NoReady
  BY DEF NoReady
<1>. QED
  BY <1>1, <1>2, <1>3, <1>4 DEF ReadyMoves, Ready

\* Who ends a ready check without cancelling it is the last of its roster to
\* accept, and everybody else had accepted before.
LEMMA LastAccepts ==
  ASSUME IInv, FullRoster, [Next]_vars, NEW m \in MatchId,
         ReadyLive(m), ~ReadyLive(m)', cancellations'[m] = "none"
  PROVE  /\ Cardinality(ready[m].members) = RosterSize
         /\ ready[m].members \subseteq pressed'[m]
<1>1. ReadyMoves(m) /\ ready[m] \in Ready
  BY ReadySteps DEF IInv, TypeOK
<1>2. PICK p \in ready[m].members : Complete(p, m) /\ Presses(p, m)
  BY <1>1 DEF ReadyMoves, Ready
<1> DEFINE members == ready[m].members
           accepted == AcceptedBy(p, m)
<1>3. IsFiniteSet(members) /\ Cardinality(members) = RosterSize /\ accepted \subseteq members
  BY <1>2 DEF FullRoster, AcceptedBy
<1>4. Cardinality(accepted) = Cardinality(members)
  BY <1>2, <1>3 DEF Complete
<1>5. accepted = members
  BY <1>3, <1>4, FS_Subset
<1>6. pressed'[m] = accepted
  BY <1>2 DEF Presses, AcceptedBy, IInv, TypeOK, RecordShape
<1>. QED
  BY <1>3, <1>5, <1>6

\* A match starts only when every member of its full roster has accepted it, for
\* rosters of every size and claims of every number of workers, and however
\* often one of them accepts (MatchNeedsEveryone).
THEOREM MatchesNeedEveryone == Spec => MatchNeedsEveryone
<1>1. Init => FullRoster
  BY DEF Init, FullRoster, NoReady
<1>2. IInv /\ FullRoster /\ [Next]_vars => FullRoster'
  BY FullRosterStays
<1>3. IInv /\ FullRoster /\ [Next]_vars =>
        [\A m \in MatchId :
           ReadyLive(m) /\ ~ReadyLive(m)' /\ cancellations'[m] = "none" =>
             /\ Cardinality(ready[m].members) = RosterSize
             /\ ready[m].members \subseteq pressed'[m]]_vars
  BY LastAccepts
<1>. QED
  BY <1>1, <1>2, <1>3, QueueInvariant, PTL DEF Spec, MatchNeedsEveryone
=============================================================================
