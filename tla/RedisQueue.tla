----------------------------- MODULE RedisQueue -----------------------------
(***************************************************************************)
(* The Redis side of competitive matchmaking                               *)
(* (apps/api/src/redis-queue-service.ts): queue tickets, the pointers that *)
(* tie players and parties to them, ready checks, map vetoes, the sorted   *)
(* sets the background sweeps work from, and queue penalties.              *)
(*                                                                         *)
(* Every Lua script is one atomic step.  A service method that talks to    *)
(* Redis more than once (getQueueRuntime, leave) is one step per round     *)
(* trip, so that other requests run between its steps.                     *)
(*                                                                         *)
(* A ticket is created with a fresh random id and a fresh fencing token,   *)
(* and neither ever changes: the model uses the token as the id.  Id 0     *)
(* stands for an absent key.                                               *)
(***************************************************************************)
EXTENDS Integers, FiniteSets

CONSTANTS
  Player,       \* player ids
  Party,        \* party ids, Steam lobbies included
  NoParty,      \* the party id of a solo ticket
  SteamLobby,   \* the parties whose id starts with 'steam-lobby:'
  Group,        \* who can queue together: [party, leader, members]
  NoPlayer,     \* the leader of an absent ticket, and the system as requester
  MatchId,      \* match ids, drawn afresh by randomUUID
  NoMatch,      \* no match
  Worker,       \* API processes that run matchmaker passes
  Requester,    \* players that use the two-step requests (a bound)
  RosterSize,   \* players in a match: ten in the deployment
  MaxMaps,      \* bound on the maps of a veto
  MaxTickets    \* bound on the tickets ever created

TicketId == 1..MaxTickets

ASSUME BoundsAssumption ==
  /\ MaxTickets \in Nat
  /\ MaxMaps \in Nat
  /\ RosterSize \in Nat \ {0}

ASSUME GroupAssumption ==
  /\ NoParty \notin Party
  /\ SteamLobby \subseteq Party
  /\ Requester \subseteq Player
  /\ \A g \in Group :
       /\ g \in [party   : Party \cup {NoParty},
                 leader  : Player,
                 members : SUBSET Player]
       /\ g.leader \in g.members /\ IsFiniteSet(g.members)
  /\ NoPlayer \notin Player

ASSUME MatchAssumption == NoMatch \notin MatchId

NoGroup == [party |-> NoParty, leader |-> NoPlayer, members |-> {}]

VARIABLES
  tickets,         \* queue:ticket:<id>
  pointer,         \* player:<id>:ticket
  partyTicket,     \* party:<id>:ticket
  searching,       \* queue:tickets, the index of searching tickets
  fence,           \* queue:fence
  ready,           \* queue:ready:<match>
  readyDeadlines,  \* queue:ready:deadlines
  veto,            \* queue:veto:<match>
  vetoDeadlines,   \* queue:veto:deadlines
  finalizations,   \* queue:veto:finalizations
  cancellations,   \* queue:ready:cancellations, with the reason hash
  failures,        \* player:<id>:ready-failures
  cooldown,        \* player:<id>:queue-cooldown, in seconds, 0 when absent
  roster,          \* the players of a match, written before its ready check
  plan,            \* per worker: the match it has selected, not yet created
  request,         \* per player: the two-step request in progress
  pressed          \* history, read by no guard: who accepted each ready check
                   \* that was not cancelled

ticketVars  == <<tickets, pointer, partyTicket, searching>>
readyVars   == <<ready, readyDeadlines, pressed>>
vetoVars    == <<veto, vetoDeadlines, finalizations>>
penaltyVars == <<failures, cooldown>>
vars == <<ticketVars, fence, readyVars, vetoVars, cancellations, penaltyVars,
          roster, plan, request>>

-----------------------------------------------------------------------------
(* Records *)

Phase == {"none", "searching", "ready-check", "map-veto", "assigned"}

\* match is the match of the ticket's readyCheck, mapVeto or assignment: the
\* scripts set the one its phase calls for and null the other two.
Ticket == [phase : Phase, group : Group \cup {NoGroup},
           match : MatchId \cup {NoMatch}]

NoTicket == [phase |-> "none", group |-> NoGroup, match |-> NoMatch]

\* maps = 0: the ready check carries a direct assignment instead of a veto.
\* status late: its deadline has passed.
Ready == [status : {"none", "open", "late"}, tickets : SUBSET TicketId,
          members : SUBSET Player, accepted : SUBSET Player, maps : 0..MaxMaps]

NoReady == [status |-> "none", tickets |-> {}, members |-> {},
            accepted |-> {}, maps |-> 0]

\* left counts the remaining maps; status overdue: active, and the acting
\* captain's turn is over.
Veto == [status : {"none", "active", "overdue", "allocating"},
         tickets : SUBSET TicketId, members : SUBSET Player, left : 0..MaxMaps]

NoVeto == [status |-> "none", tickets |-> {}, members |-> {}, left |-> 0]

Plan == [tickets : SUBSET TicketId, match : MatchId \cup {NoMatch},
         maps : 0..MaxMaps]

NoPlan == [tickets |-> {}, match |-> NoMatch, maps |-> 0]

Request == [pc : {"idle", "pointed", "gone", "lapsed", "declining", "leaving"},
            op : {"read", "leave"}, ticket : TicketId \cup {0},
            match : MatchId \cup {NoMatch}]

NoRequest == [pc |-> "idle", op |-> "read", ticket |-> 0, match |-> NoMatch]

Live(t) == t \in TicketId /\ tickets[t].phase # "none"

ReadyLive(m) == ready[m].status # "none"

VetoActive(m) == veto[m].status \in {"active", "overdue"}

-----------------------------------------------------------------------------
(* What the scripts share *)

\* Mutant: the party pointer survives the ticket.
RemoveTicketsMutant(S) ==
  /\ tickets' = [t \in TicketId |-> IF t \in S THEN NoTicket ELSE tickets[t]]
  /\ searching' = searching \ S
  /\ pointer' = [p \in Player |-> IF pointer[p] \in S THEN 0 ELSE pointer[p]]
  /\ UNCHANGED partyTicket

\* Remove a set of live tickets: their keys, their entries in the index, and
\* the member and party pointers that still name them.
RemoveTickets(S) ==
  /\ tickets' = [t \in TicketId |-> IF t \in S THEN NoTicket ELSE tickets[t]]
  /\ searching' = searching \ S
  /\ pointer' = [p \in Player |->
       IF \E t \in S : t = pointer[p] /\ p \in tickets[t].group.members
       THEN 0 ELSE pointer[p]]
  /\ partyTicket' = [y \in Party |->
       IF \E t \in S : t = partyTicket[y] /\ y = tickets[t].group.party
       THEN 0 ELSE partyTicket[y]]

\* The tickets of S that still exist move to the given phase of match m.
MoveTickets(S, phase, m) ==
  tickets' = [t \in TicketId |->
    IF t \in S /\ Live(t)
    THEN [phase |-> phase, group |-> tickets[t].group, match |-> m]
    ELSE tickets[t]]

CooldownSeconds(count) ==
  CASE count <= 1 -> 30
    [] count = 2  -> 120
    [] count = 3  -> 600
    [] OTHER      -> 1800

\* Members of a Steam lobby other than its leader never pressed Play.
LobbyFollowers(S) ==
  UNION {tickets[t].group.members \ {tickets[t].group.leader} :
           t \in {u \in S : Live(u) /\ tickets[u].group.party \in SteamLobby}}

\* Mutant: a decline penalises everyone who had not accepted yet as well.
PenalisedMutant(m, mode, requester) ==
  {p \in ready[m].members \ LobbyFollowers(ready[m].tickets) :
     (mode = "decline" /\ p = requester) \/ p \notin ready[m].accepted}

\* The members of ready check m that its cancellation penalises.
Penalised(m, mode, requester) ==
  LET r == ready[m] IN
  {p \in r.members \ LobbyFollowers(r.tickets) :
     \/ mode = "decline" /\ p = requester
     \/ mode = "expiry"  /\ p \notin r.accepted}

\* CANCEL_READY_CHECK_SCRIPT, when the ready check exists (and has expired,
\* in expiry mode).
CancelReadyCheck(m, mode, requester) ==
  /\ RemoveTickets({t \in ready[m].tickets : Live(t)})
  /\ LET hit == Penalised(m, mode, requester) IN
     /\ failures' = [p \in Player |->
          IF p \in hit THEN failures[p] + 1 ELSE failures[p]]
     /\ cooldown' = [p \in Player |->
          IF p \in hit THEN CooldownSeconds(failures[p] + 1) ELSE cooldown[p]]
  /\ ready' = [ready EXCEPT ![m] = NoReady]
  /\ readyDeadlines' = readyDeadlines \ {m}
  /\ pressed' = [pressed EXCEPT ![m] = {}]
  /\ cancellations' = [cancellations EXCEPT ![m] = mode]
  /\ UNCHANGED <<fence, vetoVars, roster, plan>>

-----------------------------------------------------------------------------
(* Joining and leaving *)

Init ==
  /\ tickets = [t \in TicketId |-> NoTicket]
  /\ pointer = [p \in Player |-> 0]
  /\ partyTicket = [y \in Party |-> 0]
  /\ searching = {}
  /\ fence = 0
  /\ ready = [m \in MatchId |-> NoReady]
  /\ readyDeadlines = {}
  /\ veto = [m \in MatchId |-> NoVeto]
  /\ vetoDeadlines = {}
  /\ finalizations = {}
  /\ cancellations = [m \in MatchId |-> "none"]
  /\ failures = [p \in Player |-> 0]
  /\ cooldown = [p \in Player |-> 0]
  /\ roster = [m \in MatchId |-> {}]
  /\ plan = [w \in Worker |-> NoPlan]
  /\ request = [p \in Player |-> NoRequest]
  /\ pressed = [m \in MatchId |-> {}]

\* JOIN_SCRIPT for the group its leader queues with: solo, the stored party
\* with every member ready, or the verified Steam lobby.
Join(g) ==
  /\ fence < MaxTickets
  /\ \A p \in g.members : cooldown[p] = 0 /\ ~Live(pointer[p])
  /\ fence' = fence + 1
  /\ tickets' = [tickets EXCEPT ![fence + 1] =
       [phase |-> "searching", group |-> g, match |-> NoMatch]]
  /\ searching' = searching \cup {fence + 1}
  /\ pointer' = [p \in Player |->
       IF p \in g.members THEN fence + 1 ELSE pointer[p]]
  /\ partyTicket' = [y \in Party |->
       IF y = g.party THEN fence + 1 ELSE partyTicket[y]]
  /\ UNCHANGED <<readyVars, vetoVars, cancellations, penaltyVars, roster,
                 plan, request>>

\* releaseSearch: LEAVE_SCRIPT with the ticket the closing game was in.
ReleaseSearch(p, t) ==
  /\ pointer[p] = t
  /\ Live(t) /\ tickets[t].phase = "searching"
  /\ RemoveTickets({t})
  /\ UNCHANGED <<fence, readyVars, vetoVars, cancellations, penaltyVars,
                 roster, plan, request>>

\* getQueueRuntime, first round trip: read the player's ticket pointer.  Alone
\* (op read) or as the first half of leave (op leave).
ReadPointer(p, op) ==
  /\ request[p].pc = "idle"
  /\ request' = [request EXCEPT ![p] =
       [NoRequest EXCEPT !.op = op, !.ticket = pointer[p],
          !.pc = IF pointer[p] # 0 THEN "pointed"
                 ELSE IF op = "leave" THEN "leaving" ELSE "idle"]]
  /\ UNCHANGED <<ticketVars, fence, readyVars, vetoVars, cancellations,
                 penaltyVars, roster, plan>>

\* What the request does next, given the ticket it read.
AfterTicket(op, ticket, late) ==
  CASE ticket.phase = "none" -> "gone"
    [] ticket.phase = "ready-check" /\ late -> "lapsed"
    [] op = "read" -> "idle"
    [] ticket.phase = "ready-check" -> "declining"
    [] ticket.phase = "map-veto" -> "idle"     \* 409: the match is committed
    [] OTHER -> "leaving"

\* getQueueRuntime, second round trip: read the ticket.  late: the ready check
\* copied into the ticket is past its deadline.
ReadTicket(p) ==
  LET r == request[p]
      ticket == tickets[r.ticket]
      late == ticket.phase = "ready-check" /\ ready[ticket.match].status = "late"
  IN
  /\ r.pc = "pointed"
  /\ request' = [request EXCEPT ![p] =
       IF AfterTicket(r.op, ticket, late) = "idle" THEN NoRequest
       ELSE [r EXCEPT !.pc = AfterTicket(r.op, ticket, late),
                      !.match = ticket.match]]
  /\ UNCHANGED <<ticketVars, fence, readyVars, vetoVars, cancellations,
                 penaltyVars, roster, plan>>

\* Where a request goes once its runtime has been read as idle.
Resume(p) ==
  request' = [request EXCEPT ![p] =
    IF request[p].op = "leave" THEN [request[p] EXCEPT !.pc = "leaving"]
    ELSE NoRequest]

\* getQueueRuntime found no ticket behind the pointer and deletes the pointer,
\* whatever it names by now.
DropPointer(p) ==
  /\ request[p].pc = "gone"
  /\ pointer' = [pointer EXCEPT ![p] = 0]
  /\ Resume(p)
  /\ UNCHANGED <<tickets, partyTicket, searching, fence, readyVars, vetoVars,
                 cancellations, penaltyVars, roster, plan>>

\* getQueueRuntime found an expired ready check and cancels it.
CancelLapsed(p) ==
  LET m == request[p].match IN
  /\ request[p].pc = "lapsed"
  /\ Resume(p)
  /\ IF ready[m].status = "late"
     THEN CancelReadyCheck(m, "expiry", p)
     ELSE UNCHANGED <<ticketVars, fence, readyVars, vetoVars, cancellations,
                      penaltyVars, roster, plan>>

\* Mutant: a decline is recorded though the ready check is over.
DeclineMutant(p) ==
  LET m == request[p].match IN
  /\ request[p].pc = "declining"
  /\ request' = [request EXCEPT ![p] = NoRequest]
  /\ IF ReadyLive(m)
     THEN CancelReadyCheck(m, "decline", p)
     ELSE /\ cancellations' = [cancellations EXCEPT ![m] = "decline"]
          /\ UNCHANGED <<ticketVars, fence, readyVars, vetoVars, penaltyVars,
                         roster, plan>>

\* leave during a ready check declines the match.
Decline(p) ==
  LET m == request[p].match IN
  /\ request[p].pc = "declining"
  /\ request' = [request EXCEPT ![p] = NoRequest]
  /\ IF ReadyLive(m)
     THEN CancelReadyCheck(m, "decline", p)
     ELSE UNCHANGED <<ticketVars, fence, readyVars, vetoVars, cancellations,
                      penaltyVars, roster, plan>>

\* leave otherwise: LEAVE_SCRIPT without an expected ticket.  It looks at
\* neither the phase of the ticket nor what the request read before.
LeaveTicket(p) ==
  LET t == pointer[p]
      mayLeave == /\ Live(t)
                  /\ \/ tickets[t].group.party = NoParty
                     \/ tickets[t].group.leader = p
  IN
  /\ request[p].pc = "leaving"
  /\ request' = [request EXCEPT ![p] = NoRequest]
  /\ CASE mayLeave -> RemoveTickets({t})
       [] t # 0 /\ ~Live(t) ->
            /\ pointer' = [pointer EXCEPT ![p] = 0]
            /\ UNCHANGED <<tickets, partyTicket, searching>>
       [] OTHER -> UNCHANGED ticketVars
  /\ UNCHANGED <<fence, readyVars, vetoVars, cancellations, penaltyVars,
                 roster, plan>>

\* The API process stops between two round trips of a request.
RequestLost(p) ==
  /\ request[p].pc # "idle"
  /\ request' = [request EXCEPT ![p] = NoRequest]
  /\ UNCHANGED <<ticketVars, fence, readyVars, vetoVars, cancellations,
                 penaltyVars, roster, plan>>

-----------------------------------------------------------------------------
(* The matchmaker and ready checks *)

\* The places a set of tickets fills in a match: one for each member of each.
Seats(S) == Cardinality(UNION {{t} \X tickets[t].group.members : t \in S})

\* runOnceUnlocked: list the searching tickets, select a full match and reserve
\* it.  The Redis lock of a pass lapses after ten seconds, so two workers may
\* hold plans at once.
SelectMatch(w) ==
  /\ plan[w] = NoPlan
  /\ \E m \in MatchId, S \in SUBSET searching, k \in 0..MaxMaps :
       /\ roster[m] = {}
       /\ S # {}
       /\ Seats(S) = RosterSize
       /\ plan' = [plan EXCEPT ![w] = [tickets |-> S, match |-> m, maps |-> k]]
       /\ roster' = [roster EXCEPT ![m] =
            UNION {tickets[t].group.members : t \in S}]
  /\ UNCHANGED <<ticketVars, fence, readyVars, vetoVars, cancellations,
                 penaltyVars, request>>

\* Mutant: the phase of a claimed ticket is not looked at.
ClaimsValidMutant(S) == \A t \in S : Live(t)

\* Every claimed ticket still exists and still searches, no player is in two,
\* and together they fill the match.
ClaimsValid(S) ==
  /\ \A t \in S : tickets[t].phase = "searching"
  /\ \A t, u \in S :
       t # u => tickets[t].group.members \cap tickets[u].group.members = {}
  /\ Seats(S) = RosterSize

\* CREATE_READY_CHECK_SCRIPT.
CreateReadyCheck(w) ==
  LET S == plan[w].tickets
      m == plan[w].match
  IN
  /\ m # NoMatch
  /\ ClaimsValid(S)
  /\ ready' = [ready EXCEPT ![m] =
       [status |-> "open", tickets |-> S,
        members |-> UNION {tickets[t].group.members : t \in S},
        accepted |-> {}, maps |-> plan[w].maps]]
  /\ readyDeadlines' = readyDeadlines \cup {m}
  /\ MoveTickets(S, "ready-check", m)
  /\ searching' = searching \ S
  /\ plan' = [plan EXCEPT ![w] = NoPlan]
  /\ UNCHANGED <<pointer, partyTicket, fence, vetoVars, cancellations,
                 penaltyVars, roster, request, pressed>>

\* The script refuses a stale claim and the pass ends.
ClaimStale(w) ==
  /\ plan[w].match # NoMatch
  /\ ~ClaimsValid(plan[w].tickets)
  /\ plan' = [plan EXCEPT ![w] = NoPlan]
  /\ UNCHANGED <<ticketVars, fence, readyVars, vetoVars, cancellations,
                 penaltyVars, roster, request>>

\* The API process stops between the reservation and the ready check.
PassLost(w) ==
  /\ plan[w].match # NoMatch
  /\ plan' = [plan EXCEPT ![w] = NoPlan]
  /\ UNCHANGED <<ticketVars, fence, readyVars, vetoVars, cancellations,
                 penaltyVars, roster, request>>

\* Accept: ACCEPT_SCRIPT.  The caller reads its clock before the script runs,
\* so an acceptance sent before the deadline may land after it.
Acceptance(p, m) ==
  ReadyLive(m) /\ p \in ready[m].members

AcceptedBy(p, m) == ready[m].accepted \cup {p}

\* Mutant: a repeated acceptance is counted again.
CompleteMutant(p, m) == Cardinality(ready[m].accepted) + 1 >= RosterSize

Complete(p, m) == Cardinality(AcceptedBy(p, m)) = RosterSize

\* The player whose acceptance this is, for the history.
Presses(p, m) == pressed' = [pressed EXCEPT ![m] = pressed[m] \cup {p}]

AcceptWaits(p, m) ==
  /\ Acceptance(p, m)
  /\ Presses(p, m)
  /\ ~Complete(p, m)
  /\ ready' = [ready EXCEPT ![m].accepted = AcceptedBy(p, m)]
  /\ UNCHANGED <<ticketVars, fence, readyDeadlines, vetoVars, cancellations,
                 penaltyVars, roster, plan, request>>

\* The last acceptance opens the veto; with a single map there is nothing to
\* ban and the match goes straight to allocation.
AcceptOpensVeto(p, m) ==
  /\ Acceptance(p, m)
  /\ Presses(p, m)
  /\ Complete(p, m)
  /\ ready[m].maps > 0
  /\ veto' = [veto EXCEPT ![m] =
       [status |-> IF ready[m].maps = 1 THEN "allocating" ELSE "active",
        tickets |-> ready[m].tickets, members |-> ready[m].members,
        left |-> ready[m].maps]]
  /\ finalizations' = IF ready[m].maps = 1 THEN finalizations \cup {m}
                      ELSE finalizations
  /\ vetoDeadlines' = IF ready[m].maps = 1 THEN vetoDeadlines
                      ELSE vetoDeadlines \cup {m}
  /\ MoveTickets(ready[m].tickets, "map-veto", m)
  /\ ready' = [ready EXCEPT ![m] = NoReady]
  /\ readyDeadlines' = readyDeadlines \ {m}
  /\ UNCHANGED <<pointer, partyTicket, searching, fence, cancellations,
                 penaltyVars, roster, plan, request>>

\* The last acceptance of a ready check that carries its assignment.
AcceptAssigns(p, m) ==
  /\ Acceptance(p, m)
  /\ Presses(p, m)
  /\ Complete(p, m)
  /\ ready[m].maps = 0
  /\ MoveTickets(ready[m].tickets, "assigned", m)
  /\ ready' = [ready EXCEPT ![m] = NoReady]
  /\ readyDeadlines' = readyDeadlines \ {m}
  /\ UNCHANGED <<pointer, partyTicket, searching, fence, vetoVars,
                 cancellations, penaltyVars, roster, plan, request>>

Accept(p, m) ==
  AcceptWaits(p, m) \/ AcceptOpensVeto(p, m) \/ AcceptAssigns(p, m)

\* An acceptance that reads the deadline as passed cancels the ready check.
AcceptTooLate(p, m) ==
  /\ ready[m].status = "late"
  /\ CancelReadyCheck(m, "expiry", p)
  /\ UNCHANGED request

ReadyDeadline(m) ==
  /\ ready[m].status = "open"
  /\ ready' = [ready EXCEPT ![m].status = "late"]
  /\ UNCHANGED <<ticketVars, fence, readyDeadlines, vetoVars, cancellations,
                 penaltyVars, roster, plan, request, pressed>>

\* Mutant: the sweep spares a ready check that somebody accepted.
SweepReadyCheckMutant(m) ==
  /\ m \in readyDeadlines
  /\ ready[m].status = "late" /\ ready[m].accepted = {}
  /\ CancelReadyCheck(m, "expiry", NoPlayer)
  /\ UNCHANGED request

\* sweepExpiredReadyChecks works from the deadline index alone.
SweepReadyCheck(m) ==
  /\ m \in readyDeadlines
  /\ ready[m].status = "late"
  /\ CancelReadyCheck(m, "expiry", NoPlayer)
  /\ UNCHANGED request

\* acknowledgeReadyCheckCancellation, once the reserved match is cancelled.
AcknowledgeCancellation(m) ==
  /\ cancellations[m] # "none"
  /\ cancellations' = [cancellations EXCEPT ![m] = "none"]
  /\ UNCHANGED <<ticketVars, fence, readyVars, vetoVars, penaltyVars, roster,
                 plan, request>>

CooldownEnds(p) ==
  /\ cooldown[p] # 0
  /\ cooldown' = [cooldown EXCEPT ![p] = 0]
  /\ UNCHANGED <<ticketVars, fence, readyVars, vetoVars, cancellations,
                 failures, roster, plan, request>>

\* The failure count is forgotten after thirty days.
FailuresExpire(p) ==
  /\ failures[p] # 0 /\ cooldown[p] = 0
  /\ failures' = [failures EXCEPT ![p] = 0]
  /\ UNCHANGED <<ticketVars, fence, readyVars, vetoVars, cancellations,
                 cooldown, roster, plan, request>>

-----------------------------------------------------------------------------
(* Map veto and assignment *)

\* Mutant: the last ban does not queue the match for finalization.
IndexAfterBanMutant(m, left) ==
  /\ vetoDeadlines' = IF left = 1 THEN vetoDeadlines \ {m}
                      ELSE vetoDeadlines \cup {m}
  /\ UNCHANGED finalizations

\* Mutant: the next captain's turn gets no deadline.
TurnWithoutDeadlineMutant(m, left) ==
  /\ vetoDeadlines' = vetoDeadlines \ {m}
  /\ finalizations' = IF left = 1 THEN finalizations \cup {m}
                      ELSE finalizations

\* A ban ends a captain's turn: the next turn gets a deadline, or the match is
\* queued for finalization.
IndexAfterBan(m, left) ==
  /\ vetoDeadlines' = IF left = 1 THEN vetoDeadlines \ {m}
                      ELSE vetoDeadlines \cup {m}
  /\ finalizations' = IF left = 1 THEN finalizations \cup {m}
                      ELSE finalizations

\* BAN_VETO_MAP_SCRIPT removes one map.  The last ban hands the match over to
\* finalization.
BanMap(m) ==
  LET left == veto[m].left - 1 IN
  /\ VetoActive(m) /\ veto[m].left > 1
  /\ veto' = [veto EXCEPT ![m].left = left,
       ![m].status = IF left = 1 THEN "allocating" ELSE "active"]
  /\ IndexAfterBan(m, left)
  /\ UNCHANGED <<ticketVars, fence, readyVars, cancellations, penaltyVars,
                 roster, plan, request>>

\* sweepExpiredMapVetos: the captain's turn is over, the system bans.
SweepVeto(m) ==
  /\ m \in vetoDeadlines /\ veto[m].status = "overdue"
  /\ BanMap(m)

VetoDeadline(m) ==
  /\ veto[m].status = "active"
  /\ veto' = [veto EXCEPT ![m].status = "overdue"]
  /\ UNCHANGED <<ticketVars, fence, readyVars, vetoDeadlines, finalizations,
                 cancellations, penaltyVars, roster, plan, request>>

\* The tickets COMPLETE_VETO_SCRIPT delivers the assignment to.
Deliverable(m) ==
  {t \in veto[m].tickets : tickets[t].phase = "map-veto"}

\* COMPLETE_VETO_SCRIPT, run by the finalization loop once a server is leased.
CompleteVeto(m) ==
  /\ m \in finalizations
  /\ veto[m].status = "allocating"
  /\ MoveTickets(Deliverable(m), "assigned", m)
  /\ veto' = [veto EXCEPT ![m] = NoVeto]
  /\ vetoDeadlines' = vetoDeadlines \ {m}
  /\ finalizations' = finalizations \ {m}
  /\ UNCHANGED <<pointer, partyTicket, searching, fence, readyVars,
                 cancellations, penaltyVars, roster, plan, request>>

\* REASSIGN_MATCH_SCRIPT: an operator's remake, a match with a new id and the
\* roster of the one it replaces, takes over the tickets assigned to that one.
\* The script asks nothing else of the old match.  deliverReplacement may be
\* repeated for one remake; the model delivers each once.
ReassignMatch(old, new) ==
  LET S == {pointer[p] : p \in roster[old]} \ {0} IN
  /\ roster[old] # {} /\ roster[new] = {}
  /\ tickets' = [t \in TicketId |->
       IF t \in S /\ tickets[t].phase = "assigned" /\ tickets[t].match = old
       THEN [tickets[t] EXCEPT !.match = new] ELSE tickets[t]]
  /\ roster' = [roster EXCEPT ![new] = roster[old]]
  /\ UNCHANGED <<pointer, partyTicket, searching, fence, readyVars, vetoVars,
                 cancellations, penaltyVars, plan, request>>

-----------------------------------------------------------------------------
PlayerStep(p) ==
  \/ \E g \in Group : g.leader = p /\ Join(g)
  \/ \E t \in TicketId : ReleaseSearch(p, t)
  \/ \E op \in {"read", "leave"} : p \in Requester /\ ReadPointer(p, op)
  \/ ReadTicket(p) \/ DropPointer(p) \/ CancelLapsed(p)
  \/ Decline(p) \/ LeaveTicket(p) \/ RequestLost(p)
  \/ \E m \in MatchId : Accept(p, m) \/ AcceptTooLate(p, m)
  \/ CooldownEnds(p) \/ FailuresExpire(p)

WorkerStep(w) ==
  SelectMatch(w) \/ CreateReadyCheck(w) \/ ClaimStale(w) \/ PassLost(w)

MatchStep(m) ==
  \/ ReadyDeadline(m) \/ SweepReadyCheck(m) \/ AcknowledgeCancellation(m)
  \/ BanMap(m) \/ SweepVeto(m) \/ VetoDeadline(m) \/ CompleteVeto(m)
  \/ \E new \in MatchId : ReassignMatch(m, new)

Next ==
  \/ \E p \in Player : PlayerStep(p)
  \/ \E w \in Worker : WorkerStep(w)
  \/ \E m \in MatchId : MatchStep(m)

Spec == Init /\ [][Next]_vars

\* The one-second timers: a deadline passes, and an expired ready check or
\* captain's turn is swept.  Nothing is assumed of players, of the matchmaker
\* or of finalization, which waits for a server.
Fairness ==
  \A m \in MatchId :
    /\ WF_vars(ReadyDeadline(m)) /\ WF_vars(SweepReadyCheck(m))
    /\ WF_vars(VetoDeadline(m))  /\ WF_vars(SweepVeto(m))

FairSpec == Spec /\ Fairness

-----------------------------------------------------------------------------
(* Properties *)

\* Every Redis key, the workers' plans and the requests in progress keep their
\* types; the cooldowns are those of the ladder of CANCEL_READY_CHECK_SCRIPT.
TypeOK ==
  /\ tickets \in [TicketId -> Ticket]
  /\ pointer \in [Player -> TicketId \cup {0}]
  /\ partyTicket \in [Party -> TicketId \cup {0}]
  /\ searching \subseteq TicketId
  /\ fence \in 0..MaxTickets
  /\ ready \in [MatchId -> Ready]
  /\ readyDeadlines \subseteq MatchId
  /\ veto \in [MatchId -> Veto]
  /\ vetoDeadlines \subseteq MatchId
  /\ finalizations \subseteq MatchId
  /\ cancellations \in [MatchId -> {"none", "decline", "expiry"}]
  /\ failures \in [Player -> Nat]
  /\ cooldown \in [Player -> {0, 30, 120, 600, 1800}]
  /\ roster \in [MatchId -> SUBSET Player]
  /\ plan \in [Worker -> Plan]
  /\ request \in [Player -> Request]
  /\ pressed \in [MatchId -> SUBSET Player]

\* A player's or a party's ticket pointer names an existing ticket that the
\* player or party is on: no interleaving of joins, leaves, cancellations and
\* unconditional pointer deletions leaves one dangling or crossed.
PointersLive ==
  /\ \A p \in Player : pointer[p] # 0 =>
       Live(pointer[p]) /\ p \in tickets[pointer[p]].group.members
  /\ \A y \in Party : partyTicket[y] # 0 =>
       Live(partyTicket[y]) /\ tickets[partyTicket[y]].group.party = y

\* A ticket is where the process that must move it on looks for it: a searching
\* ticket in the matchmaker's index, a ticket in a ready check on a live record
\* in the deadline index, a ticket in map veto on a record that is in the index
\* of captains' deadlines or of pending finalizations.
NoTicketStranded ==
  \A t \in TicketId :
    LET m == tickets[t].match IN
    /\ tickets[t].phase = "searching" <=> t \in searching
    /\ tickets[t].phase = "ready-check" =>
         ReadyLive(m) /\ t \in ready[m].tickets /\ m \in readyDeadlines
    /\ tickets[t].phase = "map-veto" =>
         /\ t \in veto[m].tickets
         /\ \/ VetoActive(m) /\ m \in vetoDeadlines
            \/ veto[m].status = "allocating" /\ m \in finalizations

\* The tickets a ready check or a veto holds.
Claimed(m) == ready[m].tickets \cup veto[m].tickets

\* Two matches never hold the same ticket, also when the lock of a matchmaker
\* pass has lapsed and two workers claim from overlapping snapshots; and no
\* match is in ready check and veto at once.
ClaimedOnce ==
  /\ \A m, n \in MatchId : m # n => Claimed(m) \cap Claimed(n) = {}
  /\ \A m \in MatchId : ~(ReadyLive(m) /\ veto[m].status # "none")

\* Once a cancellation is in the outbox the match is over: no record of it is
\* left and no player's ticket still belongs to it, so cancelling the reserved
\* match in PostgreSQL takes a server from nobody.
CancelledMatchIsOver ==
  \A m \in MatchId : cancellations[m] # "none" =>
    /\ ~ReadyLive(m) /\ veto[m].status = "none"
    /\ \A t \in TicketId : tickets[t].match # m

\* A ready check ends in a veto or an assignment only when it is a full roster
\* of distinct players and each of them has accepted this match, the last one
\* in this step: a player who accepts twice does not stand in for another.
MatchNeedsEveryone ==
  [][\A m \in MatchId :
       ReadyLive(m) /\ ~ReadyLive(m)' /\ cancellations'[m] = "none" =>
         /\ Cardinality(ready[m].members) = RosterSize
         /\ ready[m].members \subseteq pressed'[m]]_vars

\* Player p declines in this step: its own leave request, which found the ready
\* check, is answered.
DeclinesNow(p, m) ==
  request[p].pc = "declining" /\ request[p].match = m /\ request'[p] = NoRequest

\* Player p, a member of ready check m, has earned a penalty in this step: the
\* check is cancelled because p declines it now, or because its deadline passed
\* and p never accepted it; and p leads every ticket of it that came from a
\* Steam lobby with p.
Earned(p, m) ==
  /\ ReadyLive(m) /\ p \in ready[m].members
  /\ \/ cancellations'[m] = "decline" /\ DeclinesNow(p, m)
     \/ /\ cancellations'[m] = "expiry"
        /\ ready[m].status = "late" /\ p \notin pressed[m]
  /\ \A t \in ready[m].tickets :
       /\ p \in tickets[t].group.members
       /\ tickets[t].group.party \in SteamLobby
       => p = tickets[t].group.leader

\* A queue penalty falls only on players who earned it, whoever cancels the
\* ready check: a decline, a late acceptance, a status poll or the sweep.  The
\* players beside one who declines are not penalised.
PenaltyDeserved ==
  [][\A p \in Player : failures'[p] > failures[p] =>
       \E m \in MatchId : Earned(p, m)]_vars

\* A ready check always comes to an end, through acceptance, decline or sweep.
ReadyCheckEnds == \A m \in MatchId : ReadyLive(m) ~> ~ReadyLive(m)

\* A ticket never stays in a ready check or in a veto its captains abandon: it
\* is removed, assigned, or its match is queued for finalization.
TicketMovesOn ==
  \A t \in TicketId :
    tickets[t].phase \in {"ready-check", "map-veto"} ~>
      \/ tickets[t].phase \notin {"ready-check", "map-veto"}
      \/ tickets[t].match \in finalizations

\* Finalizing an accepted match delivers the assignment to its whole roster:
\* the finalization loop throws 'Map-veto assignment reached n/10 players' on
\* any other count.
RosterDelivered ==
  [][\A m \in MatchId :
       veto[m].status = "allocating" /\ veto'[m].status = "none" =>
         UNION {tickets[t].group.members : t \in Deliverable(m)}
           = veto[m].members]_vars

\* A player is on at most one ticket, however many tabs and processes join.
OneTicketPerPlayer ==
  \A t, u \in TicketId : t # u =>
    tickets[t].group.members \cap tickets[u].group.members = {}
-----------------------------------------------------------------------------
(* The inductive invariant behind the safety properties above *)

\* What a ticket key can hold, by phase.
TicketShape ==
  \A t \in TicketId :
    /\ tickets[t].phase = "none" => tickets[t] = NoTicket
    /\ tickets[t].phase # "none" => tickets[t].group \in Group /\ t <= fence
    /\ tickets[t].phase = "searching" => tickets[t].match = NoMatch
    /\ tickets[t].phase \in {"ready-check", "map-veto", "assigned"}
         => tickets[t].match \in MatchId

\* A deleted record is empty and a live one is in the index of its sweep.
RecordShape ==
  \A m \in MatchId :
    /\ ~ReadyLive(m) => ready[m].tickets = {}
    /\ ReadyLive(m) => ready[m].accepted = pressed[m]
    /\ ReadyLive(m) => m \in readyDeadlines
    /\ veto[m].status = "none" => veto[m].tickets = {}
    /\ VetoActive(m) => m \in vetoDeadlines
    /\ veto[m].status = "allocating" => m \in finalizations

\* A ticket id a record holds was issued, and its ticket is at that stage of
\* that match or gone: it can never be claimed again.
ClaimsSpent ==
  \A m \in MatchId, t \in TicketId :
    /\ t \in ready[m].tickets =>
         /\ t <= fence
         /\ \/ tickets[t].phase = "none"
            \/ tickets[t].phase = "ready-check" /\ tickets[t].match = m
    /\ t \in veto[m].tickets =>
         /\ t <= fence
         /\ \/ tickets[t].phase = "none"
            \/ tickets[t].phase = "map-veto" /\ tickets[t].match = m

\* No trace of match m in the queue.
Unused(m) ==
  /\ ~ReadyLive(m) /\ veto[m].status = "none" /\ cancellations[m] = "none"
  /\ pressed[m] = {}
  /\ \A t \in TicketId : tickets[t].match # m

\* A match id that is fresh, or planned by a worker, is unused.
MatchFresh ==
  /\ \A m \in MatchId : roster[m] = {} => Unused(m)
  /\ \A w \in Worker : plan[w].match # NoMatch =>
       Unused(plan[w].match) /\ roster[plan[w].match] # {}
  /\ \A v, w \in Worker :
       v # w /\ plan[v].match # NoMatch => plan[v].match # plan[w].match

\* A match is at one stage at a time.
MatchStage ==
  /\ \A m \in MatchId :
       ReadyLive(m) \/ veto[m].status # "none" => cancellations[m] = "none"
  /\ \A t \in TicketId : tickets[t].phase = "assigned" =>
       ~ReadyLive(tickets[t].match) /\ veto[tickets[t].match].status = "none"

\* A request that goes on to use a ticket or a match has read one.
RequestShape ==
  \A p \in Player :
    /\ request[p].pc = "pointed" => request[p].ticket \in TicketId
    /\ request[p].pc \in {"lapsed", "declining"} => request[p].match \in MatchId

\* What every step preserves.
IInv ==
  /\ TypeOK /\ PointersLive /\ NoTicketStranded /\ ClaimedOnce
  /\ CancelledMatchIsOver /\ TicketShape /\ RecordShape /\ ClaimsSpent
  /\ MatchFresh /\ MatchStage /\ RequestShape
=============================================================================
