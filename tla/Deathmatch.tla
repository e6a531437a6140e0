----------------------------- MODULE Deathmatch -----------------------------
(***************************************************************************)
(* Dropping in on a deathmatch (deathmatch-drop-in-service.ts): a call     *)
(* enters the queue, is placed in an open session of its region, leases a  *)
(* server or brings the lease's roster up to date, waits until the server  *)
(* has it, and only then assigns its ticket.  Every step is a transaction  *)
(* of its own; calls, leaving players, the end of the session and stopped  *)
(* processes come in between.                                              *)
(*                                                                         *)
(* One region: its advisory lock makes the placing of a call atomic.       *)
(***************************************************************************)
EXTENDS Integers, FiniteSets

CONSTANTS
  Player, Ticket, Call, Session,
  Seats,         \* 14 in the code
  DropInFaults   \* bound: stopped calls and changes of inventory

ASSUME DeathmatchAssumption ==
  /\ Seats \in Nat \ {0} /\ DropInFaults \in Nat
  /\ "none" \notin Ticket \cup Session \cup Player

VARIABLES
  entry,       \* per ticket queue:ticket:<id>
  pointer,     \* per player player:<id>:ticket
  population,  \* per session deathmatch:<id>:players
  session,     \* per session the status of its row in matches
  roster,      \* per session its rows in rosters
  hosted,      \* the sessions with an active lease
  manifest,    \* per session the roster in the manifest of its lease
  served,      \* per session the roster its server has acknowledged
  overtaken,   \* sessions whose manifest was last reissued for an inventory
  call,        \* per call how far it is
  mishaps      \* faults so far

deathmatchVars == <<entry, pointer, population, session, roster, hosted, manifest,
                    served, overtaken, call, mishaps>>
queueVars == <<entry, pointer, population>>
matchVars == <<session, roster>>
leaseVars == <<hosted, manifest, served, overtaken>>

Blank == [phase |-> "none", members |-> {}, leader |-> "none", session |-> "none"]
Asleep == [pc |-> "idle", player |-> "none", ticket |-> "none", session |-> "none",
           need |-> {}, blind |-> FALSE]

DeathmatchInit ==
  /\ entry = [t \in Ticket |-> Blank]
  /\ pointer = [p \in Player |-> "none"]
  /\ population = [s \in Session |-> {}]
  /\ session = [s \in Session |-> "none"]
  /\ roster = [s \in Session |-> {}]
  /\ hosted = {} /\ overtaken = {}
  /\ manifest = [s \in Session |-> {}] /\ served = [s \in Session |-> {}]
  /\ call = [c \in Call |-> Asleep]
  /\ mishaps = 0

Open == {s \in Session : session[s] \in {"pending", "live"}}

At(c, pc) == call[c].pc = pc
Goto(c, pc) == call' = [call EXCEPT ![c].pc = pc]
Fail(c) == call' = [call EXCEPT ![c] = [Asleep EXCEPT !.pc = "undo", !.ticket = call[c].ticket]]
Proceed(c, ok, pc) == IF ok THEN Goto(c, pc) ELSE Fail(c)

\* Deletes a set of tickets with the pointers of their members that lead to them.
Remove(ts) ==
  /\ entry' = [t \in Ticket |-> IF t \in ts THEN [entry[t] EXCEPT !.phase = "gone"] ELSE entry[t]]
  /\ pointer' = [p \in Player |-> IF pointer[p] \in ts THEN "none" ELSE pointer[p]]

-----------------------------------------------------------------------------
(* The call: join.                                                         *)

\* queue.join: the caller's own ticket if he has one; a new ticket if nobody
\* of the group has one.
EnterQueue(c, p, g) ==
  /\ At(c, "idle") /\ p \in g
  /\ \/ /\ pointer[p] # "none"
        /\ UNCHANGED <<entry, pointer>>
     \/ /\ \A q \in g : pointer[q] = "none"
        /\ \E t \in Ticket :
             /\ entry[t].phase = "none"
             /\ entry' = [entry EXCEPT ![t] = [phase |-> "searching", members |-> g,
                                               leader |-> p, session |-> "none"]]
             /\ pointer' = [q \in Player |-> IF q \in g THEN t ELSE pointer[q]]
  /\ call' = [call EXCEPT ![c] = [Asleep EXCEPT !.pc = "find", !.player = p]]
  /\ UNCHANGED <<population, matchVars, leaseVars, mishaps>>

\* ticketForPlayer, and the checks on what it finds.
FindTicket(c) ==
  LET t == pointer[call[c].player] IN
  /\ At(c, "find")
  /\ call' = [call EXCEPT ![c] =
       IF t = "none" \/ entry[t].phase # "searching" THEN Asleep
       ELSE [Asleep EXCEPT !.pc = "place", !.ticket = t]]
  /\ UNCHANGED <<queueVars, matchVars, leaseVars, mishaps>>

Seated(s, g) == Cardinality(roster[s] \cup g) <= Seats

\* Open sessions with room: live ones first; a live one needs its server.
Joinable(g) ==
  LET room == {s \in Open : Cardinality(roster[s]) + Cardinality(g) <= Seats}
      live == {s \in room : session[s] = "live" /\ s \in hosted} IN
  IF live # {} THEN live ELSE {s \in room : session[s] = "pending"}

Sit(c, s, g) ==
  /\ roster' = [roster EXCEPT ![s] = @ \cup g]
  /\ call' = [call EXCEPT ![c].pc = "read", ![c].session = s]

\* The transaction of joinDeathmatch.
PlaceInSession(c) ==
  LET g == entry[call[c].ticket].members
      already == {s \in Open : roster[s] \cap g # {}} IN
  /\ At(c, "place")
  /\ \/ \E s \in already :
          /\ already = {s} /\ Seated(s, g)
          /\ Sit(c, s, g) /\ UNCHANGED session
     \/ \E s \in Joinable(g) :
          /\ already = {}
          /\ Sit(c, s, g) /\ UNCHANGED session
     \/ \E s \in Session :
          /\ already = {} /\ Joinable(g) = {} /\ session[s] = "none"
          /\ session' = [session EXCEPT ![s] = "pending"]
          /\ Sit(c, s, g)
     \/ Fail(c) /\ UNCHANGED matchVars   \* split, full, or not eligible
  /\ UNCHANGED <<queueVars, leaseVars, mishaps>>

\* allocateDropInDeathmatch looks the session up once more and takes its roster
\* for the manifest; the inventories of these players are then brought up to date.
ReadSession(c) ==
  LET s == call[c].session IN
  /\ At(c, "read")
  /\ IF s \in Open THEN call' = [call EXCEPT ![c].pc = "lease", ![c].need = roster[s]] ELSE Fail(c)
  /\ UNCHANGED <<queueVars, matchVars, leaseVars, mishaps>>

\* leaseReadyServer: the session's lease, a free server with the roster read
\* before in its manifest, or an error.
LeaseHost(c) ==
  LET s == call[c].session IN
  /\ At(c, "lease")
  /\ \/ /\ s \in hosted
        /\ call' = [call EXCEPT ![c].pc = "sync", ![c].need = {}]
        /\ UNCHANGED leaseVars
     \/ /\ s \notin hosted
        /\ hosted' = hosted \cup {s}
        /\ manifest' = [manifest EXCEPT ![s] = call[c].need]
        /\ served' = [served EXCEPT ![s] = {}]
        /\ overtaken' = overtaken \ {s}
        /\ Goto(c, "prepare")
     \/ s \notin hosted /\ Fail(c) /\ UNCHANGED leaseVars
  /\ UNCHANGED <<queueVars, matchVars, mishaps>>

\* waitForCommand: acknowledged, or failed, or too late.
AwaitServer(c) ==
  /\ At(c, "prepare") \/ At(c, "wait")
  /\ \/ /\ call[c].need \subseteq served[call[c].session]
        /\ call' = [call EXCEPT ![c].pc = IF @ = "prepare" THEN "sync" ELSE "grant", ![c].need = {}]
     \/ Fail(c)
  /\ UNCHANGED <<queueVars, matchVars, leaseVars, mishaps>>

\* Mutant: a roster that is already in the manifest is not waited for.
SynchronizeRosterMutant(c) ==
  LET s == call[c].session IN
  /\ At(c, "sync")
  /\ IF s \notin hosted \/ s \notin Open THEN Fail(c) /\ UNCHANGED leaseVars
     ELSE IF manifest[s] = roster[s]
          THEN Goto(c, "grant") /\ UNCHANGED leaseVars
          ELSE /\ manifest' = [manifest EXCEPT ![s] = roster[s]]
               /\ overtaken' = overtaken \ {s}
               /\ call' = [call EXCEPT ![c].pc = "wait", ![c].need = roster[s]]
               /\ UNCHANGED <<hosted, served>>
  /\ UNCHANGED <<queueVars, matchVars, mishaps>>

\* synchronizeDeathmatchRoster.  An unchanged roster waits for the command that
\* carried it, which is looked up by the manifest's time of issue among the
\* prepare and sync-roster commands.
SynchronizeRoster(c) ==
  LET s == call[c].session  blind == s \in overtaken IN
  /\ At(c, "sync")
  /\ \/ /\ s \notin hosted \/ s \notin Open
        /\ Fail(c) /\ UNCHANGED leaseVars
     \/ /\ s \in hosted /\ s \in Open /\ manifest[s] = roster[s]
        /\ call' = [call EXCEPT ![c].pc = IF blind THEN "grant" ELSE "wait", ![c].blind = blind,
                                ![c].need = IF blind THEN {} ELSE roster[s]]
        /\ UNCHANGED leaseVars
     \/ /\ s \in hosted /\ s \in Open /\ manifest[s] # roster[s]
        /\ manifest' = [manifest EXCEPT ![s] = roster[s]]
        /\ overtaken' = overtaken \ {s}
        /\ call' = [call EXCEPT ![c].pc = "wait", ![c].need = roster[s]]
        /\ UNCHANGED <<hosted, served>>
  /\ UNCHANGED <<queueVars, matchVars, mishaps>>

\* issueLauncherGrant needs an active lease.
IssueGrant(c) ==
  /\ At(c, "grant")
  /\ Proceed(c, call[c].session \in hosted, "assign")
  /\ UNCHANGED <<queueVars, matchVars, leaseVars, mishaps>>

\* The script of assignDeathmatch; a ticket that is no longer searching is stale.
AssignTicket(c) ==
  LET t == call[c].ticket  s == call[c].session IN
  /\ At(c, "assign")
  /\ IF entry[t].phase = "searching"
     THEN /\ entry' = [entry EXCEPT ![t].phase = "assigned", ![t].session = s]
          /\ population' = [population EXCEPT ![s] = @ \cup entry[t].members]
          /\ call' = [call EXCEPT ![c] = [Asleep EXCEPT !.pc = "refresh", !.session = s]]
     ELSE Fail(c) /\ UNCHANGED <<entry, population>>
  /\ UNCHANGED <<pointer, matchVars, leaseVars, mishaps>>

Assigned(t, s) == entry[t].phase = "assigned" /\ entry[t].session = s

\* refreshDeathmatchPopulation: tickets of the session are read and written back.
RefreshPopulation(c) ==
  LET s == call[c].session IN
  /\ \/ /\ At(c, "refresh")
        /\ \E t \in {pointer[p] : p \in population[s]} \ {"none"} :
             /\ Assigned(t, s)
             /\ call' = [call EXCEPT ![c].pc = "set", ![c].ticket = t]
        /\ UNCHANGED entry
     \/ /\ At(c, "set")
        /\ entry' = [entry EXCEPT ![call[c].ticket].phase = "assigned"]
        /\ call' = [call EXCEPT ![c].pc = "refresh", ![c].ticket = "none"]
     \/ /\ At(c, "refresh")
        /\ call' = [call EXCEPT ![c] = Asleep]
        /\ UNCHANGED entry
  /\ UNCHANGED <<pointer, population, matchVars, leaseVars, mishaps>>

\* Mutant: whatever ticket the leader has by now is removed if it searches.
CancelCapturedMutant(c) ==
  LET t == pointer[entry[call[c].ticket].leader] IN
  /\ At(c, "undo")
  /\ Remove(IF t \in Ticket /\ entry[t].phase = "searching" THEN {t} ELSE {})
  /\ call' = [call EXCEPT ![c] = Asleep]
  /\ UNCHANGED <<population, matchVars, leaseVars, mishaps>>

\* cancelDeathmatchTicket: only the searching ticket this call had found, while
\* its leader still points at it.
CancelCaptured(c) ==
  LET t == call[c].ticket IN
  /\ At(c, "undo")
  /\ Remove(IF pointer[entry[t].leader] = t /\ entry[t].phase = "searching" THEN {t} ELSE {})
  /\ call' = [call EXCEPT ![c] = Asleep]
  /\ UNCHANGED <<population, matchVars, leaseVars, mishaps>>

-----------------------------------------------------------------------------
(* Around the calls.                                                       *)

\* leave: the leader takes his ticket out, searching or assigned.
LeaveQueue(p) ==
  /\ pointer[p] # "none" /\ entry[pointer[p]].leader = p
  /\ Remove({pointer[p]})
  /\ UNCHANGED <<population, matchVars, leaseVars, call, mishaps>>

\* The agent has applied the manifest of the newest prepare or sync-roster.
ServerAcknowledges(s) ==
  /\ s \in hosted /\ served[s] # manifest[s]
  /\ served' = [served EXCEPT ![s] = manifest[s]]
  /\ UNCHANGED <<queueVars, matchVars, hosted, manifest, overtaken, call, mishaps>>

\* synchronizeActiveInventory reissues the manifest with new cosmetics.
InventoryReissued(s) ==
  /\ s \in hosted \cap Open /\ mishaps < DropInFaults
  /\ overtaken' = overtaken \cup {s}
  /\ mishaps' = mishaps + 1
  /\ UNCHANGED <<queueVars, matchVars, hosted, manifest, served, call>>

SessionGoesLive(s) ==
  /\ session[s] = "pending" /\ served[s] # {}
  /\ session' = [session EXCEPT ![s] = "live"]
  /\ UNCHANGED <<queueVars, roster, leaseVars, call, mishaps>>

\* The session is played, aborted or its lease expires: its server is given back.
SessionEnds(s) ==
  /\ s \in hosted
  /\ session' = [session EXCEPT ![s] = "ended"]
  /\ hosted' = hosted \ {s}
  /\ UNCHANGED <<queueVars, roster, manifest, served, overtaken, call, mishaps>>

\* completeDeathmatch, which follows a result or an abort, possibly twice.
CompleteSession(s) ==
  /\ session[s] = "ended" /\ population[s] # {}
  /\ Remove({t \in {pointer[p] : p \in population[s]} \cap Ticket : Assigned(t, s)})
  /\ population' = [population EXCEPT ![s] = {}]
  /\ UNCHANGED <<matchVars, leaseVars, call, mishaps>>

CallStops(c) ==
  /\ call[c].pc # "idle" /\ mishaps < DropInFaults
  /\ call' = [call EXCEPT ![c] = Asleep]
  /\ mishaps' = mishaps + 1
  /\ UNCHANGED <<queueVars, matchVars, leaseVars>>

DeathmatchNext ==
  \/ \E c \in Call :
       \/ \E p \in Player, g \in SUBSET Player : EnterQueue(c, p, g)
       \/ FindTicket(c) \/ PlaceInSession(c) \/ ReadSession(c) \/ LeaseHost(c)
       \/ AwaitServer(c) \/ SynchronizeRoster(c) \/ IssueGrant(c) \/ AssignTicket(c)
       \/ RefreshPopulation(c) \/ CancelCaptured(c) \/ CallStops(c)
  \/ \E p \in Player : LeaveQueue(p)
  \/ \E s \in Session : ServerAcknowledges(s) \/ InventoryReissued(s) \/ SessionGoesLive(s)
                        \/ SessionEnds(s) \/ CompleteSession(s)

DeathmatchSpec == DeathmatchInit /\ [][DeathmatchNext]_deathmatchVars

-----------------------------------------------------------------------------
DeathmatchTypeOK ==
  /\ entry \in [Ticket -> [phase : {"none", "searching", "assigned", "gone"},
                           members : SUBSET Player, leader : Player \cup {"none"},
                           session : Session \cup {"none"}]]
  /\ pointer \in [Player -> Ticket \cup {"none"}]
  /\ population \in [Session -> SUBSET Player]
  /\ session \in [Session -> {"none", "pending", "live", "ended"}]
  /\ {roster, manifest, served} \subseteq [Session -> SUBSET Player]
  /\ hosted \subseteq Session /\ overtaken \subseteq Session
  /\ call \in [Call -> [pc : {"idle", "find", "place", "read", "lease", "prepare", "sync",
                              "wait", "grant", "assign", "refresh", "set", "undo"},
                        player : Player \cup {"none"}, ticket : Ticket \cup {"none"},
                        session : Session \cup {"none"}, need : SUBSET Player, blind : BOOLEAN]]
  /\ mishaps \in 0..DropInFaults

\* Players are sent to a deathmatch only when its server has acknowledged a
\* roster with all of them, through whichever call's command they got there.
\* Left out are a session that has just ended, and one whose manifest was
\* reissued for an inventory: the look-up of the roster's command then finds
\* none and nothing is waited for (node-control-service.ts:812).
AssignedIsAdmitted ==
  [][\A t \in Ticket : entry[t].phase = "searching" /\ entry'[t].phase = "assigned" =>
       LET s == entry'[t].session IN
       \/ entry[t].members \subseteq served[s]
       \/ s \notin Open
       \/ \E c \in Call : call[c].ticket = t /\ At(c, "assign") /\ call[c].blind]_deathmatchVars

\* A call that fails takes out the ticket it had found and no other, and that
\* only while it searches: a ticket another call has assigned meanwhile stays
\* with its players, and so does the one they have queued with again, searching
\* or assigned (deathmatch-drop-in-service.ts:46).  A ticket that was removed is
\* found by nobody, and nobody is ever led to a ticket that was there before:
\* what the refresh of the population writes back after a removal
\* (redis-queue-service.ts:1094) is found by nobody for good.
OnlySearchingIsUndone ==
  [][/\ \A c \in Call :
          LET found == {t \in {call[c].ticket} : entry[t].phase = "searching"} IN
          call[c].pc = "undo" /\ call'[c].pc = "idle" /\ mishaps' = mishaps =>
            /\ \A p \in Player : pointer'[p] = pointer[p] \/ pointer[p] \in found
            /\ \A t \in Ticket \ found : entry'[t] = entry[t]
     /\ \A p \in Player :
          /\ pointer[p] # "none" => entry[pointer[p]].phase # "gone"
          /\ pointer'[p] \in {pointer[p], "none"} \/ entry[pointer'[p]].phase = "none"]_deathmatchVars
=============================================================================
