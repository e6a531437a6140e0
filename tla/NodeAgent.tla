------------------------------ MODULE NodeAgent ------------------------------
(***************************************************************************)
(* The agent of one game node (apps/node-agent): its heartbeat, the        *)
(* commands it executes, and the event pump that carries the plugin's      *)
(* events and the result of a match to the API.  The agent keeps the       *)
(* manifest, the event cursor, a result and a receipt in one file that it  *)
(* renames into place; everything else it forgets when it restarts.        *)
(*                                                                         *)
(* The control plane is what NodeControl does for one instance, the game   *)
(* server process is external, and of its plugin (aftertick_match.sp)      *)
(* there are the lines it writes.  They go to one file: the rotation that  *)
(* sets the cursor back (event-pump.ts:236) is left out.  The operations   *)
(* of the pump are serialized in the code and are single steps here; the   *)
(* heartbeat awaits between its steps, so the pump, the plugin and the     *)
(* control plane run in between.  A failure that the network, the server   *)
(* or a crash causes is counted against MaxFaults.                         *)
(***************************************************************************)
EXTENDS Integers, Sequences, FiniteSets

CONSTANTS
  MaxLeases,    \* bound on the leases granted, which are their fencing tokens
  MaxRevision,  \* bound on the roster revisions of one lease
  MaxAttempts,  \* node_commands.max_attempts
  MaxCommands,  \* bound on the commands enqueued, before the last drains
  MaxLines,     \* bound on the lines the plugin writes
  MaxFaults     \* bound on the failures

ASSUME AgentAssumption ==
  MaxLeases \in Nat /\ MaxRevision \in Nat /\ MaxAttempts \in Nat \ {0}
  /\ MaxCommands \in Nat /\ MaxLines \in Nat /\ MaxFaults \in Nat

VARIABLES
  leases,   \* the control plane: the status of each lease
  db,       \* the control plane: the state of the instance
  queue,    \* the control plane: the commands, in order
  got,      \* per lease the events that were accepted
  results,  \* per lease the result that was accepted: pending, its match
            \* completed, settled, or kept from settlement by a dispute
  server,   \* whether the game server runs, what it plays, its roster policy
  log,      \* the lines the plugin has written
  pump,     \* the file of the event pump
  agent,    \* the agent's memory
  work,     \* where its heartbeat stands; early: the reply came after the end of
            \* the match and before the release of its lease (not in the code)
  evidence, \* the leases whose demo was offered, whose receipt was shown, whose
            \* file was begun anew, and whose file was dropped: replaced by an
            \* earlier lease's, or discarded as expired
  faults    \* failures so far

controlVars == <<leases, db, queue, got, results>>
vars == <<controlVars, server, log, pump, agent, work, evidence, faults>>

-----------------------------------------------------------------------------

Leases == 1..MaxLeases
NoLease == 0

\* A released lease may report for fifteen minutes more, then it is closed; a
\* lease that expired is closed at once.
LeaseStatus == {"active", "released", "closed"}

CommandType ==
  {"start", "prepare", "sync-roster", "drain", "quarantine", "unquarantine"}

\* terminal: the reason of a drain is match_completed or server_abort.
Command ==
  [type : CommandType, lease : {NoLease} \cup Leases, rev : 0..MaxRevision, terminal : BOOLEAN,
   status : {"pending", "claimed", "completed", "failed"}, tries : 0..MaxAttempts,
   resting : BOOLEAN]

NewCommand(type, l, rev, terminal) ==
  [type |-> type, lease |-> l, rev |-> rev, terminal |-> terminal,
   status |-> "pending", tries |-> 0, resting |-> FALSE]

\* The file of the pump; no lease means that there is no match.
NoPump == [lease |-> NoLease, rev |-> 0, cursor |-> 0, seq |-> 1, result |-> FALSE, receipt |-> FALSE]
Begin(l) == [NoPump EXCEPT !.lease = l, !.cursor = Len(log)]

NoMatch == [lease |-> NoLease, phase |-> "idle"]
FreshAgent ==
  [state |-> "offline", desired |-> FALSE, child |-> FALSE, fence |-> 0,
   checked |-> FALSE, quarantined |-> FALSE]
Idle == [pc |-> "idle", hand |-> {}, defer |-> FALSE, alive |-> FALSE, early |-> FALSE, wait |-> 0]

Init ==
  /\ leases = <<>> /\ db = "offline" /\ queue = <<>>
  /\ got = [l \in Leases |-> {}] /\ results = [l \in Leases |-> "none"]
  /\ server = [running |-> FALSE, match |-> NoMatch, policy |-> [lease |-> NoLease, rev |-> 0]]
  /\ log = <<>>
  /\ pump = NoPump
  /\ agent = FreshAgent
  /\ work = Idle
  /\ evidence = [demo |-> {}, shown |-> {}, anew |-> {}, dropped |-> {}]
  /\ faults = 0

Fault == faults < MaxFaults /\ faults' = faults + 1

Active(l) == l \in DOMAIN leases /\ leases[l] = "active"
Accepted(l, kind) == \E e \in got[l] : log[e.line].kind = kind

\* A match that is neither pending nor live: cancelled, disputed or completed.
Over(l) == Accepted(l, "aborted") \/ results[l] \in {"disputed", "completed", "settled"}
InPlay(l) == Active(l) /\ ~Over(l)

\* The control plane gives a lease up and has the instance drained.
Release(l, terminal) ==
  IF Active(l)
  THEN /\ leases' = [leases EXCEPT ![l] = "released"]
       /\ db' = "draining"
       /\ queue' = Append(queue, NewCommand("drain", l, 0, terminal))
  ELSE UNCHANGED <<leases, db, queue>>

-----------------------------------------------------------------------------
(* The control plane (NodeControl), for this instance.                     *)

controlOnly == <<server, log, pump, agent, work, evidence, faults>>

\* An instance has one active lease by a unique index.
GrantLease ==
  /\ db = "ready" /\ (\A l \in Leases : ~Active(l))
  /\ Len(leases) < MaxLeases /\ Len(queue) < MaxCommands
  /\ leases' = Append(leases, "active")
  /\ db' = "leased"
  /\ queue' = Append(queue, NewCommand("prepare", Len(leases'), 0, FALSE))
  /\ UNCHANGED <<got, results, controlOnly>>

WakeServer ==
  /\ db = "offline" /\ Len(queue) < MaxCommands
  /\ \A c \in DOMAIN queue : queue[c].type = "start" => queue[c].status \in {"completed", "failed"}
  /\ db' = "starting"
  /\ queue' = Append(queue, NewCommand("start", NoLease, 0, FALSE))
  /\ UNCHANGED <<leases, got, results, controlOnly>>

SynchronizeRoster(l) ==
  LET sent == {queue[c].rev : c \in {d \in DOMAIN queue : queue[d].type = "sync-roster" /\ queue[d].lease = l}}
  IN /\ InPlay(l) /\ Len(queue) < MaxCommands /\ Cardinality(sent) < MaxRevision
     /\ queue' = Append(queue, NewCommand("sync-roster", l, Cardinality(sent) + 1, FALSE))
     /\ UNCHANGED <<leases, db, got, results, controlOnly>>

\* cancelReservedMatch, of a match that is pending.
CancelMatch(l) ==
  /\ InPlay(l) /\ ~Accepted(l, "live")
  /\ Release(l, FALSE)
  /\ UNCHANGED <<got, results, controlOnly>>

\* A match that was cancelled or disputed is never settled: its result stays
\* pending.
Cancelled(l) ==
  \/ Accepted(l, "aborted") \/ results[l] = "disputed"
  \/ \E c \in DOMAIN queue : queue[c].type = "drain" /\ queue[c].lease = l /\ ~queue[c].terminal

\* settlePendingResult, for a result that was not settled when it came: the
\* match is completed first, its lease is released later.
SettleLater(l) ==
  /\ \/ /\ results[l] = "pending" /\ ~Cancelled(l)
        /\ results' = [results EXCEPT ![l] = "completed"]
        /\ UNCHANGED <<leases, db, queue>>
     \/ /\ results[l] = "completed"
        /\ results' = [results EXCEPT ![l] = "settled"]
        /\ Release(l, TRUE)
  /\ UNCHANGED <<got, controlOnly>>

CloseLease(l) ==
  /\ l \in DOMAIN leases /\ leases[l] = "released" /\ Fault
  /\ leases' = [leases EXCEPT ![l] = "closed"]
  /\ UNCHANGED <<db, queue, got, results, server, log, pump, agent, work, evidence>>

ExpireLease(l) ==
  /\ Active(l) /\ Fault
  /\ leases' = [leases EXCEPT ![l] = "closed"]
  /\ db' = "quarantined"
  /\ queue' = Append(queue, NewCommand("quarantine", l, 0, FALSE))
  /\ UNCHANGED <<got, results, server, log, pump, agent, work, evidence>>

\* By the runbook, with the command queue and the lease reconciled.
OperatorReturns ==
  /\ db = "quarantined" /\ (\A l \in Leases : ~Active(l)) /\ Len(queue) < MaxCommands
  /\ \A c \in DOMAIN queue : queue[c].status \in {"completed", "failed"}
  /\ queue' = Append(queue, NewCommand("unquarantine", NoLease, 0, FALSE))
  /\ UNCHANGED <<leases, db, got, results, controlOnly>>

\* Mutant: a claim never lapses.
CommandDueMutant(c) ==
  /\ queue[c].status = "pending" /\ queue[c].resting
  /\ queue' = [queue EXCEPT ![c].resting = FALSE]
  /\ UNCHANGED <<leases, db, got, results, controlOnly>>

\* next_attempt_at has come, or thirty seconds have passed since the claim of
\* a command that the agent does not have in hand.
CommandDue(c) ==
  /\ \/ queue[c].status = "pending" /\ queue[c].resting
     \/ queue[c].status = "claimed" /\ c \notin work.hand
  /\ queue' = [queue EXCEPT ![c].status = "pending", ![c].resting = FALSE]
  /\ UNCHANGED <<leases, db, got, results, controlOnly>>

-----------------------------------------------------------------------------
(* The game server (external) and its plugin.                              *)

pluginKeeps == <<controlVars, pump, work, evidence>>

ServerUp ==
  /\ agent.child /\ ~server.running
  /\ server' = [server EXCEPT !.running = TRUE, !.match = NoMatch]
  /\ UNCHANGED <<pluginKeeps, log, agent, faults>>

\* Losing the process it owns, the agent forgets what it restored.
Orphaned == [agent EXCEPT !.child = FALSE, !.state = "offline", !.checked = FALSE]

ServerDies ==
  /\ server.running /\ Fault
  /\ server' = [server EXCEPT !.running = FALSE, !.match = NoMatch]
  /\ agent' = IF agent.child THEN Orphaned ELSE agent
  /\ UNCHANGED <<pluginKeeps, log>>

\* What the plugin writes by itself as a match goes on.
Follows == [idle |-> {"warmup"}, warmup |-> {"live", "aborted"},
            live |-> {"ended", "aborted"}, ended |-> {}, aborted |-> {}]

PluginWrites ==
  /\ server.match # NoMatch /\ Len(log) < MaxLines
  /\ \E kind \in Follows[server.match.phase] :
       /\ server' = [server EXCEPT !.match.phase = kind]
       /\ log' = Append(log, [lease |-> server.match.lease, kind |-> kind])
  /\ UNCHANGED <<pluginKeeps, agent, faults>>

\* What sm_aftertick_abort does.
Abortable == server.match.phase \in {"warmup", "live"}
AbortLog == IF Abortable THEN Append(log, [lease |-> server.match.lease, kind |-> "aborted"]) ELSE log
AbortServer == IF Abortable THEN [server EXCEPT !.match.phase = "aborted"] ELSE server

-----------------------------------------------------------------------------
(* The event pump (event-pump.ts).                                         *)

pumpKeeps == <<server, log, agent, work, evidence>>
Authorized == pump.lease \in DOMAIN leases /\ leases[pump.lease] \in {"active", "released"}

\* The lines of this match from one cursor to another, and the events of the
\* next n lines under their sequence numbers.
Mine(from, to) == {k \in (from + 1)..to : log[k].lease = pump.lease}
Event(k) == [seq |-> pump.seq + Cardinality(Mine(pump.cursor, k - 1)), line |-> k]
Batch(n) == {Event(k) : k \in Mine(pump.cursor, pump.cursor + n)}

\* Mutant: the sequence numbers are not kept with the cursor.
AfterUploadMutant(n) ==
  [pump EXCEPT !.cursor = @ + n,
     !.result = @ \/ \E e \in Batch(n) : log[e.line].kind = "ended"]

AfterUpload(n) ==
  [pump EXCEPT !.cursor = @ + n, !.seq = @ + Cardinality(Batch(n)),
     !.result = @ \/ \E e \in Batch(n) : log[e.line].kind = "ended"]

\* ingestEvents, its transaction: an event that contradicts an accepted one, the
\* line or the number being another's, is kept out and the match is disputed.  One
\* that is completed is settled all the same.
Agrees(e) == \A f \in got[pump.lease] : (e.seq = f.seq) = (e.line = f.line)
Ingest(batch) ==
  LET l == pump.lease  accepted == {e \in batch : Agrees(e)} IN
  /\ got' = IF batch = {} THEN got ELSE [got EXCEPT ![l] = @ \cup accepted]
  /\ results' = IF accepted = batch \/ results[l] \in {"completed", "settled"} THEN results
                ELSE [results EXCEPT ![l] = "disputed"]

\* flush, up to the persisted cursor: some lines are read, those of this match
\* are uploaded, and after the transaction an abort gives the server back.  When
\* the reply is lost or the agent cannot save the file, only the API knows of
\* them; the call may have ended, or not yet gone on, before the release.
Upload(n, lost) ==
  LET aborts == \E e \in Batch(n) : log[e.line].kind = "aborted" IN
  /\ pump.lease # NoLease /\ ~pump.result /\ n \in 1..(Len(log) - pump.cursor)
  /\ Batch(n) # {} => Authorized
  /\ Ingest(Batch(n))
  /\ \/ aborts /\ Release(pump.lease, TRUE)
     \/ (aborts => lost) /\ UNCHANGED <<leases, db, queue>>
  /\ IF lost THEN Fault /\ UNCHANGED pump ELSE pump' = AfterUpload(n) /\ UNCHANGED faults
  /\ UNCHANGED pumpKeeps

\* Mutant: the result is given up once the API has answered.
AfterSubmitMutant(l) == [pump EXCEPT !.result = FALSE, !.receipt = results'[l] = "settled"]
AfterSubmit(l) ==
  IF results'[l] = "settled" THEN [pump EXCEPT !.result = FALSE, !.receipt = TRUE] ELSE pump

\* submitResult: the API settles the result at once, or says that it is pending.
SubmitResult(settles, lost) ==
  LET l == pump.lease IN
  /\ l # NoLease /\ pump.result /\ Authorized
  /\ settles => ~Cancelled(l) \/ results[l] = "completed"
  /\ results' = [results EXCEPT ![l] = IF settles THEN "settled" ELSE IF @ = "none" THEN "pending" ELSE @]
  /\ IF results'[l] = "settled" THEN Release(l, TRUE) ELSE UNCHANGED <<leases, db, queue>>
  /\ IF lost THEN Fault /\ UNCHANGED pump ELSE pump' = AfterSubmit(l) /\ UNCHANGED faults
  /\ UNCHANGED <<got, pumpKeeps>>

\* A flush that has nothing left to do, one that an error ends, and one that the
\* API refuses.
Flushed == pump.lease = NoLease \/ (~pump.result /\ pump.cursor = Len(log))
FlushRefused == pump.lease # NoLease /\ ~Flushed /\ ~Authorized

-----------------------------------------------------------------------------
(* The heartbeat (agent.ts).                                               *)

\* refreshState
Refreshed(a) ==
  IF a.quarantined \/ a.state = "draining" THEN a
  ELSE [a EXCEPT !.state = IF server.running THEN "ready" ELSE IF a.child THEN "starting" ELSE "offline"]

\* startServer: a server that answers is taken over, a missing one is started.
Started(a) ==
  IF server.running THEN [a EXCEPT !.state = "ready"]
  ELSE [a EXCEPT !.state = "starting", !.child = TRUE]

\* presentPendingProgression
ShowReceipt ==
  IF pump.receipt
  THEN pump' = [pump EXCEPT !.receipt = FALSE] /\ evidence' = [evidence EXCEPT !.shown = @ \cup {pump.lease}]
  ELSE UNCHANGED <<pump, evidence>>
CanShow == pump.receipt => server.running

\* The run loop starts the server that is wanted, the heartbeat refreshes its
\* state, looks for a pending result and shows the receipt that is due.
BeginHeartbeat ==
  /\ work.pc = "idle"
  /\ LET a == IF agent.desired /\ agent.state = "offline" /\ ~agent.child THEN Started(agent) ELSE agent
     IN agent' = Refreshed(a)
  /\ IF pump.result \/ ~CanShow
     THEN work' = [Idle EXCEPT !.pc = "send", !.defer = TRUE] /\ UNCHANGED <<pump, evidence>>
     ELSE work' = [Idle EXCEPT !.pc = "send"] /\ ShowReceipt
  /\ UNCHANGED <<controlVars, server, log, faults>>

Kept == {"leased", "draining", "quarantined"}

\* Mutant: only the match that this process prepared or restored is recognized.
AliveMutant == InPlay(pump.lease) /\ agent.fence = pump.lease

\* Whether the reply names the lease on file: it must be active, and its match
\* pending or live.
Alive == InPlay(pump.lease)

\* A claim counts as an attempt, whatever becomes of it.  The count is only
\* compared with the limit.
Claimed(c) ==
  [c EXCEPT !.status = "claimed", !.tries = IF @ < MaxAttempts THEN @ + 1 ELSE @]

\* The heartbeat request: the control plane takes the report and hands out what
\* is due.  Without its reply the claims last for thirty seconds.
SendHeartbeat(lost) ==
  LET due == {c \in DOMAIN queue : queue[c].status = "pending" /\ ~queue[c].resting
                /\ (work.defer => queue[c].type # "drain")}
      report == IF agent.quarantined THEN "offline" ELSE agent.state
  IN
  /\ work.pc = "send"
  /\ db' = IF db \in Kept THEN db ELSE report
  /\ queue' = [c \in DOMAIN queue |-> IF c \in due THEN Claimed(queue[c]) ELSE queue[c]]
  /\ work' = IF lost THEN Idle
             ELSE [work EXCEPT !.pc = "reconcile", !.hand = due, !.alive = Alive,
                     !.early = Active(pump.lease) /\ results[pump.lease] = "completed"]
  /\ IF lost THEN Fault ELSE UNCHANGED faults
  /\ UNCHANGED <<leases, got, results, server, log, pump, agent, evidence>>

\* restorePersistedMatch, of a match whose lease is active.
Restorable == pump.lease # NoLease /\ agent.state = "ready" /\ ~agent.checked
Restored ==
  IF Restorable /\ server.running
  THEN [agent EXCEPT !.fence = pump.lease, !.checked = TRUE] ELSE agent
RestoredServer ==
  IF Restorable /\ server.running /\ server.match.lease # pump.lease
  THEN [server EXCEPT !.match = [lease |-> pump.lease, phase |-> "idle"]] ELSE server

MatchingDrain == \E c \in work.hand : queue[c].type = "drain" /\ queue[c].lease = pump.lease

ReconcileWaits == work.defer \/ MatchingDrain

Stopped == [server EXCEPT !.running = FALSE, !.match = NoMatch]

\* The heartbeat goes on with the next command in hand, or is over.
NextCommand(w) ==
  IF w.hand = {} THEN Idle ELSE [w EXCEPT !.pc = "commands", !.alive = FALSE, !.early = FALSE, !.wait = 0]

\* reconcilePersistedAuthority
Reconcile ==
  /\ work.pc = "reconcile"
  /\ work' = NextCommand(work)
  /\ CASE pump.lease = NoLease -> UNCHANGED <<agent, server, pump>>
       [] pump.lease # NoLease /\ work.alive ->
            /\ agent' = [Restored EXCEPT !.desired = TRUE]
            /\ server' = RestoredServer
            /\ UNCHANGED pump
       [] pump.lease # NoLease /\ ~work.alive /\ ReconcileWaits -> UNCHANGED <<agent, server, pump>>
       [] OTHER ->
            /\ server' = IF agent.state = "ready" THEN Stopped ELSE server
            /\ agent' = [agent EXCEPT !.desired = FALSE, !.checked = TRUE, !.state = "offline",
                           !.child = IF agent.state = "ready" THEN FALSE ELSE @]
            /\ pump' = NoPump
  /\ UNCHANGED <<controlVars, log, evidence, faults>>

AgentRestarts ==
  /\ Fault
  /\ agent' = FreshAgent
  /\ work' = Idle
  /\ UNCHANGED <<controlVars, server, log, pump, evidence>>

-----------------------------------------------------------------------------
(* The commands (agent.ts, execute).                                       *)

c0 == CHOOSE c \in work.hand : \A d \in work.hand : c <= d
cmd == queue[c0]
At(pc, type) == work.pc = pc /\ work.hand # {} /\ cmd.type = type
Skipped == NextCommand([work EXCEPT !.hand = @ \ {c0}])

\* executeAndAcknowledge: what the control plane makes of the outcome, and of a
\* reply or a request that is lost.  A failed acknowledgement ends the heartbeat.
Answer(ok) ==
  IF ok THEN [cmd EXCEPT !.status = "completed"]
  ELSE IF cmd.tries >= MaxAttempts THEN [cmd EXCEPT !.status = "failed"]
  ELSE [cmd EXCEPT !.status = "pending", !.resting = TRUE]

StateAfter(ok, state) ==
  CASE cmd.type = "prepare" -> db
    [] cmd.type # "prepare" /\ ~ok -> IF cmd.tries >= MaxAttempts THEN "quarantined" ELSE db
    [] cmd.type = "drain" /\ ok /\ db = "draining" -> state
    [] cmd.type = "quarantine" /\ ok -> "quarantined"
    [] cmd.type = "unquarantine" /\ ok /\ db = "quarantined" -> "ready"
    [] OTHER -> db

Acknowledge(ok, state) ==
  /\ \/ /\ queue' = [queue EXCEPT ![c0] = Answer(ok)] /\ db' = StateAfter(ok, state)
        /\ \/ work' = Skipped /\ UNCHANGED faults
           \/ work' = Idle /\ Fault
     \/ UNCHANGED <<queue, db>> /\ work' = Idle /\ Fault
  /\ UNCHANGED <<leases, got, results>>

\* start: a server that is taken over gets the match on file back, if there is one.
Start ==
  /\ At("commands", "start")
  /\ LET a == [Started(agent) EXCEPT !.desired = TRUE]
         looks == server.running /\ ~a.checked
         restores == looks /\ pump.lease # NoLease
     IN /\ agent' = IF restores THEN [a EXCEPT !.fence = pump.lease, !.checked = TRUE]
                    ELSE [a EXCEPT !.checked = @ \/ looks]
        /\ server' = IF restores /\ server.match.lease # pump.lease
                     THEN [server EXCEPT !.match = [lease |-> pump.lease, phase |-> "idle"]] ELSE server
  /\ Acknowledge(TRUE, "ready")
  /\ UNCHANGED <<log, pump, evidence>>

\* restorePersistedMatch, of a manifest that has expired before the sweep took
\* its lease, or that is invalid, in a heartbeat or a start: the file is cleared
\* once the server has taken empty settings, and is not looked at again.
DiscardManifest ==
  /\ pump.lease # NoLease /\ ~agent.checked
  /\ \/ /\ work.pc = "reconcile" /\ work.alive /\ agent.state = "ready"
        /\ agent' = [agent EXCEPT !.desired = TRUE, !.checked = TRUE]
        /\ work' = NextCommand(work) /\ UNCHANGED <<controlVars, faults>>
     \/ /\ At("commands", "start") /\ server.running
        /\ agent' = [Started(agent) EXCEPT !.desired = TRUE, !.checked = TRUE]
        /\ Acknowledge(TRUE, "ready")
  /\ IF server.running
     THEN /\ server' = [server EXCEPT !.match = NoMatch]
          /\ pump' = NoPump
          /\ evidence' = [evidence EXCEPT !.dropped = @ \cup {pump.lease}]
     ELSE UNCHANGED <<server, pump, evidence>>
  /\ UNCHANGED log

\* prepare: the fence, the policy and the manifest; the configuration; the
\* warmup and the recording.
PrepareRefused ==
  /\ At("commands", "prepare") /\ cmd.lease <= agent.fence
  /\ Acknowledge(FALSE, "ready")
  /\ UNCHANGED <<server, log, pump, agent, evidence>>

PrepareManifest ==
  /\ At("commands", "prepare") /\ cmd.lease > agent.fence
  /\ server' = [server EXCEPT !.policy = [lease |-> cmd.lease, rev |-> 0]]
  /\ pump' = Begin(cmd.lease)
  /\ evidence' = [evidence EXCEPT
       !.anew = IF got[cmd.lease] = {} /\ pump.lease # cmd.lease THEN @ ELSE @ \cup {cmd.lease},
       !.dropped = IF cmd.lease < pump.lease THEN @ \cup {pump.lease} ELSE @]
  /\ work' = [work EXCEPT !.pc = "configure"]
  /\ UNCHANGED <<controlVars, log, agent, faults>>

\* The plugin takes the new match's settings, and goes to warmup unless it plays.
PrepareServer ==
  /\ At("configure", "prepare")
  /\ IF server.running
     THEN /\ server' = [server EXCEPT !.match = [lease |-> cmd.lease, phase |-> IF Abortable THEN @.phase ELSE "idle"]]
          /\ work' = [work EXCEPT !.pc = "await", !.wait = Len(log)]
          /\ UNCHANGED <<controlVars, faults>>
     ELSE Acknowledge(FALSE, "ready") /\ UNCHANGED server
  /\ UNCHANGED <<log, pump, agent, evidence>>

\* waitForPluginEvent: the pump has carried the event that was waited for.
Observed(kind) ==
  \E k \in (work.wait + 1)..pump.cursor : log[k] = [lease |-> pump.lease, kind |-> kind]

Prepared ==
  /\ At("await", "prepare") /\ Observed("warmup")
  /\ agent' = [agent EXCEPT !.fence = cmd.lease, !.checked = TRUE, !.state = "ready"]
  /\ Acknowledge(TRUE, "ready")
  /\ UNCHANGED <<server, log, pump, evidence>>

\* A wait ends without its event when the event cannot come or by a fault, and
\* so does any step that talks to a server that is gone.
Coming(kind) ==
  \/ kind = "warmup" /\ server.match.phase = "idle" /\ Len(log) < MaxLines
  \/ \E k \in (work.wait + 1)..Len(log) : log[k] = [lease |-> cmd.lease, kind |-> kind]
Gone(kind) ==
  ~server.running \/ FlushRefused \/ {server.match.lease, pump.lease} # {cmd.lease} \/ ~Coming(kind)
WaitFails(type, kind) ==
  /\ At("await", type) /\ Gone(kind)
  /\ Acknowledge(FALSE, "ready")
  /\ UNCHANGED <<server, log, pump, agent, evidence>>
CommandFails ==
  /\ work.pc = "await" /\ work.hand # {} /\ Fault
  /\ queue' = [queue EXCEPT ![c0] = Answer(FALSE)] /\ db' = StateAfter(FALSE, "ready")
  /\ work' = Skipped
  /\ UNCHANGED <<leases, got, results, server, log, pump, agent, evidence>>

\* Mutant: a revision is not compared with the one in place.
SupersededMutant == FALSE

\* syncRoster: an older revision than the manifest's, or than the one written
\* before an earlier attempt failed, is superseded.
Written == IF server.policy.lease = pump.lease THEN server.policy.rev ELSE 0
Highest == IF Written > pump.rev THEN Written ELSE pump.rev

Superseded == cmd.rev < Highest

SyncIdle ==
  /\ At("commands", "sync-roster")
  /\ pump.lease # cmd.lease \/ Superseded \/ cmd.rev = pump.rev
  /\ server' = IF pump.lease = cmd.lease /\ cmd.rev = pump.rev /\ ~Superseded
               THEN [server EXCEPT !.policy = [lease |-> cmd.lease, rev |-> cmd.rev]] ELSE server
  /\ Acknowledge(pump.lease = cmd.lease, "ready")
  /\ UNCHANGED <<log, pump, agent, evidence>>

SyncServer ==
  /\ At("commands", "sync-roster")
  /\ pump.lease = cmd.lease /\ ~Superseded /\ cmd.rev # pump.rev
  /\ server' = [server EXCEPT !.policy = [lease |-> cmd.lease, rev |-> cmd.rev]]
  /\ IF server.running /\ Len(log) < MaxLines
     THEN /\ log' = Append(log, [lease |-> server.match.lease, kind |-> "synced"])
          /\ work' = [work EXCEPT !.pc = "await", !.wait = Len(log)]
          /\ UNCHANGED <<controlVars, faults>>
     ELSE Acknowledge(FALSE, "ready") /\ UNCHANGED log
  /\ UNCHANGED <<pump, agent, evidence>>

\* updateManifest refuses while a result is pending.
Synced ==
  /\ At("await", "sync-roster") /\ Observed("synced")
  /\ pump' = IF pump.result THEN pump ELSE [pump EXCEPT !.rev = cmd.rev]
  /\ Acknowledge(~pump.result, "ready")
  /\ UNCHANGED <<server, log, agent, evidence>>

\* A drain waits for the result and the receipt: it is skipped and its claim
\* lapses.  The flush before it may fail, which ends the heartbeat.
DrainDeferred ==
  /\ At("commands", "drain")
  /\ work.defer \/ pump.result \/ ~CanShow
  /\ work' = Skipped
  /\ UNCHANGED <<controlVars, server, log, pump, agent, evidence, faults>>

DrainAbandoned ==
  /\ At("commands", "drain") /\ FlushRefused
  /\ work' = Idle
  /\ UNCHANGED <<controlVars, server, log, pump, agent, evidence, faults>>

\* Mutant: the receipt is not looked at again.
DrainRecheckedMutant ==
  /\ At("commands", "drain") /\ ~work.defer
  /\ work' = [work EXCEPT !.pc = "drain"]
  /\ UNCHANGED <<controlVars, server, log, pump, agent, evidence, faults>>

DrainRechecked ==
  /\ At("commands", "drain") /\ ~work.defer /\ Flushed /\ CanShow
  /\ ShowReceipt
  /\ work' = [work EXCEPT !.pc = "drain"]
  /\ UNCHANGED <<controlVars, server, log, agent, faults>>

Demo == [evidence EXCEPT !.demo = @ \cup {pump.lease}]

DrainStopped ==
  /\ At("drain", "drain") /\ agent.state = "offline" /\ ~agent.child
  /\ pump' = NoPump
  /\ agent' = [agent EXCEPT !.checked = TRUE]
  /\ Acknowledge(TRUE, "offline")
  /\ UNCHANGED <<server, log, evidence>>

\* A match that has ended: the demo is offered, whatever comes of it, and the
\* server is stopped.
DrainTerminal ==
  /\ At("drain", "drain") /\ cmd.terminal /\ (agent.state # "offline" \/ agent.child)
  /\ Flushed \/ FlushRefused
  /\ IF server.running /\ Flushed
     THEN /\ evidence' = Demo
          /\ server' = Stopped
          /\ agent' = [Orphaned EXCEPT !.desired = FALSE, !.checked = TRUE]
          /\ pump' = NoPump
          /\ Acknowledge(TRUE, "offline")
     ELSE /\ agent' = [agent EXCEPT !.state = "draining"]
          /\ Acknowledge(FALSE, "ready")
          /\ UNCHANGED <<evidence, server, pump>>
  /\ UNCHANGED log

\* A match that is given up: its abort must be on record before it is cleared.
DrainAborts ==
  /\ At("drain", "drain") /\ ~cmd.terminal /\ (agent.state # "offline" \/ agent.child)
  /\ agent' = [agent EXCEPT !.state = "draining"]
  /\ IF server.running
     THEN /\ log' = AbortLog /\ server' = AbortServer
          /\ work' = [work EXCEPT !.pc = "await", !.wait = Len(log)]
          /\ UNCHANGED <<controlVars, faults>>
     ELSE Acknowledge(FALSE, "ready") /\ UNCHANGED <<log, server>>
  /\ UNCHANGED <<pump, evidence>>

DrainAborted ==
  /\ At("await", "drain") /\ Observed("aborted") /\ server.running
  /\ evidence' = Demo
  /\ server' = [server EXCEPT !.match = NoMatch]
  /\ agent' = [agent EXCEPT !.checked = TRUE, !.state = "ready"]
  /\ pump' = NoPump
  /\ Acknowledge(TRUE, "ready")
  /\ UNCHANGED log

\* A server that does not answer fails the command unless it is known to be off.
Quarantine ==
  /\ At("commands", "quarantine")
  /\ agent' = [agent EXCEPT !.quarantined = TRUE]
  /\ log' = AbortLog /\ server' = AbortServer
  /\ Acknowledge(server.running \/ agent.state = "offline", "ready")
  /\ UNCHANGED <<pump, evidence>>

Unquarantine ==
  /\ At("commands", "unquarantine")
  /\ LET ok == server.running \/ agent.state = "offline"
         a == [agent EXCEPT !.quarantined = FALSE]
     IN agent' = (IF ok THEN Refreshed(a) ELSE a) /\ Acknowledge(ok, "ready")
  /\ UNCHANGED <<server, log, pump, evidence>>

Flush ==
  \E lost \in BOOLEAN :
    \/ \E n \in 1..(Len(log) - pump.cursor) : Upload(n, lost)
    \/ \E settles \in BOOLEAN : SubmitResult(settles, lost)

Control ==
  \/ GrantLease \/ WakeServer \/ OperatorReturns
  \/ \E l \in Leases : SynchronizeRoster(l) \/ CancelMatch(l) \/ SettleLater(l) \/ CloseLease(l) \/ ExpireLease(l)
  \/ \E c \in DOMAIN queue : CommandDue(c)

HeartbeatStep ==
  \/ BeginHeartbeat \/ (\E lost \in BOOLEAN : SendHeartbeat(lost)) \/ Reconcile
  \/ Start \/ PrepareRefused \/ PrepareManifest \/ PrepareServer \/ Prepared
  \/ SyncIdle \/ SyncServer \/ Synced
  \/ DrainDeferred \/ DrainAbandoned \/ DrainRechecked \/ DrainStopped \/ DrainTerminal \/ DrainAborts \/ DrainAborted
  \/ Quarantine \/ Unquarantine
  \/ WaitFails("prepare", "warmup") \/ WaitFails("sync-roster", "synced") \/ WaitFails("drain", "aborted")

Next ==
  \/ Control \/ Flush \/ HeartbeatStep \/ CommandFails \/ DiscardManifest
  \/ ServerUp \/ ServerDies \/ PluginWrites \/ AgentRestarts

Spec == Init /\ [][Next]_vars

\* The timers of the agent, of the control plane and of the plugin run on: the
\* run loop every heartbeatMs, the pump every eventFlushMs, the retry times and
\* the claims' thirty seconds.  Nothing is assumed of matches and operators.
Fairness ==
  /\ WF_vars(HeartbeatStep) /\ WF_vars(Flush) /\ WF_vars(ServerUp)
  /\ WF_vars(server.match.phase = "idle" /\ PluginWrites)
  /\ \A c \in 1..(MaxCommands + MaxLeases) : WF_vars(c \in DOMAIN queue /\ CommandDue(c))
  /\ \A l \in Leases : WF_vars(SettleLater(l))
FairSpec == Spec /\ Fairness

-----------------------------------------------------------------------------
(* Properties.                                                             *)

LeaseRef == {NoLease} \cup Leases
LogLine == [lease : LeaseRef, kind : {"warmup", "live", "ended", "aborted", "synced"}]
ServerState ==
  [running : BOOLEAN, match : [lease : LeaseRef, phase : DOMAIN Follows],
   policy : [lease : LeaseRef, rev : 0..MaxRevision]]
PumpFile ==
  [lease : LeaseRef, rev : 0..MaxRevision, cursor : Nat, seq : Nat \ {0}, result : BOOLEAN,
   receipt : BOOLEAN]
Memory ==
  [state : {"starting", "ready", "draining", "offline"}, desired : BOOLEAN, child : BOOLEAN,
   fence : 0..MaxLeases, checked : BOOLEAN, quarantined : BOOLEAN]
Heartbeat ==
  [pc : {"idle", "send", "reconcile", "commands", "configure", "await", "drain"},
   hand : SUBSET (Nat \ {0}), defer : BOOLEAN, alive : BOOLEAN, early : BOOLEAN, wait : Nat]

\* The tables, the file and the memory have their types; positions in the log and
\* in the queue exist.
TypeOK ==
  /\ leases \in Seq(LeaseStatus) /\ Len(leases) <= MaxLeases
  /\ db \in {"offline", "starting", "ready", "leased", "draining", "quarantined"}
  /\ queue \in Seq(Command)
  /\ log \in Seq(LogLine)
  /\ got \in [Leases -> SUBSET [seq : Nat \ {0}, line : Nat \ {0}]]
  /\ \A l \in Leases : \A e \in got[l] : e.seq <= e.line /\ e.line <= Len(log)
  /\ results \in [Leases -> {"none", "pending", "completed", "settled", "disputed"}]
  /\ server \in ServerState
  /\ pump \in PumpFile /\ pump.cursor <= Len(log) /\ pump.seq <= pump.cursor + 1
  /\ agent \in Memory
  /\ work \in Heartbeat /\ work.hand \subseteq DOMAIN queue
  /\ evidence \in [demo : SUBSET LeaseRef, shown : SUBSET LeaseRef, anew : SUBSET Leases,
                   dropped : SUBSET Leases]
  /\ faults \in 0..MaxFaults

InOrder(l) ==
  /\ \A e, f \in got[l] : (e.seq < f.seq) = (e.line < f.line)
  /\ {e.seq : e \in got[l]} = 1..Cardinality(got[l])
  /\ \A e, f \in got[l] : \A k \in e.line..f.line :
       log[k].lease = l => \E g \in got[l] : g.line = k

\* Events are accepted in the order the plugin wrote them, none twice, none
\* skipped and none under the number of another, whatever is lost, and the match
\* is never disputed for them: a repeated batch must carry the numbers of the
\* first (event-pump.ts:322).  Only a match whose preparation was repeated is
\* left out.
EventsInOrder == \A l \in Leases \ evidence.anew : InOrder(l) /\ results[l] # "disputed"

\* A preparation that was repeated begins the file anew, the preparation of an
\* earlier lease replaces it, for the fence is raised only once a match has been
\* prepared (agent.ts:623) and a restart forgets it, and an expired manifest is
\* discarded.
Displaced(l) == l \in evidence.anew \cup evidence.dropped

\* A result on file is given up only when the API has settled it, or when its
\* lease or its match is over (line 449), unless the file was displaced.
ResultKept ==
  [][\A l \in Leases : pump.lease = l /\ pump.result /\ ~(pump'.lease = l /\ pump'.result)
       => ~InPlay(l)' \/ Displaced(l)']_vars

\* A receipt leaves the file only by being shown to the players, unless the file
\* was displaced or the lease was closed meanwhile: a drain that was claimed
\* before the receipt came must not clear it (agent.ts:434).  Left out is a
\* receipt that comes after a reply that found the match completed and its lease
\* not yet released: no drain announces it, and the agent clears the file.
ReceiptShown ==
  [][\A l \in Leases : pump.lease = l /\ pump.receipt /\ ~(pump'.lease = l /\ pump'.receipt)
       => \/ l \in evidence'.shown \/ Displaced(l)' \/ leases[l] = "closed"
          \/ work.pc = "reconcile" /\ work.early]_vars

\* As long as its lease is active and it is pending or live, a match stays on
\* file and its cursor and revision only move on: neither a drain of an earlier
\* match nor a restart drops it (agent.ts:914).  Only the preparation of an
\* earlier lease can take its place, and an expired manifest is discarded.
ActiveMatchKept ==
  [][\A l \in Leases : pump.lease = l /\ InPlay(l) /\ InPlay(l)'
       => \/ /\ pump'.lease = l /\ pump'.cursor >= pump.cursor
             /\ pump'.rev >= pump.rev \/ l \in evidence'.anew
          \/ pump'.lease \in 1..(l - 1)
          \/ pump'.lease = NoLease /\ l \in evidence'.dropped]_vars

\* While its match is in play, a roster that was reported synchronized is the one
\* on file, or it or a later one is written (agent.ts:678), unless the file was
\* displaced.
SyncedIsWritten ==
  \A c \in DOMAIN queue :
    queue[c].type = "sync-roster" /\ queue[c].status = "completed" /\ InPlay(queue[c].lease)
      => \/ Displaced(queue[c].lease)
         \/ pump.lease = queue[c].lease /\ Highest >= queue[c].rev

\* What nobody will ever take: an event or a result whose window has passed, or
\* the result of a match that was cancelled.
Stranded == FlushRefused \/ (pump.lease # NoLease /\ pump.result /\ Cancelled(pump.lease))

Draining == \E c \in DOMAIN queue : queue[c].type = "drain" /\ queue[c].status \in {"pending", "claimed"}

\* A drain that waits for a result, a receipt or an abort comes to its end, done
\* or failed, unless what the agent has to report is stranded (agent.ts:507).
DrainsEnd == Draining ~> (~Draining \/ Stranded)

\* Stated by agent.ts:896-900, and not what the code does: the manifest of a
\* settled match is kept until its drain could upload the demo.
EvidenceKept ==
  [][\A l \in Leases : pump.lease = l /\ pump'.lease # l /\ leases[l] = "released" /\ results[l] = "settled"
       => l \in evidence'.demo]_vars

=============================================================================
