----------------------------- MODULE NodeControl -----------------------------
(***************************************************************************)
(* The control plane of the game nodes (node-control-service.ts): server   *)
(* instances, fenced leases on them, and the command queue from which each *)
(* node agent claims its work.  A transaction is one step.                 *)
(*                                                                         *)
(* A node has one instance (the agent reports one), so nodes are named by  *)
(* their instance.  The agent is external here: it reports any state,      *)
(* executes what it claimed with any outcome, and may stop at any time     *)
(* with an acknowledgement under way (NodeAgent models what it does).      *)
(*                                                                         *)
(* A lease is named by its fencing token.  A claim token is fresh for each *)
(* claim, so it is named by the number of claims of its command.           *)
(***************************************************************************)
EXTENDS Integers, Sequences, FiniteSets

CONSTANTS
  Instance,     \* server instances, one per node
  Match,        \* matches that need a server
  MaxAttempts,  \* node_commands.max_attempts
  MaxLeases,    \* bound on the leases ever granted
  MaxCommands,  \* bound on the commands ever enqueued
  MaxClaims,    \* bound on the claims of one command
  Attended,     \* instances whose agent calls in (a bound: the others are
                \* leased, and lost, as their last report left them)
  MaxWork,      \* bound on the claims of all commands together
  MaxInFlight,  \* bound on the acknowledgements under way at once
  MaxOperator   \* bound on the commands an operator enqueues

ASSUME ControlAssumption ==
  /\ MaxAttempts \in Nat \ {0}
  /\ MaxLeases \in Nat /\ MaxCommands \in Nat
  /\ Attended \subseteq Instance
  /\ MaxClaims \in Nat /\ MaxWork \in Nat
  /\ MaxInFlight \in Nat /\ MaxOperator \in Nat

VARIABLES
  open,      \* matches that are pending or live
  inst,      \* server_instances: state and active_lease_id
  lease,     \* server_leases, in the order of their fencing tokens
  command,   \* node_commands, in the order of their creation
  inbox,     \* per agent: the commands of its last heartbeat not yet executed
  acks,      \* acknowledgements on their way to the API
  operator   \* commands an operator enqueued so far

controlVars == <<open, inst, lease, command>>
agentVars   == <<inbox, acks>>
vars == <<controlVars, agentVars, operator>>

-----------------------------------------------------------------------------

InstanceState == {"starting", "ready", "leased", "draining", "quarantined", "offline"}

\* What an agent may report of its instance.
Reported == {"starting", "ready", "draining", "offline"}

CommandType ==
  {"start", "prepare", "sync-roster", "sync-inventory", "drain", "quarantine", "unquarantine"}

\* Zero stands for no lease.
NoLease == 0
LeaseRef == 0..MaxLeases

Lease == [match : Match, inst : Instance, status : {"active", "released", "expired"}]

Command ==
  [type : CommandType, inst : Instance, lease : LeaseRef,
   status : {"pending", "claimed", "completed", "failed"},
   attempts : 0..MaxClaims,
   resting : BOOLEAN]     \* failed, and next_attempt_at has not come yet

Ack == [cmd : 1..MaxCommands, token : 1..MaxClaims, ok : BOOLEAN, state : {"ready", "offline"}]

\* A new row of node_commands.
NewCommand(type, i, l) ==
  [type |-> type, inst |-> i, lease |-> l, status |-> "pending",
   attempts |-> 0, resting |-> FALSE]

\* The payloads of prepare and of sync-inventory have no top-level
\* serverInstanceId, so their outcome never reaches an instance.
NamesInstance(c) == command[c].type \notin {"prepare", "sync-inventory"}

Active(l) == lease[l].status = "active"
ActiveOf(m) == {l \in DOMAIN lease : Active(l) /\ lease[l].match = m}
ActiveOn(i) == {l \in DOMAIN lease : Active(l) /\ lease[l].inst = i}

Unfinished(c) == command[c].status \in {"pending", "claimed"}
UnfinishedOf(i) == {c \in DOMAIN command : command[c].inst = i /\ Unfinished(c)}

Init ==
  /\ open = Match
  /\ inst \in [Instance -> [state : Reported, lease : {NoLease}]]
  /\ lease = <<>>
  /\ command = <<>>
  /\ inbox = [i \in Instance |-> {}]
  /\ acks = {}
  /\ operator = 0

-----------------------------------------------------------------------------
(* Leases.                                                                 *)

\* Mutant: the lease the match already has is not looked at.
LeaseAgainMutant(m, i) ==
  /\ inst[i].state = "ready"
  /\ ActiveOn(i) = {}
  /\ Len(lease) < MaxLeases /\ Len(command) < MaxCommands
  /\ lease' = Append(lease, [match |-> m, inst |-> i, status |-> "active"])
  /\ inst' = [inst EXCEPT ![i] = [state |-> "leased", lease |-> Len(lease')]]
  /\ command' = Append(command, NewCommand("prepare", i, Len(lease')))
  /\ UNCHANGED <<open, agentVars, operator>>

\* Mutant: a leased instance is taken too, and no index refuses it.
LeaseReadyServerMutant(m, i) ==
  /\ ActiveOf(m) = {}
  /\ inst[i].state \in {"ready", "leased"}
  /\ Len(lease) < MaxLeases /\ Len(command) < MaxCommands
  /\ lease' = Append(lease, [match |-> m, inst |-> i, status |-> "active"])
  /\ inst' = [inst EXCEPT ![i] = [state |-> "leased", lease |-> Len(lease')]]
  /\ command' = Append(command, NewCommand("prepare", i, Len(lease')))
  /\ UNCHANGED <<open, agentVars, operator>>

\* leaseReadyServerNow: the active lease of the match is returned as it is
\* (no step); otherwise a ready instance is leased.  An instance that still
\* has an active lease makes the insert fail on the unique index.
LeaseReadyServer(m, i) ==
  /\ ActiveOf(m) = {}
  /\ inst[i].state = "ready"
  /\ ActiveOn(i) = {}
  /\ Len(lease) < MaxLeases /\ Len(command) < MaxCommands
  /\ lease' = Append(lease, [match |-> m, inst |-> i, status |-> "active"])
  /\ inst' = [inst EXCEPT ![i] = [state |-> "leased", lease |-> Len(lease')]]
  /\ command' = Append(command, NewCommand("prepare", i, Len(lease')))
  /\ UNCHANGED <<open, agentVars, operator>>

\* wakeServerInRegion, when it schedules a start: an offline instance without
\* an active lease and without an outstanding start.  The other outcomes (wait
\* for a drain, reuse the outstanding start) change nothing.
WakeServer(i) ==
  /\ inst[i].state = "offline" /\ inst[i].lease = NoLease
  /\ ActiveOn(i) = {}
  /\ \A c \in UnfinishedOf(i) : command[c].type # "start"
  /\ Len(command) < MaxCommands
  /\ inst' = [inst EXCEPT ![i].state = "starting"]
  /\ command' = Append(command, NewCommand("start", i, NoLease))
  /\ UNCHANGED <<open, lease, agentVars, operator>>

\* synchronizeDeathmatchRoster, when the roster has changed.  The revisions of
\* the manifest are NodeAgent's subject.
SynchronizeRoster(l) ==
  /\ Active(l) /\ lease[l].match \in open
  /\ Len(command) < MaxCommands
  /\ command' = Append(command, NewCommand("sync-roster", lease[l].inst, l))
  /\ UNCHANGED <<open, inst, lease, agentVars, operator>>

\* releaseLease.  It does not look at the state of the instance.
ReleaseLease(l) ==
  /\ Active(l)
  /\ Len(command) < MaxCommands
  /\ lease' = [lease EXCEPT ![l].status = "released"]
  /\ inst' = [inst EXCEPT ![lease[l].inst] = [state |-> "draining", lease |-> NoLease]]
  /\ command' = Append(command, NewCommand("drain", lease[l].inst, l))
  /\ UNCHANGED <<open, agentVars, operator>>

\* What quarantineLeaseFailure leaves of the lease, the instance and the match.
\* A pending match is cancelled and a live one disputed, except a live match
\* whose result is pending: it waits for its settlement.
LeaseFails(l, pendingResult) ==
  /\ lease' = [lease EXCEPT ![l].status = "expired"]
  /\ inst' = [inst EXCEPT ![lease[l].inst] = [state |-> "quarantined", lease |-> NoLease]]
  /\ open' = IF pendingResult THEN open ELSE open \ {lease[l].match}

\* quarantineExpiredLeases, for one lease.
ExpireLease(l) ==
  /\ Active(l)
  /\ Len(command) < MaxCommands
  /\ \E pendingResult \in BOOLEAN : LeaseFails(l, pendingResult)
  /\ command' = Append(command, NewCommand("quarantine", lease[l].inst, l))
  /\ UNCHANGED <<agentVars, operator>>

-----------------------------------------------------------------------------
(* The agent's heartbeat and its acknowledgements.                         *)

\* States that a report does not override.
KeptMutant == {"draining"}
Kept == {"leased", "draining", "quarantined"}

\* An agent reports that it has not reached its server three times in a row,
\* for the lease the instance is held by.
Unreachable(i, report, failing) ==
  failing /\ report # "ready" /\ inst[i].lease # NoLease /\ Active(inst[i].lease)

\* The items of its players have changed since the manifest of the lease that
\* a ready instance is held by: synchronizeActiveInventory.
InventoryChanged(i, report, defer, changed) ==
  /\ changed /\ report = "ready" /\ ~defer
  /\ inst[i].lease # NoLease /\ Active(inst[i].lease)
  /\ lease[inst[i].lease].match \in open

\* The queue a heartbeat claims from, with what it has just added to it.
QueueOf(i, report, failing, defer, changed) ==
  IF Unreachable(i, report, failing)
  THEN Append(command, NewCommand("quarantine", i, inst[i].lease))
  ELSE IF InventoryChanged(i, report, defer, changed)
       THEN Append(command, NewCommand("sync-inventory", i, inst[i].lease))
       ELSE command

\* The claims of a queue once those of `taken` are added.
Work(queue, taken) ==
  UNION {{c} \X (1..(queue[c].attempts + IF c \in taken THEN 1 ELSE 0)) : c \in DOMAIN queue}

\* heartbeat: the report, a failed lease, the inventory, the claims that have
\* lapsed after thirty seconds, and the claims of everything that is due.  The
\* agent has finished or abandoned the commands of its last heartbeat.
Heartbeat(i, report, failing, defer, changed, lapsed, due) ==
  LET queue == QueueOf(i, report, failing, defer, changed)
      taken == {c \in DOMAIN queue :
                  /\ queue[c].inst = i
                  /\ queue[c].status = "pending" \/ c \in lapsed
                  /\ queue[c].resting => c \in due
                  /\ defer => queue[c].type # "drain"}
  IN
  /\ inbox[i] = {}
  /\ lapsed \subseteq {c \in DOMAIN command : command[c].inst = i /\ command[c].status = "claimed"}
  /\ due \subseteq {c \in DOMAIN command : command[c].inst = i /\ command[c].resting}
  /\ Len(queue) <= MaxCommands /\ \A c \in taken : queue[c].attempts < MaxClaims
  /\ Cardinality(Work(queue, taken)) <= MaxWork
  /\ IF Unreachable(i, report, failing)
     THEN \E pendingResult \in BOOLEAN : LeaseFails(inst[i].lease, pendingResult)
     ELSE /\ inst' = [inst EXCEPT ![i].state = IF @ \in Kept THEN @ ELSE report]
          /\ UNCHANGED <<open, lease>>
  /\ command' = [c \in DOMAIN queue |->
       IF c \in taken
       THEN [queue[c] EXCEPT !.status = "claimed", !.attempts = @ + 1, !.resting = FALSE]
       ELSE IF c \in lapsed THEN [queue[c] EXCEPT !.status = "pending"] ELSE queue[c]]
  /\ inbox' = [inbox EXCEPT ![i] = {[cmd |-> c, token |-> queue[c].attempts + 1] : c \in taken}]
  /\ UNCHANGED <<acks, operator>>

AnyHeartbeat(i) ==
  \E report \in Reported, defer \in BOOLEAN :
  \E failing \in {FALSE, Unreachable(i, report, TRUE)} :
  \E changed \in {FALSE, InventoryChanged(i, report, defer, TRUE)} :
  \E lapsed \in SUBSET {c \in DOMAIN command : command[c].inst = i /\ command[c].status = "claimed"} :
  \E due \in SUBSET {c \in DOMAIN command : command[c].inst = i /\ command[c].resting} :
    Heartbeat(i, report, failing, defer, changed, lapsed, due)

\* The agent executes a command and sends the outcome; `state` is what a drain
\* reports: offline after a match that ended, ready otherwise.
Execute(i, x) ==
  /\ x \in inbox[i]
  /\ Cardinality(acks) < MaxInFlight
  /\ inbox' = [inbox EXCEPT ![i] = @ \ {x}]
  /\ \E ok \in BOOLEAN, state \in {"ready", "offline"} :
       /\ state = "offline" => ok /\ command[x.cmd].type = "drain"
       /\ acks' = acks \cup {[cmd |-> x.cmd, token |-> x.token, ok |-> ok, state |-> state]}
  /\ UNCHANGED <<controlVars, operator>>

\* The agent stops, loses the reply of its heartbeat, or gives up the rest of
\* its commands because an acknowledgement failed.
AgentStops(i) ==
  /\ inbox[i] # {}
  /\ inbox' = [inbox EXCEPT ![i] = {}]
  /\ UNCHANGED <<controlVars, acks, operator>>

\* The row of a command after the outcome of its last claim.
Answered(c, ok) ==
  IF ok THEN [command[c] EXCEPT !.status = "completed"]
  ELSE IF command[c].attempts >= MaxAttempts THEN [command[c] EXCEPT !.status = "failed"]
  ELSE [command[c] EXCEPT !.status = "pending", !.resting = TRUE]

\* The row of its instance after that outcome.
InstanceAfter(c, ok, state) ==
  LET i == inst[command[c].inst]
      type == command[c].type
  IN IF ~NamesInstance(c) THEN i
     ELSE IF ~ok THEN IF command[c].attempts >= MaxAttempts
                      THEN [state |-> "quarantined", lease |-> NoLease] ELSE i
     ELSE IF type = "drain" /\ i.state = "draining" THEN [i EXCEPT !.state = state]
     ELSE IF type = "quarantine" THEN [i EXCEPT !.state = "quarantined"]
     ELSE IF type = "unquarantine" /\ i.state = "quarantined" THEN [i EXCEPT !.state = "ready"]
     ELSE i

\* Mutant: the claim token of an acknowledgement is not compared.
AckAcceptedMutant(a) ==
  /\ command[a.cmd].status = "claimed"
  /\ command' = [command EXCEPT ![a.cmd] = Answered(a.cmd, a.ok)]
  /\ inst' = [inst EXCEPT ![command[a.cmd].inst] = InstanceAfter(a.cmd, a.ok, a.state)]
  /\ acks' = acks \ {a}
  /\ UNCHANGED <<open, lease, inbox, operator>>

\* acknowledgeCommand, for the claim that is still the current one.
AckAccepted(a) ==
  /\ command[a.cmd].status = "claimed" /\ command[a.cmd].attempts = a.token
  /\ command' = [command EXCEPT ![a.cmd] = Answered(a.cmd, a.ok)]
  /\ inst' = [inst EXCEPT ![command[a.cmd].inst] = InstanceAfter(a.cmd, a.ok, a.state)]
  /\ acks' = acks \ {a}
  /\ UNCHANGED <<open, lease, inbox, operator>>

\* acknowledgeCommand, for a claim that was taken back: the 409 reply.
AckRefused(a) ==
  /\ command[a.cmd].status # "claimed" \/ command[a.cmd].attempts # a.token
  /\ acks' = acks \ {a}
  /\ UNCHANGED <<controlVars, inbox, operator>>

-----------------------------------------------------------------------------
(* Others: matches and operators.                                          *)

MatchEnds(m) ==
  /\ m \in open
  /\ open' = open \ {m}
  /\ UNCHANGED <<inst, lease, command, agentVars, operator>>

\* Mutant: the instance is returned while its queue still holds commands.
OperatorReturnsMutant(i) ==
  /\ operator < MaxOperator /\ Len(command) < MaxCommands
  /\ inst[i].state = "quarantined"
  /\ command' = Append(command, NewCommand("unquarantine", i, NoLease))
  /\ operator' = operator + 1
  /\ UNCHANGED <<open, inst, lease, agentVars>>

\* enqueueCommand by an operator.  An instance may be quarantined at any time;
\* it is put back into service by the runbook: once its command queue and its
\* lease have been reconciled (docs/runbooks/game-node-unavailable.md:4,11).
OperatorQuarantines(i) ==
  /\ operator < MaxOperator /\ Len(command) < MaxCommands
  /\ command' = Append(command, NewCommand("quarantine", i, NoLease))
  /\ operator' = operator + 1
  /\ UNCHANGED <<open, inst, lease, agentVars>>

OperatorReturns(i) ==
  /\ operator < MaxOperator /\ Len(command) < MaxCommands
  /\ inst[i].state = "quarantined"
  /\ UnfinishedOf(i) = {} /\ ActiveOn(i) = {}
  /\ command' = Append(command, NewCommand("unquarantine", i, NoLease))
  /\ operator' = operator + 1
  /\ UNCHANGED <<open, inst, lease, agentVars>>

Next ==
  \/ \E m \in Match : MatchEnds(m) \/ \E i \in Instance : LeaseReadyServer(m, i)
  \/ \E l \in DOMAIN lease : SynchronizeRoster(l) \/ ReleaseLease(l) \/ ExpireLease(l)
  \/ \E i \in Instance :
       \/ WakeServer(i) \/ AgentStops(i)
       \/ i \in Attended /\ AnyHeartbeat(i)
       \/ OperatorQuarantines(i) \/ OperatorReturns(i)
       \/ \E x \in inbox[i] : Execute(i, x)
  \/ \E a \in acks : AckAccepted(a) \/ AckRefused(a)

Spec == Init /\ [][Next]_vars

-----------------------------------------------------------------------------
(* Properties.                                                             *)

\* The rows, the queue and the agents' messages have their types.
TypeOK ==
  /\ open \subseteq Match
  /\ inst \in [Instance -> [state : InstanceState, lease : LeaseRef]]
  /\ lease \in Seq(Lease) /\ Len(lease) <= MaxLeases
  /\ command \in Seq(Command) /\ Len(command) <= MaxCommands
  /\ inbox \in [Instance -> SUBSET [cmd : 1..MaxCommands, token : 1..MaxClaims]]
  /\ acks \subseteq Ack
  /\ operator \in 0..MaxOperator

\* No instance is leased before the drain of its last lease is answered, and
\* no agent still has one to execute: it would abort the new match, since a
\* drain does not name the match it ends (node-control-service.ts:475,
\* docs/dm-server-handoff.md:25).
DrainedBeforeLease ==
  \A i \in Instance : inst[i].state = "leased" =>
    /\ \A c \in UnfinishedOf(i) : command[c].type # "drain"
    /\ \A x \in inbox[i] : command[x.cmd].type # "drain"

\* An instance whose lease failed stays out of service until its agent has
\* answered the command to abort that match: the late answer finds it
\* quarantined still, never leased to another match (line 511).
FailureStaysOut ==
  \A i \in Instance : \A c \in UnfinishedOf(i) :
    command[c].type = "quarantine" /\ command[c].lease # NoLease
      => inst[i].state = "quarantined"

\* An instance that can be leased or woken, or that is drained for that, has no
\* active lease, so that a lease never fails on the unique index and blocks the allocation of the
\* region (lines 671, 525); a leased one points to its active lease.
ReadyIsFree ==
  \A i \in Instance :
    /\ inst[i].state \notin {"leased", "quarantined"} => ActiveOn(i) = {}
    /\ inst[i].state = "leased" => ActiveOn(i) = {inst[i].lease}

\* A quarantined instance with no lease left comes back only by an operator's
\* command, whatever its agent reports (line 343, runbook :11).
QuarantineHolds ==
  [][\A i \in Instance :
       inst[i].state = "quarantined" /\ ActiveOn(i) = {} /\ inst'[i].state # "quarantined"
         => \E c \in UnfinishedOf(i) :
              command[c].type = "unquarantine" /\ command'[c].status = "completed"]_vars

\* The control plane is a lease service for matches and for instances: one
\* lease at a time, with a token higher than all before (docs/architecture.md:59).
TokenOf(ls) == IF ls = {} THEN 0 ELSE CHOOSE l \in ls : TRUE
MatchLeases ==
  INSTANCE LeaseService WITH Holder <- Match,
    held <- [m \in Match |-> TokenOf(ActiveOf(m))], issued <- Len(lease)
InstanceLeases ==
  INSTANCE LeaseService WITH Holder <- Instance,
    held <- [i \in Instance |-> TokenOf(ActiveOn(i))], issued <- Len(lease)
LeasesPerMatch == MatchLeases!Spec
LeasesPerInstance == InstanceLeases!Spec

-----------------------------------------------------------------------------
(* The inductive invariant of NodeControlProofs.                           *)

\* A match, and an instance, has one active lease.
OneLease ==
  \A l1, l2 \in DOMAIN lease :
    /\ Active(l1) /\ Active(l2)
    /\ lease[l1].inst = lease[l2].inst \/ lease[l1].match = lease[l2].match
    => l1 = l2

\* An instance points to a lease on it that is active, and a leased one does.
PointerShape ==
  \A i \in Instance :
    /\ inst[i].lease # NoLease =>
         /\ inst[i].lease \in DOMAIN lease
         /\ Active(inst[i].lease) /\ lease[inst[i].lease].inst = i
    /\ inst[i].state = "leased" => inst[i].lease # NoLease

\* Where the instance of an active lease is.
LeaseShape ==
  \A l \in DOMAIN lease :
    Active(l) => inst[lease[l].inst].state \in {"leased", "quarantined"}

\* The commands that are only ever given to an instance without a lease, and
\* that keep it out of the pool until they are answered.
Clearing(c) ==
  /\ Unfinished(c)
  /\ \/ command[c].type \in {"drain", "unquarantine"}
     \/ command[c].type = "quarantine" /\ command[c].lease # NoLease

CommandShape ==
  \A c \in DOMAIN command : Clearing(c) =>
    /\ \A l \in DOMAIN lease : lease[l].inst = command[c].inst => ~Active(l)
    /\ inst[command[c].inst].state \in
         IF command[c].type = "drain" THEN {"draining", "quarantined"} ELSE {"quarantined"}
    /\ \A d \in DOMAIN command :
         /\ d # c /\ Clearing(d) /\ command[d].inst = command[c].inst
         => command[c].type # "unquarantine" /\ ~(command[c].type = "drain" /\ command[d].type = "drain")

\* An agent holds the current claims of its commands, and no acknowledgement
\* of one it has not executed is under way.
MessageShape ==
  /\ \A i \in Instance : \A x \in inbox[i] :
       /\ x.cmd \in DOMAIN command /\ command[x.cmd].inst = i
       /\ command[x.cmd].status = "claimed" /\ command[x.cmd].attempts = x.token
       /\ \A a \in acks : ~(a.cmd = x.cmd /\ a.token = x.token)
  /\ \A a \in acks : a.cmd \in DOMAIN command /\ a.token <= command[a.cmd].attempts

IInv ==
  /\ TypeOK
  /\ OneLease
  /\ PointerShape
  /\ LeaseShape
  /\ CommandShape
  /\ MessageShape
=============================================================================
