--------------------------- MODULE MatchPipeline ---------------------------
(***************************************************************************)
(* A match on its way through two stores: the matchmaker reserves it in    *)
(* PostgreSQL and opens its ready check in Redis, the cancellation loop    *)
(* carries a cancelled ready check back to PostgreSQL, and the            *)
(* finalization loop leases a server for an accepted one and delivers the  *)
(* assignment (matchmaker.ts, match-orchestrator.ts, server.ts).  Several  *)
(* API processes run these loops; the lock of a match lapses while a       *)
(* process works on it, and a process may stop between any two steps.      *)
(*                                                                         *)
(* What the players do between ready check and veto is RedisQueue; what    *)
(* becomes of leases and of played matches is MatchLifecycle.              *)
(***************************************************************************)
EXTENDS Integers, Sequences, FiniteSets

CONSTANTS
  Process,      \* API processes
  Match,        \* match ids
  Servers,      \* game servers that can be leased
  MaxFaults     \* bound: lost replies and stopped processes

ASSUME PipelineAssumption ==
  /\ Servers \in Nat /\ MaxFaults \in Nat
  /\ "none" \notin Match /\ "none" \notin Process

VARIABLES
  reservation,    \* per match the status of its row in matches
  stage,          \* per match how far Redis has it
  outbox,         \* queue:ready:cancellations, in any order
  finalizations,  \* queue:veto:finalizations, in the order of acceptance
  server,         \* per match its lease
  draining,       \* how many servers that were given back still drain
  lock,           \* per match the holder of its finalization lock
  maker,          \* per process the matchmaker pass
  canceller,      \* per process the cancellation pass
  finalizer,      \* per process the finalization pass
  enabled,        \* serverAllocationEnabled
  unanswered,     \* matches whose createReadyCheck ran and lost its reply
  stops           \* faults so far

pipelineVars == <<reservation, stage, outbox, finalizations, server, draining, lock,
                  maker, canceller, finalizer, enabled, unanswered, stops>>
loopVars == <<maker, canceller, finalizer>>

Resting == [pc |-> "idle", match |-> "none"]
AtRest == [pc |-> "idle", match |-> "none", todo |-> {}]
BetweenPasses == [pc |-> "idle", match |-> "none", todo |-> <<>>]

PipelineInit ==
  /\ reservation = [m \in Match |-> "none"]
  /\ stage = [m \in Match |-> "none"]
  /\ outbox = {} /\ finalizations = <<>>
  /\ server = [m \in Match |-> "none"] /\ draining = 0
  /\ lock = [m \in Match |-> "none"]
  /\ maker = [p \in Process |-> Resting]
  /\ canceller = [p \in Process |-> AtRest]
  /\ finalizer = [p \in Process |-> BetweenPasses]
  /\ enabled = TRUE
  /\ unanswered = {} /\ stops = 0

Faulty == stops < MaxFaults /\ stops' = stops + 1

-----------------------------------------------------------------------------
(* The two steps of cancelReservedMatch.                                   *)

GiveServerBack(m) ==
  /\ server' = [server EXCEPT ![m] = IF @ = "active" THEN "released" ELSE @]
  /\ draining' = IF server[m] = "active" THEN draining + 1 ELSE draining

CancelRow(m) ==
  reservation' = [reservation EXCEPT ![m] = IF @ = "pending" THEN "cancelled" ELSE @]

-----------------------------------------------------------------------------
(* The matchmaker.                                                         *)

assertAllocationEnabled == enabled

\* The tickets are on nobody else's list as far as this pass knows.
ReserveMatch(p, m) ==
  /\ maker[p].pc = "idle" /\ assertAllocationEnabled /\ reservation[m] = "none"
  /\ reservation' = [reservation EXCEPT ![m] = "pending"]
  /\ maker' = [maker EXCEPT ![p] = [pc |-> "claim", match |-> m]]
  /\ UNCHANGED <<stage, outbox, finalizations, server, draining, lock, canceller, finalizer,
                 enabled, unanswered, stops>>

\* createReadyCheck: done, refused because a ticket is stale, or done without
\* an answer.  Both errors lead to the abort of the reservation.
ClaimTickets(p) ==
  LET m == maker[p].match IN
  /\ maker[p].pc = "claim"
  /\ \/ /\ stage' = [stage EXCEPT ![m] = "ready"]
        /\ maker' = [maker EXCEPT ![p] = Resting]
        /\ UNCHANGED <<unanswered, stops>>
     \/ /\ maker' = [maker EXCEPT ![p] = [pc |-> "release", match |-> m]]
        /\ UNCHANGED <<stage, unanswered, stops>>
     \/ /\ Faulty
        /\ stage' = [stage EXCEPT ![m] = "ready"]
        /\ unanswered' = unanswered \cup {m}
        /\ maker' = [maker EXCEPT ![p] = [pc |-> "release", match |-> m]]
  /\ UNCHANGED <<reservation, outbox, finalizations, server, draining, lock, canceller, finalizer, enabled>>

AbortReservation(p) ==
  LET m == maker[p].match IN
  /\ \/ /\ maker[p].pc = "release"
        /\ GiveServerBack(m)
        /\ maker' = [maker EXCEPT ![p] = [pc |-> "cancel", match |-> m]]
        /\ UNCHANGED reservation
     \/ /\ maker[p].pc = "cancel"
        /\ CancelRow(m)
        /\ maker' = [maker EXCEPT ![p] = Resting]
        /\ UNCHANGED <<server, draining>>
  /\ UNCHANGED <<stage, outbox, finalizations, lock, canceller, finalizer, enabled, unanswered, stops>>

-----------------------------------------------------------------------------
(* The players (RedisQueue).                                               *)

\* Everybody accepts and the veto, if any, ends.
RosterAccepts(m) ==
  /\ stage[m] = "ready"
  /\ stage' = [stage EXCEPT ![m] = "allocating"]
  /\ finalizations' = Append(finalizations, m)
  /\ UNCHANGED <<reservation, outbox, server, draining, lock, loopVars, enabled, unanswered, stops>>

\* Somebody declines, or the ready check expires.
ReadyCheckCancelled(m) ==
  /\ stage[m] = "ready"
  /\ stage' = [stage EXCEPT ![m] = "cancelled"]
  /\ outbox' = outbox \cup {m}
  /\ UNCHANGED <<reservation, finalizations, server, draining, lock, loopVars, enabled, unanswered, stops>>

-----------------------------------------------------------------------------
(* The cancellation loop.  Its lock only spares work: what it guards may be *)
(* done twice, and it is left out, as is the order of the entries.         *)

ListCancellations(p) ==
  /\ canceller[p].pc = "idle"
  /\ \E m \in outbox :
       canceller' = [canceller EXCEPT ![p] = [pc |-> "release", match |-> m, todo |-> outbox \ {m}]]
  /\ UNCHANGED <<reservation, stage, outbox, finalizations, server, draining, lock, maker, finalizer,
                 enabled, unanswered, stops>>

\* Mutant: the entry is acknowledged before the match is cancelled.
ReconcileMutant(p) ==
  LET c == canceller[p] IN
  /\ \/ /\ c.pc = "release"
        /\ GiveServerBack(c.match)
        /\ outbox' = outbox \ {c.match}
        /\ canceller' = [canceller EXCEPT ![p] = [pc |-> "cancel", match |-> c.match, todo |-> c.todo]]
        /\ UNCHANGED reservation
     \/ /\ c.pc = "cancel"
        /\ CancelRow(c.match)
        /\ canceller' = [canceller EXCEPT ![p] = AtRest]
        /\ UNCHANGED <<server, draining, outbox>>
  /\ UNCHANGED <<stage, finalizations, lock, maker, finalizer, enabled, unanswered, stops>>

\* cancelPendingMatch and its acknowledgement, one transaction after the other.
Reconcile(p) ==
  LET c == canceller[p] IN
  /\ \/ /\ c.pc = "release"
        /\ GiveServerBack(c.match)
        /\ canceller' = [canceller EXCEPT ![p] = [pc |-> "cancel", match |-> c.match, todo |-> c.todo]]
        /\ UNCHANGED <<reservation, outbox>>
     \/ /\ c.pc = "cancel"
        /\ CancelRow(c.match)
        /\ canceller' = [canceller EXCEPT ![p] = [pc |-> "acknowledge", match |-> c.match, todo |-> c.todo]]
        /\ UNCHANGED <<server, draining, outbox>>
     \/ /\ c.pc = "acknowledge"
        /\ outbox' = outbox \ {c.match}
        /\ \/ c.todo = {} /\ canceller' = [canceller EXCEPT ![p] = AtRest]
           \/ \E m \in c.todo :
                canceller' = [canceller EXCEPT ![p] = [pc |-> "release", match |-> m, todo |-> c.todo \ {m}]]
        /\ UNCHANGED <<reservation, server, draining>>
  /\ UNCHANGED <<stage, finalizations, lock, maker, finalizer, enabled, unanswered, stops>>

-----------------------------------------------------------------------------
(* The finalization loop.                                                  *)

finalizerKeeps == <<outbox, maker, canceller, enabled, unanswered, stops>>

\* Mutant: the list is emptied when it is read.
ListFinalizationsMutant(p) ==
  /\ finalizer[p].pc = "idle" /\ finalizations # <<>>
  /\ finalizer' = [finalizer EXCEPT ![p] = [pc |-> "next", match |-> "none", todo |-> finalizations]]
  /\ finalizations' = <<>>
  /\ UNCHANGED <<reservation, stage, server, draining, lock, finalizerKeeps>>

ListFinalizations(p) ==
  /\ finalizer[p].pc = "idle" /\ finalizations # <<>>
  /\ finalizer' = [finalizer EXCEPT ![p] = [pc |-> "next", match |-> "none", todo |-> finalizations]]
  /\ UNCHANGED <<reservation, stage, finalizations, server, draining, lock, finalizerKeeps>>

\* A match whose lock is taken is passed over.
NextFinalization(p) ==
  LET f == finalizer[p] IN
  /\ f.pc = "next"
  /\ IF f.todo = <<>>
     THEN finalizer' = [finalizer EXCEPT ![p] = BetweenPasses] /\ UNCHANGED lock
     ELSE LET m == Head(f.todo) IN
          IF lock[m] # "none"
          THEN finalizer' = [finalizer EXCEPT ![p] = [pc |-> "next", match |-> "none", todo |-> Tail(f.todo)]]
               /\ UNCHANGED lock
          ELSE /\ lock' = [lock EXCEPT ![m] = p]
               /\ finalizer' = [finalizer EXCEPT ![p] = [pc |-> "read", match |-> m, todo |-> Tail(f.todo)]]
  /\ UNCHANGED <<reservation, stage, finalizations, server, draining, finalizerKeeps>>

Unlocked(p) == LET m == finalizer[p].match IN [lock EXCEPT ![m] = IF @ = p THEN "none" ELSE @]

\* An error: the lock is given back and the rest of the pass is skipped.
Throw(p) == finalizer' = [finalizer EXCEPT ![p] = BetweenPasses] /\ lock' = Unlocked(p)

\* The first transaction of allocate: the match must be pending.
ReadReservation(p) ==
  LET f == finalizer[p] IN
  /\ f.pc = "read"
  /\ IF assertAllocationEnabled /\ reservation[f.match] = "pending"
     THEN finalizer' = [finalizer EXCEPT ![p] = [pc |-> "lease", match |-> f.match, todo |-> f.todo]] /\ UNCHANGED lock
     ELSE Throw(p)
  /\ UNCHANGED <<reservation, stage, finalizations, server, draining, finalizerKeeps>>

\* zRem.
Removed(m) ==
  LET s == finalizations IN
  IF \E k \in DOMAIN s : s[k] = m
  THEN \E k \in DOMAIN s : s[k] = m /\ finalizations' = SubSeq(s, 1, k - 1) \o SubSeq(s, k + 1, Len(s))
  ELSE UNCHANGED finalizations

\* A server that was given back is drained before it is ready again.
Free == Servers - draining - Cardinality({m \in Match : server[m] = "active"})

\* leaseReadyServer: the active lease, a free server, or an error.  The match
\* is not looked at again.
LeaseForMatch(p) ==
  LET m == finalizer[p].match IN
  /\ finalizer[p].pc = "lease"
  /\ IF server[m] = "active" \/ Free > 0
     THEN /\ server' = [server EXCEPT ![m] = "active"]
          /\ finalizer' = [finalizer EXCEPT ![p] = [pc |-> "grant", match |-> m, todo |-> finalizer[p].todo]]
          /\ UNCHANGED lock
     ELSE Throw(p) /\ UNCHANGED server
  /\ UNCHANGED <<reservation, stage, finalizations, draining, finalizerKeeps>>

\* launcherUrl: the grant needs the active lease.  When there is none by now, or
\* the database fails, the lease stays behind and the next pass finds it.
IssueLauncherGrant(p) ==
  LET f == finalizer[p] IN
  /\ f.pc = "grant"
  /\ \/ /\ server[f.match] = "active"
        /\ finalizer' = [finalizer EXCEPT ![p] = [pc |-> "deliver", match |-> f.match, todo |-> f.todo]]
        /\ UNCHANGED <<lock, stops>>
     \/ server[f.match] # "active" /\ Throw(p) /\ UNCHANGED stops
     \/ Faulty /\ Throw(p)
  /\ UNCHANGED <<reservation, stage, finalizations, server, draining, outbox, maker, canceller,
                 enabled, unanswered>>

\* Mutant: the assignment is delivered whatever has become of the match.
DeliverMutant(p) ==
  LET m == finalizer[p].match IN
  /\ finalizer[p].pc = "deliver"
  /\ stage' = [stage EXCEPT ![m] = "assigned"]
  /\ Removed(m)
  /\ finalizer' = [finalizer EXCEPT ![p] = [pc |-> "next", match |-> "none", todo |-> finalizer[p].todo]]
  /\ lock' = Unlocked(p)
  /\ UNCHANGED <<reservation, server, draining, finalizerKeeps>>

\* completeMapVeto, which finds nothing when another process was faster.  When
\* it reached fewer than all players, because a ticket was gone
\* (RosterDelivered of RedisQueue), the error that follows skips the rest of the
\* pass: the match is assigned all the same.
Deliver(p) ==
  LET m == finalizer[p].match IN
  /\ finalizer[p].pc = "deliver"
  /\ stage' = [stage EXCEPT ![m] = IF @ = "allocating" THEN "assigned" ELSE @]
  /\ Removed(m)
  /\ lock' = Unlocked(p)
  /\ \/ finalizer' = [finalizer EXCEPT ![p] = [pc |-> "next", match |-> "none", todo |-> finalizer[p].todo]]
     \/ stage[m] = "allocating" /\ finalizer' = [finalizer EXCEPT ![p] = BetweenPasses]
  /\ UNCHANGED <<reservation, server, draining, finalizerKeeps>>

-----------------------------------------------------------------------------
(* Time, operators and faults.                                             *)

LockLapses(m) ==
  /\ lock[m] # "none"
  /\ lock' = [lock EXCEPT ![m] = "none"]
  /\ UNCHANGED <<reservation, stage, outbox, finalizations, server, draining, loopVars, enabled, unanswered, stops>>

\* The players have connected.
MatchGoesLive(m) ==
  /\ server[m] = "active" /\ stage[m] = "assigned" /\ reservation[m] = "pending"
  /\ reservation' = [reservation EXCEPT ![m] = "live"]
  /\ UNCHANGED <<stage, outbox, finalizations, server, draining, lock, loopVars, enabled, unanswered, stops>>

\* An assigned match is played, or its lease expires: it is over and the server
\* is given back (MatchLifecycle).
MatchIsOver(m) ==
  /\ server[m] = "active" /\ stage[m] \in {"assigned", "over"}
  /\ stage' = [stage EXCEPT ![m] = "over"]
  /\ reservation' = [reservation EXCEPT ![m] = IF @ \in {"pending", "live"} THEN "over" ELSE @]
  /\ GiveServerBack(m)
  /\ UNCHANGED <<outbox, finalizations, lock, loopVars, enabled, unanswered, stops>>

\* The agent has drained a server (NodeControl).
ServerDrained ==
  /\ draining > 0 /\ draining' = draining - 1
  /\ UNCHANGED <<reservation, stage, outbox, finalizations, server, lock, loopVars, enabled, unanswered, stops>>

OperatorPauses ==
  /\ Faulty
  /\ enabled' = ~enabled
  /\ UNCHANGED <<reservation, stage, outbox, finalizations, server, draining, lock, loopVars, unanswered>>

ProcessStops(p) ==
  /\ Faulty
  /\ maker' = [maker EXCEPT ![p] = Resting]
  /\ canceller' = [canceller EXCEPT ![p] = AtRest]
  /\ finalizer' = [finalizer EXCEPT ![p] = BetweenPasses]
  /\ UNCHANGED <<reservation, stage, outbox, finalizations, server, draining, lock, enabled, unanswered>>

Loops(p) ==
  \/ ListCancellations(p) \/ Reconcile(p)
  \/ ListFinalizations(p) \/ NextFinalization(p) \/ ReadReservation(p) \/ LeaseForMatch(p)
  \/ IssueLauncherGrant(p) \/ Deliver(p)

PipelineNext ==
  \/ \E p \in Process :
       \/ \E m \in Match : ReserveMatch(p, m)
       \/ ClaimTickets(p) \/ AbortReservation(p) \/ Loops(p) \/ ProcessStops(p)
  \/ \E m \in Match : RosterAccepts(m) \/ ReadyCheckCancelled(m) \/ LockLapses(m)
                      \/ MatchGoesLive(m) \/ MatchIsOver(m)
  \/ ServerDrained \/ OperatorPauses

PipelineSpec == PipelineInit /\ [][PipelineNext]_pipelineVars

\* The timers of server.ts run in every process; a lock has a time to live; a
\* match is over when it was played or when the lease sweep finds its lease
\* expired.
PipelineFairness ==
  /\ \A p \in Process :
       /\ WF_pipelineVars(ListCancellations(p) \/ Reconcile(p))
       /\ WF_pipelineVars(ListFinalizations(p) \/ NextFinalization(p) \/ ReadReservation(p)
                          \/ LeaseForMatch(p) \/ IssueLauncherGrant(p) \/ Deliver(p))
  /\ \A m \in Match : WF_pipelineVars(LockLapses(m)) /\ WF_pipelineVars(MatchIsOver(m))

-----------------------------------------------------------------------------
Pass(pcs, lists) == [pc : pcs, match : Match \cup {"none"}, todo : lists]

PipelineTypeOK ==
  /\ reservation \in [Match -> {"none", "pending", "live", "cancelled", "over"}]
  /\ stage \in [Match -> {"none", "ready", "allocating", "assigned", "cancelled", "over"}]
  /\ outbox \in SUBSET Match /\ finalizations \in Seq(Match)
  /\ server \in [Match -> {"none", "active", "released"}] /\ draining \in Nat
  /\ lock \in [Match -> Process \cup {"none"}]
  /\ maker \in [Process -> [pc : {"idle", "claim", "release", "cancel"}, match : Match \cup {"none"}]]
  /\ canceller \in [Process -> Pass({"idle", "release", "cancel", "acknowledge"}, SUBSET Match)]
  /\ finalizer \in [Process -> Pass({"idle", "next", "read", "lease", "grant", "deliver"}, Seq(Match))]
  /\ enabled \in BOOLEAN /\ unanswered \in SUBSET Match /\ stops \in 0..MaxFaults

\* Players are sent to a match only once, while its reservation stands and a
\* server is leased for it, however many processes finalize it at once.  Left
\* out is a match whose ready check was opened without an answer: its
\* reservation is cancelled behind its back (matchmaker.ts:465).
DeliveredHasServer ==
  [][\A m \in Match : stage[m] # "assigned" /\ stage'[m] = "assigned" =>
       \/ reservation[m] = "pending" /\ server[m] = "active"
       \/ m \in unanswered]_pipelineVars

\* A cancelled ready check is carried to PostgreSQL: its reservation ends and
\* no server stays leased for it, though a process stops half way
\* (server.ts:231).
CancellationArrives ==
  \A m \in Match : stage[m] = "cancelled" ~> reservation[m] = "cancelled" /\ server[m] # "active"

\* Every pass of the finalization loop ends at the first match it cannot
\* allocate: one that is not pending any more, or one for which no server is
\* free.
Stopper == \E m \in Match :
  stage[m] = "allocating" /\ (reservation[m] # "pending" \/ (server[m] # "active" /\ Free <= 0))

\* Every accepted match is assigned, whichever processes stop, once allocation
\* stays enabled and no match stays in the way of the others: a match that has
\* its server can wait for ever behind one that has none (server.ts:258).
AcceptedIsAssigned ==
  <>[](enabled /\ ~Stopper) => \A m \in Match : stage[m] = "allocating" ~> stage[m] # "allocating"
=============================================================================
