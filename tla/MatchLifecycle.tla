--------------------------- MODULE MatchLifecycle ---------------------------
(***************************************************************************)
(* The life of a match in PostgreSQL once it is reserved: server leases    *)
(* (node-control-service.ts), signed events and results                    *)
(* (match-ingestion-service.ts), settlement (settle-match.ts) and an       *)
(* operator's recovery of failed matches (match-recovery-service.ts).      *)
(*                                                                         *)
(* A transaction is one step.  What a service does after a commit, or      *)
(* before it, is a step of its own: other processes run in between, and    *)
(* the process may stop there.                                             *)
(*                                                                         *)
(* A lease is named by its fencing token.  Which server instance it is on, *)
(* and how a node learns of it, is left out.                               *)
(***************************************************************************)
EXTENDS Integers, Sequences, FiniteSets

CONSTANTS
  Match,        \* match ids, drawn afresh by randomUUID
  NoMatch,      \* no match
  Deathmatch,   \* the matches that are drop-in deathmatch sessions
  Request,      \* requests that submit a result
  Timer,        \* timers that sweep the pending results
  Checksum,     \* the result payloads a server may submit for a match
  NoChecksum,   \* no payload
  MaxLeases,    \* bound on the leases ever granted
  MaxCrashes    \* bound on the settlements a process leaves half done

ASSUME LifecycleAssumption ==
  /\ MaxLeases \in Nat /\ MaxCrashes \in Nat
  /\ NoMatch \notin Match
  /\ NoChecksum \notin Checksum
  /\ Deathmatch \subseteq Match
  /\ Request \cap Timer = {}

LeaseId == 1..MaxLeases

\* Whoever settles results.
Settler == Request \cup Timer

VARIABLES
  status,      \* matches.status
  lease,       \* server_leases
  fence,       \* server_lease_fencing_seq
  aborting,    \* leases to release for a recorded match.aborted event
  result,      \* match_results
  arrivals,    \* matches in the order of match_results.received_at
  rated,       \* times the ratings and XP of a match were applied
  incident,    \* match_recovery_incidents, by match
  allocation,  \* per match: how far its allocators are
  cancelling,  \* matches whose reservation is being cancelled
  expiry,      \* the expiry sweep: its lease and what it read of the match
  job,         \* per settler: the settlement in progress
  crashes      \* settlements left half done so far

allocVars == <<allocation, cancelling>>
jobVars   == <<job, crashes>>
vars == <<status, lease, fence, aborting, result, arrivals, rated, incident,
          allocVars, expiry, jobVars>>

-----------------------------------------------------------------------------
(* Records *)

Status == {"none", "pending", "live", "completed", "cancelled", "disputed"}

\* lapsed: released more than fifteen minutes ago.
Lease == [match  : Match \cup {NoMatch},
          status : {"none", "active", "released", "lapsed", "expired"}]

NoLease == [match |-> NoMatch, status |-> "none"]

Result == [status   : {"none", "pending", "settled", "conflicting"},
           lease    : LeaseId \cup {0},
           checksum : Checksum \cup {NoChecksum}]

NoResult == [status |-> "none", lease |-> 0, checksum |-> NoChecksum]

Incident == [status : {"none", "open", "resolving", "resolved"},
             action : {"none", "void", "remake"},
             replacement : Match \cup {NoMatch}]

NoIncident == [status |-> "none", action |-> "none", replacement |-> NoMatch]

\* How a process that asks for a server stands: it found the match fit for one,
\* then has one.
Allocation == {"idle", "asking", "granted"}

\* A match's status and whether its result is pending, read for a lease.
Expiry == [lease : LeaseId \cup {0}, status : Status, pending : BOOLEAN]

NoExpiry == [lease |-> 0, status |-> "none", pending |-> FALSE]

\* The matches still to settle, the first of them at the given step.
Job == [pc : {"idle", "next", "settle", "release", "mark"}, todo : Seq(Match)]

Busy(j) == j.pc \in {"settle", "release", "mark"}

NoJob == [pc |-> "idle", todo |-> <<>>]

Active(l) == lease[l].status = "active"

\* authorizeLocked: events and results of this lease are accepted.
Authority(l) == lease[l].status \in {"active", "released"}

Pending(m) == result[m].status = "pending"

-----------------------------------------------------------------------------
(* What the services share *)

\* releaseLease, a no-op on a lease that is not active.
Released(l) ==
  IF l \in LeaseId /\ Active(l)
  THEN [lease EXCEPT ![l].status = "released"] ELSE lease

\* An update of a match that spares a cancelled one.
Disputed(m) ==
  IF status[m] = "cancelled" THEN status
  ELSE [status EXCEPT ![m] = "disputed"]

\* quarantineLeaseFailure, from what its caller read of the match.
QuarantineLease(l, read) ==
  LET m == lease[l].match
      unfinished == read.status \in {"live", "disputed"} /\ ~read.pending
  IN
  /\ lease' = [lease EXCEPT ![l].status = "expired"]
  /\ status' = [status EXCEPT ![m] =
       CASE read.status = "pending" /\ @ = "pending" -> "cancelled"
         [] unfinished /\ @ \in {"live", "disputed"} -> "disputed"
         [] OTHER -> @]
  /\ incident' = [incident EXCEPT ![m] =
       IF unfinished /\ @.status = "none"
       THEN [NoIncident EXCEPT !.status = "open"] ELSE @]
  /\ UNCHANGED <<fence, aborting, result, arrivals, rated, allocVars, jobVars>>

-----------------------------------------------------------------------------
Init ==
  /\ status = [m \in Match |-> "none"]
  /\ lease = [l \in LeaseId |-> NoLease]
  /\ fence = 0
  /\ aborting = {}
  /\ result = [m \in Match |-> NoResult]
  /\ arrivals = <<>>
  /\ rated = [m \in Match |-> 0]
  /\ incident = [m \in Match |-> NoIncident]
  /\ allocation = [m \in Match |-> "idle"]
  /\ cancelling = {}
  /\ expiry = NoExpiry
  /\ job = [s \in Settler |-> NoJob]
  /\ crashes = 0

-----------------------------------------------------------------------------
(* Reservation and allocation *)

\* reserve, or the first join of a deathmatch session.
Reserve(m) ==
  /\ status[m] = "none"
  /\ status' = [status EXCEPT ![m] = "pending"]
  /\ UNCHANGED <<lease, fence, aborting, result, arrivals, rated, incident,
                 allocVars, expiry, jobVars>>

\* allocate and allocateDropInDeathmatch read the match, and let go of it
\* before they ask for a server.
StartAllocation(m) ==
  /\ \/ status[m] = "pending"
     \/ status[m] = "live" /\ m \in Deathmatch
  /\ allocation[m] = "idle"
  /\ allocation' = [allocation EXCEPT ![m] = "asking"]
  /\ UNCHANGED <<status, lease, fence, aborting, result, arrivals, rated,
                 incident, cancelling, expiry, jobVars>>

\* leaseReadyServerNow: the active lease of the match, or a new one.  It does
\* not look at the match.
LeaseServer(m) ==
  /\ allocation[m] = "asking"
  /\ allocation' = [allocation EXCEPT ![m] = "granted"]
  /\ IF \E l \in LeaseId : Active(l) /\ lease[l].match = m
     THEN UNCHANGED <<lease, fence>>
     ELSE /\ fence < MaxLeases
          /\ fence' = fence + 1
          /\ lease' = [lease EXCEPT ![fence + 1] =
               [match |-> m, status |-> "active"]]
  /\ UNCHANGED <<status, aborting, result, arrivals, rated, incident,
                 cancelling, expiry, jobVars>>

\* The allocator is done, found no capacity or has stopped.
AllocationEnds(m) ==
  /\ allocation[m] # "idle"
  /\ allocation' = [allocation EXCEPT ![m] = "idle"]
  /\ UNCHANGED <<status, lease, fence, aborting, result, arrivals, rated,
                 incident, cancelling, expiry, jobVars>>

\* cancelReservedMatch, first half: release the lease of the match, if any.
\* Its callers cancel matches whose ready check failed, or was never created.
ReleaseReservation(m) ==
  /\ status[m] = "pending" /\ m \notin cancelling
  /\ cancelling' = cancelling \cup {m}
  /\ lease' = [l \in LeaseId |->
       IF lease[l].match = m /\ Active(l)
       THEN [lease[l] EXCEPT !.status = "released"] ELSE lease[l]]
  /\ UNCHANGED <<status, fence, aborting, result, arrivals, rated, incident,
                 allocation, expiry, jobVars>>

\* cancelReservedMatch, second half.
CancelReservation(m) ==
  /\ m \in cancelling
  /\ cancelling' = cancelling \ {m}
  /\ status' = [status EXCEPT ![m] = IF @ = "pending" THEN "cancelled" ELSE @]
  /\ UNCHANGED <<lease, fence, aborting, result, arrivals, rated, incident,
                 allocation, expiry, jobVars>>

-----------------------------------------------------------------------------
(* Events and results *)

\* Mutant: a late match.live event revives whatever it finds.
GoLiveMutant(l) ==
  LET m == lease[l].match IN
  /\ Authority(l)
  /\ status[m] # "live"
  /\ status' = [status EXCEPT ![m] = "live"]
  /\ UNCHANGED <<lease, fence, aborting, result, arrivals, rated, incident,
                 allocVars, expiry, jobVars>>

\* A match.live event.
GoLive(l) ==
  LET m == lease[l].match IN
  /\ Authority(l)
  /\ status[m] = "pending"
  /\ status' = [status EXCEPT ![m] = "live"]
  /\ UNCHANGED <<lease, fence, aborting, result, arrivals, rated, incident,
                 allocVars, expiry, jobVars>>

\* A match.aborted event is recorded, by the first batch that holds it ...
Abort(l) ==
  LET m == lease[l].match IN
  /\ Authority(l)
  /\ status[m] \in {"pending", "live"} \/ Active(l)
  /\ status' = [status EXCEPT ![m] =
       IF @ \in {"pending", "live"} THEN "cancelled" ELSE @]
  /\ aborting' = IF Active(l) THEN aborting \cup {l} ELSE aborting
  /\ UNCHANGED <<lease, fence, result, arrivals, rated, incident, allocVars,
                 expiry, jobVars>>

\* ... and its lease released afterwards, by any batch that holds it.
AbortReleases(l) ==
  /\ l \in aborting
  /\ aborting' = aborting \ {l}
  /\ lease' = Released(l)
  /\ UNCHANGED <<status, fence, result, arrivals, rated, incident, allocVars,
                 expiry, jobVars>>

\* An event, or a demo, that contradicts the one already stored.
Conflict(l) ==
  /\ Authority(l)
  /\ status[lease[l].match] \notin {"cancelled", "disputed"}
  /\ status' = Disputed(lease[l].match)
  /\ UNCHANGED <<lease, fence, aborting, result, arrivals, rated, incident,
                 allocVars, expiry, jobVars>>

\* Mutant: a conflicting result leaves the match alone.
ContradictMutant(m) ==
  /\ result' = [result EXCEPT ![m].status = "conflicting"]
  /\ UNCHANGED status

\* A result that differs from the canonical one.
Contradict(m) ==
  /\ result' = [result EXCEPT ![m].status = "conflicting"]
  /\ status' = Disputed(m)

\* ingestResult: the first result of a match is canonical, another one with
\* the same payload is a retry, one with another payload a conflict.  The
\* payload names its lease.  A request that finds the result pending goes on to
\* settle it.
SubmitResult(s, l, c) ==
  LET m == lease[l].match
      first == result[m].status = "none"
      agrees == first \/ (result[m].lease = l /\ result[m].checksum = c)
  IN
  /\ job[s].pc = "idle"
  /\ Authority(l)
  /\ IF ~agrees THEN Contradict(m) /\ UNCHANGED arrivals
     ELSE /\ result' = IF ~first THEN result ELSE
               [result EXCEPT ![m] =
                  [status |-> "pending", lease |-> l, checksum |-> c]]
          /\ arrivals' = IF first THEN Append(arrivals, m) ELSE arrivals
          /\ UNCHANGED status
  /\ job' = IF agrees /\ (first \/ Pending(m))
            THEN [job EXCEPT ![s] = [pc |-> "next", todo |-> <<m>>]] ELSE job
  /\ UNCHANGED <<lease, fence, aborting, rated, incident, allocVars, expiry,
                 crashes>>

-----------------------------------------------------------------------------
(* Settlement *)

\* Mutant: only the results whose lease is still active are swept.
SweepResultsMutant(s) ==
  /\ job[s].pc = "idle"
  /\ \E m \in Match : Pending(m) /\ Active(result[m].lease)
  /\ job' = [job EXCEPT ![s] = [pc |-> "next", todo |-> arrivals]]
  /\ UNCHANGED <<status, lease, fence, aborting, result, arrivals, rated,
                 incident, allocVars, expiry, crashes>>

\* settlePendingResults: a timer's pass over the pending results, the oldest
\* first.  The results that are not pending any more are passed over below.
SweepResults(s) ==
  /\ job[s].pc = "idle"
  /\ \E m \in Match : Pending(m)
  /\ job' = [job EXCEPT ![s] = [pc |-> "next", todo |-> arrivals]]
  /\ UNCHANGED <<status, lease, fence, aborting, result, arrivals, rated,
                 incident, allocVars, expiry, crashes>>

\* settlePendingResult reads the result before any transaction.
ReadPending(s) ==
  LET todo == job[s].todo IN
  /\ job[s].pc = "next"
  /\ job' = [job EXCEPT ![s] =
       CASE todo = <<>> -> NoJob
         [] todo # <<>> /\ Pending(Head(todo)) -> [@ EXCEPT !.pc = "settle"]
         [] OTHER -> [@ EXCEPT !.todo = Tail(todo)]]
  /\ UNCHANGED <<status, lease, fence, aborting, result, arrivals, rated,
                 incident, allocVars, expiry, crashes>>

\* Mutant: a completed match is settled once more.
SettleMutant(s) ==
  LET m == Head(job[s].todo) IN
  /\ job[s].pc = "settle"
  /\ IF status[m] \in {"live", "completed"}
     THEN /\ rated' = [rated EXCEPT ![m] = @ + 1]
          /\ status' = [status EXCEPT ![m] = "completed"]
          /\ job' = [job EXCEPT ![s].pc = "release"]
     ELSE /\ job' = [job EXCEPT ![s] = NoJob]
          /\ UNCHANGED <<status, rated>>
  /\ UNCHANGED <<lease, fence, aborting, result, arrivals, incident,
                 allocVars, expiry, crashes>>

\* settleMatch: apply ratings and XP to a live match, accept a completed one
\* as settled, and throw on any other.  A throw ends the request, or the whole
\* pass of the timer.
Settle(s) ==
  LET m == Head(job[s].todo) IN
  /\ job[s].pc = "settle"
  /\ rated' = [rated EXCEPT ![m] = IF status[m] = "live" THEN @ + 1 ELSE @]
  /\ status' = [status EXCEPT ![m] = IF @ = "live" THEN "completed" ELSE @]
  /\ job' = [job EXCEPT ![s] =
       IF status[m] \in {"live", "completed"}
       THEN [@ EXCEPT !.pc = "release"] ELSE NoJob]
  /\ UNCHANGED <<lease, fence, aborting, result, arrivals, incident,
                 allocVars, expiry, crashes>>

\* Mutant: the lease is kept.
ReleaseSettledMutant(s) ==
  /\ job[s].pc = "release"
  /\ job' = [job EXCEPT ![s].pc = "mark"]
  /\ UNCHANGED <<status, lease, fence, aborting, result, arrivals, rated,
                 incident, allocVars, expiry, crashes>>

ReleaseSettled(s) ==
  /\ job[s].pc = "release"
  /\ lease' = Released(result[Head(job[s].todo)].lease)
  /\ job' = [job EXCEPT ![s].pc = "mark"]
  /\ UNCHANGED <<status, fence, aborting, result, arrivals, rated, incident,
                 allocVars, expiry, crashes>>

MarkSettled(s) ==
  LET m == Head(job[s].todo) IN
  /\ job[s].pc = "mark"
  /\ result' = [result EXCEPT ![m].status = IF Pending(m) THEN "settled" ELSE @]
  /\ job' = [job EXCEPT ![s] = [pc |-> "next", todo |-> Tail(@.todo)]]
  /\ UNCHANGED <<status, lease, fence, aborting, arrivals, rated, incident,
                 allocVars, expiry, crashes>>

\* The process stops, or a connection fails, between two steps.
SettlerLost(s) ==
  /\ job[s].pc # "idle" /\ crashes < MaxCrashes
  /\ crashes' = crashes + 1
  /\ job' = [job EXCEPT ![s] = NoJob]
  /\ UNCHANGED <<status, lease, fence, aborting, result, arrivals, rated,
                 incident, allocVars, expiry>>

-----------------------------------------------------------------------------
(* Lease failures *)

LeaseLapses(l) ==
  /\ lease[l].status = "released"
  /\ lease' = [lease EXCEPT ![l].status = "lapsed"]
  /\ UNCHANGED <<status, fence, aborting, result, arrivals, rated, incident,
                 allocVars, expiry, jobVars>>

\* quarantineExpiredLeases takes its snapshot of lease, match and result ...
ReadExpired(l) ==
  LET m == lease[l].match IN
  /\ expiry = NoExpiry
  /\ Active(l)
  /\ expiry' = [lease |-> l, status |-> status[m], pending |-> Pending(m)]
  /\ UNCHANGED <<status, lease, fence, aborting, result, arrivals, rated,
                 incident, allocVars, jobVars>>

\* ... and then locks the lease, not the match.
ExpireLease(l) ==
  /\ expiry.lease = l
  /\ expiry' = NoExpiry
  /\ IF Active(l) THEN QuarantineLease(l, expiry)
     ELSE UNCHANGED <<status, lease, fence, aborting, result, arrivals, rated,
                      incident, allocVars, jobVars>>

\* A heartbeat reports the third RCON failure: lease and match are locked.
ServerUnreachable(l) ==
  LET m == lease[l].match IN
  /\ Active(l)
  /\ QuarantineLease(l, [status |-> status[m], pending |-> Pending(m)])
  /\ UNCHANGED expiry

-----------------------------------------------------------------------------
(* Recovery by an operator *)

\* A match with rows in rating_changes; a deathmatch only moves XP.
HasRatings(m) == rated[m] > 0 /\ m \notin Deathmatch

VoidMatch(m) ==
  /\ incident[m].status = "open"
  /\ ~HasRatings(m)
  /\ status[m] = "disputed"
  /\ status' = [status EXCEPT ![m] = "cancelled"]
  /\ incident' = [incident EXCEPT ![m].status = "resolved", ![m].action = "void"]
  /\ UNCHANGED <<lease, fence, aborting, result, arrivals, rated, allocVars,
                 expiry, jobVars>>

\* stageRemake: a copy of the match; the request goes on to allocate a server.
StageRemake(m, r) ==
  /\ incident[m].status = "open"
  /\ status[m] = "disputed"
  /\ status[r] = "none" /\ (r \in Deathmatch <=> m \in Deathmatch)
  /\ status' = [status EXCEPT ![r] = "pending"]
  /\ incident' = [incident EXCEPT ![m] =
       [status |-> "resolving", action |-> "remake", replacement |-> r]]
  /\ allocation' = [allocation EXCEPT ![r] = "asking"]
  /\ UNCHANGED <<lease, fence, aborting, result, arrivals, rated, cancelling,
                 expiry, jobVars>>

\* A second attempt finds the remake staged; one that had read the incident
\* before the first attempt ended may find it resolved as well.
ResumeRemake(m) ==
  /\ incident[m].action = "remake"
  /\ allocation[incident[m].replacement] = "idle"
  /\ allocation' = [allocation EXCEPT ![incident[m].replacement] = "asking"]
  /\ UNCHANGED <<status, lease, fence, aborting, result, arrivals, rated,
                 incident, cancelling, expiry, jobVars>>

\* Mutant: the incident is closed although no server was found.
FinishRemakeMutant(m) ==
  /\ incident[m].status = "resolving"
  /\ status' = [status EXCEPT ![m] = IF @ = "disputed" THEN "cancelled" ELSE @]
  /\ incident' = [incident EXCEPT ![m].status = "resolved"]
  /\ UNCHANGED <<lease, fence, aborting, result, arrivals, rated, allocVars,
                 expiry, jobVars>>

\* The last transaction of remakeMatch, once it has a server.
FinishRemake(m) ==
  /\ incident[m].status = "resolving"
  /\ allocation[incident[m].replacement] = "granted"
  /\ status' = [status EXCEPT ![m] = IF @ = "disputed" THEN "cancelled" ELSE @]
  /\ incident' = [incident EXCEPT ![m].status = "resolved"]
  /\ UNCHANGED <<lease, fence, aborting, result, arrivals, rated, allocVars,
                 expiry, jobVars>>

-----------------------------------------------------------------------------
MatchStep(m) ==
  \/ Reserve(m) \/ StartAllocation(m) \/ LeaseServer(m) \/ AllocationEnds(m)
  \/ ReleaseReservation(m) \/ CancelReservation(m)
  \/ VoidMatch(m) \/ ResumeRemake(m) \/ FinishRemake(m)
  \/ \E r \in Match : StageRemake(m, r)

LeaseStep(l) ==
  \/ GoLive(l) \/ Abort(l) \/ AbortReleases(l) \/ Conflict(l)
  \/ LeaseLapses(l) \/ ReadExpired(l) \/ ExpireLease(l) \/ ServerUnreachable(l)

SettlerStep(s) ==
  \/ s \in Request /\ \E l \in LeaseId, c \in Checksum : SubmitResult(s, l, c)
  \/ s \in Timer /\ SweepResults(s)
  \/ ReadPending(s) \/ Settle(s) \/ ReleaseSettled(s) \/ MarkSettled(s)
  \/ SettlerLost(s)

Next ==
  \/ \E m \in Match : MatchStep(m)
  \/ \E l \in LeaseId : LeaseStep(l)
  \/ \E s \in Settler : SettlerStep(s)

Spec == Init /\ [][Next]_vars

\* resultSweepTimer: the pending results are swept every two seconds, and each
\* pass goes on until it ends.
Fairness ==
  \A s \in Timer :
    /\ WF_vars(SweepResults(s)) /\ WF_vars(ReadPending(s))
    /\ WF_vars(Settle(s)) /\ WF_vars(ReleaseSettled(s)) /\ WF_vars(MarkSettled(s))

FairSpec == Spec /\ Fairness

-----------------------------------------------------------------------------
(* Properties *)

\* The shape of the tables, and of a settlement: one in progress has a match.
TypeOK ==
  /\ status \in [Match -> Status]
  /\ lease \in [LeaseId -> Lease]
  /\ fence \in 0..MaxLeases
  /\ aborting \subseteq LeaseId
  /\ result \in [Match -> Result]
  /\ arrivals \in Seq(Match)
  /\ rated \in [Match -> Nat]
  /\ incident \in [Match -> Incident]
  /\ allocation \in [Match -> Allocation] /\ cancelling \subseteq Match
  /\ expiry \in Expiry
  /\ job \in [Settler -> Job]
  /\ \A s \in Settler : Busy(job[s]) => job[s].todo # <<>>
  /\ crashes \in 0..MaxCrashes

\* Ratings and XP of a match are applied at most once, however often its result
\* is sent, however many processes settle it at once and wherever they stop.
SettledOnce == \A m \in Match : rated[m] <= 1

\* Ratings are applied from the canonical result alone, and never while a
\* conflicting result is on record: a conflict that commits between the read of
\* the result and its settlement blocks it.
ConflictBlocksSettlement ==
  [][\A m \in Match : rated'[m] > rated[m] => Pending(m)]_vars

MayBecome(from, to) ==
  /\ from = "cancelled" => to = "cancelled"
  /\ from = "completed" => to \in {"completed", "disputed"}
  /\ from = "disputed" => to \in {"disputed", "cancelled"}

\* What has ended stays ended: a cancelled match never changes again, a
\* completed one can only be disputed, and a disputed one only be cancelled.
EndsForGood == [][\A m \in Match : MayBecome(status[m], status'[m])]_vars

\* The server of a settled result is given back: a crash between settlement and
\* release leaves the result pending, so that the next attempt releases it.
SettledGivesServerBack ==
  \A m \in Match : result[m].status = "settled" =>
    ~Active(result[m].lease) /\ rated[m] = 1

\* Players of a failed match are not left without one: a remake that is over
\* has been given a server for the replacement, which replaces no other match;
\* without capacity the incident stays open to another attempt.
RemakeHasServer ==
  \A m \in Match : incident[m].action = "remake" =>
    LET r == incident[m].replacement IN
    /\ status[r] # "none"
    /\ \A n \in Match \ {m} : incident[n].replacement # r
    /\ incident[m].status = "resolved" => \E l \in LeaseId : lease[l].match = r

Deferred(m) ==
  Pending(m) /\ \E l \in LeaseId : lease[l] = [match |-> m, status |-> "expired"]

\* A result accepted before the lease of its live match expired is settled by
\* the timer although the node can no longer send it again, unless it waits
\* behind another one: a result that cannot be settled ends every pass.
DeferredIsSettled ==
  \A m \in Match :
    Deferred(m) /\ status[m] = "live" /\ (\A n \in Match \ {m} : ~Pending(n))
      ~> ~Pending(m) \/ status[m] # "live"
=============================================================================
