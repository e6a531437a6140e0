------------------------ MODULE MatchLifecycleProofs ------------------------
(***************************************************************************)
(* Proofs about MatchLifecycle, for any number of matches, leases,         *)
(* requests, timers and crashes.                                           *)
(***************************************************************************)
EXTENDS MatchLifecycle, TLAPS

-----------------------------------------------------------------------------
(* The inductive invariant *)

\* Fencing tokens are given out in order, each to one lease of one match.
LeaseShape ==
  \A l \in LeaseId :
    /\ lease[l].status = "none" <=> l > fence
    /\ lease[l].status = "none" <=> lease[l].match = NoMatch

\* Where a match that has been rated, or has conflicting results, can be.
StatusShape ==
  \A m \in Match :
    /\ status[m] \in {"none", "pending", "live"} =>
         rated[m] = 0 /\ result[m].status # "conflicting"
    /\ status[m] = "completed" => rated[m] = 1

\* A result names a lease that was granted.
ResultShape ==
  \A m \in Match : result[m].status # "none" => result[m].lease \in 1..fence

\* The list of results received, and what a settlement works on.
ArrivalShape ==
  \A i \in 1..Len(arrivals) : result[arrivals[i]].status # "none"

JobFits(s) ==
  /\ \A i \in 1..Len(job[s].todo) : result[job[s].todo[i]].status # "none"
  /\ job[s].pc \in {"release", "mark"} => rated[Head(job[s].todo)] = 1
  /\ job[s].pc = "mark" => ~Active(result[Head(job[s].todo)].lease)

JobShape == \A s \in Settler : JobFits(s)

\* An allocator that has a server: the lease is on record.
AllocationShape ==
  \A m \in Match : allocation[m] = "granted" =>
    \E l \in LeaseId : lease[l].match = m

\* Which incidents have a replacement, and the sweep's lease.
IncidentShape ==
  \A m \in Match :
    /\ incident[m].status = "none" => incident[m] = NoIncident
    /\ incident[m].status = "open" => incident[m].action = "none"
    /\ incident[m].status = "resolving" => incident[m].action = "remake"
    /\ incident[m].action = "remake" <=> incident[m].replacement # NoMatch

ExpiryShape ==
  expiry.lease \in LeaseId => lease[expiry.lease].status # "none"

IInv ==
  /\ TypeOK
  /\ LeaseShape /\ StatusShape /\ ResultShape /\ ArrivalShape /\ JobShape
  /\ AllocationShape /\ IncidentShape /\ ExpiryShape
  /\ SettledOnce /\ SettledGivesServerBack /\ RemakeHasServer

-----------------------------------------------------------------------------
(* Every step preserves it *)

\* No lease changes its match or becomes active again, no result its lease, and
\* no ratings are taken back.
LeasesKept ==
  \A l \in LeaseId : lease[l].status # "none" =>
    /\ lease'[l].match = lease[l].match
    /\ lease'[l].status # "none"
    /\ lease'[l].status = "active" => lease[l].status = "active"

ResultsKept ==
  \A m \in Match : result[m].status # "none" =>
    result'[m].status # "none" /\ result'[m].lease = result[m].lease

RatedKept == \A m \in Match : rated[m] = 1 => rated'[m] = 1

\* The lease of a result is an old one, and an old one is never active again.
LEMMA ResultLease ==
  ASSUME IInv, LeasesKept, ResultsKept, NEW m \in Match, result[m].status # "none"
  PROVE  /\ result[m].lease \in LeaseId
         /\ Active(result[m].lease)' => Active(result[m].lease)
  BY LifecycleAssumption
  DEF IInv, TypeOK, ResultShape, LeaseShape, LeasesKept, ResultsKept, LeaseId,
      Active

\* A settlement in progress has a match with a result.
LEMMA JobMatch ==
  ASSUME IInv, NEW s \in Settler
  PROVE  /\ job[s].todo \in Seq(Match)
         /\ job[s].todo # <<>> =>
              /\ Head(job[s].todo) \in Match
              /\ result[Head(job[s].todo)].status # "none"
         /\ Busy(job[s]) => job[s].todo # <<>>
<1>1. /\ job[s].todo \in Seq(Match)
      /\ Busy(job[s]) => job[s].todo # <<>>
  BY DEF IInv, TypeOK, Job
<1>2. JobFits(s)
  BY DEF IInv, JobShape
<1> QED
  BY <1>1, <1>2 DEF JobFits

\* What others do leaves a settlement in shape.
LEMMA JobsKept ==
  ASSUME IInv, LeasesKept, ResultsKept, RatedKept,
         NEW s \in Settler, job'[s] = job[s]
  PROVE  JobFits(s)'
<1> DEFINE todo == job[s].todo
<1>1. JobFits(s)
  BY DEF IInv, JobShape
<1>2. /\ todo \in Seq(Match)
      /\ Busy(job[s]) => Head(todo) \in Match /\ result[Head(todo)].status # "none"
  BY JobMatch
<1>3. \A i \in 1..Len(todo) : result'[todo[i]].status # "none"
  BY <1>1, <1>2 DEF JobFits, ResultsKept
<1>4. job[s].pc \in {"release", "mark"} => rated'[Head(todo)] = 1
  BY <1>1, <1>2 DEF JobFits, RatedKept, Busy
<1>5. job[s].pc = "mark" => ~Active(result[Head(todo)].lease)'
  BY <1>1, <1>2, ResultLease DEF JobFits, Busy, ResultsKept, Active
<1>6. job[s].pc = "mark" => result'[Head(todo)].lease = result[Head(todo)].lease
  BY <1>2 DEF ResultsKept, Busy
<1> QED
  BY <1>3, <1>4, <1>5, <1>6 DEF JobFits, Active

\* Granting, releasing or expiring a lease does not disturb settled results.
LEMMA LeasesKeptJobs ==
  ASSUME IInv, LeasesKept, fence' \in Nat, fence' >= fence,
         UNCHANGED <<result, rated, job>>
  PROVE  ResultShape' /\ JobShape' /\ SettledGivesServerBack'
<1>1. ResultsKept /\ RatedKept
  BY DEF ResultsKept, RatedKept
<1>2. ResultShape'
  BY DEF IInv, TypeOK, ResultShape
<1>3. SettledGivesServerBack'
  BY <1>1, ResultLease DEF IInv, SettledGivesServerBack, Active
<1>4. JobShape'
  BY <1>1, JobsKept DEF JobShape
<1> QED
  BY <1>2, <1>3, <1>4

\* A settler takes up another job.
LEMMA NewJob ==
  ASSUME IInv, NEW s \in Settler, NEW j \in Job, Busy(j) => j.todo # <<>>,
         job' = [job EXCEPT ![s] = j]
  PROVE  /\ job' \in [Settler -> Job]
         /\ \A t \in Settler : Busy(job'[t]) => job'[t].todo # <<>>
         /\ job'[s] = j
         /\ \A t \in Settler : t # s => job'[t] = job[t]
<1>1. job \in [Settler -> Job]
  BY DEF IInv, TypeOK
<1>2. /\ job' \in [Settler -> Job] /\ job'[s] = j
      /\ \A t \in Settler : t # s => job'[t] = job[t]
  BY <1>1
<1> QED
  BY <1>2 DEF IInv, TypeOK

\* An incident keeps its replacement, and is closed by a server for it.
IncidentsKept ==
  \A m \in Match :
    /\ incident'[m].replacement = incident[m].replacement
    /\ incident'[m].action = "remake" => incident[m].action = "remake"
    /\ incident'[m].action = "remake" /\ incident'[m].status = "resolved" =>
         \/ incident[m].status = "resolved"
         \/ \E l \in LeaseId : lease[l].match = incident[m].replacement

\* No match is forgotten and no lease loses its match: remakes keep their server.
LEMMA RemakesKept ==
  ASSUME IInv, LeasesKept, IncidentsKept,
         \A m \in Match : status[m] # "none" => status'[m] # "none"
  PROVE  RemakeHasServer'
<1> SUFFICES ASSUME NEW m \in Match, incident'[m].action = "remake"
             PROVE  LET r == incident'[m].replacement IN
                    /\ status'[r] # "none"
                    /\ \A n \in Match \ {m} : incident'[n].replacement # r
                    /\ incident'[m].status = "resolved" =>
                         \E l \in LeaseId : lease'[l].match = r
  BY DEF RemakeHasServer
<1> DEFINE r == incident[m].replacement
<1>1. r = incident'[m].replacement /\ incident[m].action = "remake"
  BY DEF IncidentsKept
<1>2. r \in Match
  BY <1>1 DEF IInv, TypeOK, Incident, IncidentShape
<1>3. /\ status[r] # "none"
      /\ \A n \in Match \ {m} : incident[n].replacement # r
      /\ incident[m].status = "resolved" => \E l \in LeaseId : lease[l].match = r
  BY <1>1 DEF IInv, RemakeHasServer
<1>4. ASSUME NEW l \in LeaseId, lease[l].match = r
      PROVE  lease'[l].match = r
  BY <1>2, <1>4, LifecycleAssumption DEF IInv, LeaseShape, LeasesKept
<1> QED
  BY <1>1, <1>2, <1>3, <1>4 DEF IncidentsKept

\* A lease fails, for either reason.
LEMMA QuarantineIInv ==
  ASSUME IInv, NEW l \in LeaseId, NEW read, Active(l), QuarantineLease(l, read),
         expiry' \in {expiry, NoExpiry}
  PROVE  IInv'
<1> DEFINE m == lease[l].match
<1>1. m \in Match
  BY LifecycleAssumption DEF IInv, TypeOK, LeaseShape, Lease, Active
<1>2. UNCHANGED <<fence, aborting, result, arrivals, rated, allocation,
                  cancelling, job, crashes>>
  BY DEF QuarantineLease, allocVars, jobVars
<1>3. /\ lease' \in [LeaseId -> Lease] /\ LeasesKept
      /\ \A k \in LeaseId : /\ lease'[k].match = lease[k].match
                            /\ lease'[k].status = "none" <=> lease[k].status = "none"
  BY DEF IInv, TypeOK, QuarantineLease, Lease, Active, LeasesKept
<1>4. status' \in [Match -> Status]
  BY DEF IInv, TypeOK, QuarantineLease, Status
<1>5. \A n \in Match :
        \/ status'[n] = status[n]
        \/ status[n] = "pending" /\ status'[n] = "cancelled"
        \/ status[n] = "live" /\ status'[n] = "disputed"
  BY DEF IInv, TypeOK, QuarantineLease, Status
<1>6. /\ incident' \in [Match -> Incident]
      /\ \A n \in Match : \/ incident'[n] = incident[n]
                          \/ /\ incident[n].status = "none"
                             /\ incident'[n] = [NoIncident EXCEPT !.status = "open"]
  BY DEF IInv, TypeOK, QuarantineLease, Incident, NoIncident
<1>7. expiry' \in Expiry
  <2>1. expiry \in Expiry
    BY DEF IInv, TypeOK
  <2>2. NoExpiry \in Expiry
    BY DEF Expiry, NoExpiry, Status
  <2> QED
    BY <2>1, <2>2
<1>8. TypeOK'
  BY <1>2, <1>3, <1>4, <1>6, <1>7 DEF IInv, TypeOK
<1>9. LeaseShape' /\ AllocationShape'
  BY <1>2, <1>3 DEF IInv, LeaseShape, AllocationShape
<1>10. ExpiryShape'
  BY <1>3, LifecycleAssumption DEF IInv, ExpiryShape, NoExpiry, LeaseId
<1>11. StatusShape' /\ ArrivalShape' /\ SettledOnce'
  BY <1>2, <1>5 DEF IInv, StatusShape, ArrivalShape, SettledOnce
<1>12. fence' \in Nat /\ fence' >= fence
  BY <1>2, LifecycleAssumption DEF IInv, TypeOK
<1>13. ResultShape' /\ JobShape' /\ SettledGivesServerBack'
  BY <1>2, <1>3, <1>12, LeasesKeptJobs
<1>14. IncidentShape' /\ IncidentsKept
  BY <1>6 DEF IInv, IncidentShape, NoIncident, IncidentsKept
<1>15. RemakeHasServer'
  BY <1>3, <1>5, <1>14, RemakesKept
<1> QED
  BY <1>8, <1>9, <1>10, <1>11, <1>13, <1>14, <1>15 DEF IInv

\* A settler's step from one stage to the next, and nothing else.
LEMMA JobChange ==
  ASSUME IInv, NEW s \in Settler, NEW j \in Job, Busy(j) => j.todo # <<>>,
         job' = [job EXCEPT ![s] = j],
         \A i \in 1..Len(j.todo) : result[j.todo[i]].status # "none",
         j.pc \in {"idle", "next", "settle"},
         crashes' \in 0..MaxCrashes,
         UNCHANGED <<status, lease, fence, aborting, result, arrivals, rated,
                     incident, allocation, cancelling, expiry>>
  PROVE  IInv'
<1>1. /\ job' \in [Settler -> Job]
      /\ \A t \in Settler : Busy(job'[t]) => job'[t].todo # <<>>
      /\ job'[s] = j
      /\ \A t \in Settler : t # s => job'[t] = job[t]
  BY NewJob
<1>2. TypeOK'
  BY <1>1 DEF IInv, TypeOK
<1>3. LeasesKept /\ ResultsKept /\ RatedKept
  BY DEF LeasesKept, ResultsKept, RatedKept
<1>4. JobFits(s)'
  BY <1>1 DEF JobFits
<1>5. JobShape'
  BY <1>1, <1>3, <1>4, JobsKept DEF JobShape
<1> QED
  BY <1>2, <1>5 DEF IInv, LeaseShape, StatusShape, ResultShape, ArrivalShape,
     AllocationShape, IncidentShape, ExpiryShape, SettledOnce,
     SettledGivesServerBack, RemakeHasServer, Active

LEMMA ReserveIInv ==
  ASSUME IInv, NEW m \in Match, Reserve(m)
  PROVE  IInv'
<1>1. TypeOK'
  BY DEF IInv, Reserve, TypeOK, allocVars, jobVars, Status
<1>2. StatusShape'
  BY DEF IInv, Reserve, StatusShape
<1>3. RemakeHasServer'
  BY DEF IInv, Reserve, RemakeHasServer
<1>4. /\ LeaseShape' /\ ResultShape' /\ ArrivalShape' /\ JobShape'
      /\ AllocationShape' /\ IncidentShape' /\ ExpiryShape' /\ SettledOnce'
      /\ SettledGivesServerBack'
  BY DEF IInv, Reserve, LeaseShape, ResultShape, ArrivalShape, JobShape,
         AllocationShape, IncidentShape, ExpiryShape, SettledOnce,
         SettledGivesServerBack, allocVars, jobVars, Active, JobFits
<1> QED
  BY <1>1, <1>2, <1>3, <1>4 DEF IInv

LEMMA StartAllocationIInv ==
  ASSUME IInv, NEW m \in Match, StartAllocation(m)
  PROVE  IInv'
<1>1. TypeOK'
  BY DEF IInv, StartAllocation, TypeOK, jobVars, Allocation
<1>2. AllocationShape'
  BY DEF IInv, StartAllocation, AllocationShape
<1>3. /\ LeaseShape' /\ StatusShape' /\ ResultShape' /\ ArrivalShape'
      /\ JobShape' /\ IncidentShape' /\ ExpiryShape' /\ SettledOnce'
      /\ SettledGivesServerBack' /\ RemakeHasServer'
  BY DEF IInv, StartAllocation, LeaseShape, StatusShape, ResultShape,
         ArrivalShape, JobShape, IncidentShape, ExpiryShape, SettledOnce,
         SettledGivesServerBack, RemakeHasServer, allocVars, jobVars, Active,
         JobFits
<1> QED
  BY <1>1, <1>2, <1>3 DEF IInv

LEMMA LeaseServerIInv ==
  ASSUME IInv, NEW m \in Match, LeaseServer(m)
  PROVE  IInv'
<1>1. CASE \E l \in LeaseId : Active(l) /\ lease[l].match = m
  <2>1. UNCHANGED <<status, lease, fence, aborting, result, arrivals, rated,
                    incident, cancelling, expiry, jobVars>>
    BY <1>1 DEF LeaseServer
  <2>2. TypeOK' /\ AllocationShape'
    BY <1>1, <2>1 DEF IInv, TypeOK, AllocationShape, LeaseServer, Allocation,
                      jobVars
  <2> QED
    BY <2>1, <2>2 DEF IInv, LeaseShape, StatusShape, ResultShape, ArrivalShape,
       JobShape, IncidentShape, ExpiryShape, SettledOnce,
       SettledGivesServerBack, RemakeHasServer, Active, JobFits, jobVars
<1>2. CASE ~\E l \in LeaseId : Active(l) /\ lease[l].match = m
  <2>1. /\ fence < MaxLeases /\ fence' = fence + 1
        /\ lease' = [lease EXCEPT ![fence + 1] =
                        [match |-> m, status |-> "active"]]
        /\ allocation' = [allocation EXCEPT ![m] = "granted"]
        /\ UNCHANGED <<status, aborting, result, arrivals, rated, incident,
                       cancelling, expiry, job, crashes>>
    BY <1>2 DEF LeaseServer, jobVars
  <2>2. fence \in Nat /\ fence + 1 \in LeaseId /\ fence' \in 0..MaxLeases
    BY <2>1, LifecycleAssumption DEF IInv, TypeOK, LeaseId
  <2>3. lease' \in [LeaseId -> Lease]
    BY <2>1, <2>2 DEF IInv, TypeOK, Lease
  <2>4. TypeOK'
    BY <2>1, <2>2, <2>3 DEF IInv, TypeOK, Allocation
  <2>5. /\ lease'[fence + 1] = [match |-> m, status |-> "active"]
        /\ \A l \in LeaseId : l # fence + 1 => lease'[l] = lease[l]
    BY <2>1, <2>2 DEF IInv, TypeOK
  <2>6. lease[fence + 1].status = "none"
    BY <2>2 DEF IInv, LeaseShape
  <2>7. LeaseShape'
    BY <2>1, <2>2, <2>5, LifecycleAssumption DEF IInv, LeaseShape, LeaseId
  <2>8. LeasesKept
    BY <2>5, <2>6 DEF LeasesKept
  <2>9. ResultShape' /\ JobShape' /\ SettledGivesServerBack'
    BY <2>1, <2>2, <2>8, LeasesKeptJobs DEF IInv
  <2>10. AllocationShape'
    <3> SUFFICES ASSUME NEW n \in Match, allocation'[n] = "granted"
                 PROVE  \E l \in LeaseId : lease'[l].match = n
      BY DEF AllocationShape
    <3>1. CASE n = m
      BY <2>2, <2>5, <3>1
    <3>2. CASE n # m
      <4>1. PICK l \in LeaseId : lease[l].match = n
        BY <2>1, <3>2 DEF IInv, TypeOK, AllocationShape
      <4>2. lease[l].status # "none"
        BY <4>1, LifecycleAssumption DEF IInv, LeaseShape
      <4> QED
        BY <2>8, <4>1, <4>2 DEF LeasesKept
    <3> QED
      BY <3>1, <3>2
  <2>11. ExpiryShape' /\ RemakeHasServer'
    BY <2>1, <2>8, RemakesKept DEF IInv, ExpiryShape, LeasesKept, IncidentsKept
  <2> QED
    BY <2>1, <2>4, <2>7, <2>9, <2>10, <2>11
    DEF IInv, StatusShape, ArrivalShape, IncidentShape, SettledOnce
<1> QED
  BY <1>1, <1>2

LEMMA AllocationEndsIInv ==
  ASSUME IInv, NEW m \in Match, AllocationEnds(m)
  PROVE  IInv'
<1>1. TypeOK'
  BY DEF IInv, AllocationEnds, TypeOK, jobVars, Allocation
<1>2. AllocationShape'
  BY DEF IInv, AllocationEnds, AllocationShape
<1>3. /\ LeaseShape' /\ StatusShape' /\ ResultShape' /\ ArrivalShape'
      /\ JobShape' /\ IncidentShape' /\ ExpiryShape' /\ SettledOnce'
      /\ SettledGivesServerBack' /\ RemakeHasServer'
  BY DEF IInv, AllocationEnds, LeaseShape, StatusShape, ResultShape,
         ArrivalShape, JobShape, IncidentShape, ExpiryShape, SettledOnce,
         SettledGivesServerBack, RemakeHasServer, allocVars, jobVars, Active,
         JobFits
<1> QED
  BY <1>1, <1>2, <1>3 DEF IInv

LEMMA ReleaseReservationIInv ==
  ASSUME IInv, NEW m \in Match, ReleaseReservation(m)
  PROVE  IInv'
<1>1. /\ cancelling' = cancelling \cup {m}
      /\ UNCHANGED <<status, fence, aborting, result, arrivals, rated, incident,
                     allocation, expiry, job, crashes>>
  BY DEF ReleaseReservation, jobVars
<1>2. /\ lease' \in [LeaseId -> Lease] /\ LeasesKept
      /\ \A k \in LeaseId : /\ lease'[k].match = lease[k].match
                            /\ lease'[k].status = "none" <=> lease[k].status = "none"
  BY DEF IInv, TypeOK, ReleaseReservation, Lease, Active, LeasesKept
<1>3. TypeOK'
  BY <1>1, <1>2 DEF IInv, TypeOK
<1>4. LeaseShape' /\ AllocationShape' /\ ExpiryShape'
  BY <1>1, <1>2 DEF IInv, LeaseShape, AllocationShape, ExpiryShape
<1>5. fence' \in Nat /\ fence' >= fence
  BY <1>1, LifecycleAssumption DEF IInv, TypeOK
<1>6. ResultShape' /\ JobShape' /\ SettledGivesServerBack'
  BY <1>1, <1>2, <1>5, LeasesKeptJobs
<1>7. RemakeHasServer'
  BY <1>1, <1>2, RemakesKept DEF IncidentsKept
<1> QED
  BY <1>1, <1>3, <1>4, <1>6, <1>7
  DEF IInv, StatusShape, ArrivalShape, IncidentShape, SettledOnce

LEMMA CancelReservationIInv ==
  ASSUME IInv, NEW m \in Match, CancelReservation(m)
  PROVE  IInv'
<1>1. TypeOK'
  BY DEF IInv, CancelReservation, TypeOK, jobVars, Status
<1>2. StatusShape'
  BY DEF IInv, CancelReservation, StatusShape
<1>3. RemakeHasServer'
  BY DEF IInv, CancelReservation, RemakeHasServer
<1>4. /\ LeaseShape' /\ ResultShape' /\ ArrivalShape' /\ JobShape'
      /\ AllocationShape' /\ IncidentShape' /\ ExpiryShape' /\ SettledOnce'
      /\ SettledGivesServerBack'
  BY DEF IInv, CancelReservation, LeaseShape, ResultShape, ArrivalShape,
         JobShape, AllocationShape, IncidentShape, ExpiryShape, SettledOnce,
         SettledGivesServerBack, allocVars, jobVars, Active, JobFits
<1> QED
  BY <1>1, <1>2, <1>3, <1>4 DEF IInv

LEMMA GoLiveIInv ==
  ASSUME IInv, NEW l \in LeaseId, GoLive(l)
  PROVE  IInv'
<1>1. TypeOK'
  BY DEF IInv, GoLive, TypeOK, allocVars, jobVars, Status
<1>2. StatusShape'
  BY DEF IInv, GoLive, StatusShape
<1>3. RemakeHasServer'
  BY DEF IInv, GoLive, RemakeHasServer
<1>4. /\ LeaseShape' /\ ResultShape' /\ ArrivalShape' /\ JobShape'
      /\ AllocationShape' /\ IncidentShape' /\ ExpiryShape' /\ SettledOnce'
      /\ SettledGivesServerBack'
  BY DEF IInv, GoLive, LeaseShape, ResultShape, ArrivalShape, JobShape,
         AllocationShape, IncidentShape, ExpiryShape, SettledOnce,
         SettledGivesServerBack, allocVars, jobVars, Active, JobFits
<1> QED
  BY <1>1, <1>2, <1>3, <1>4 DEF IInv

LEMMA AbortIInv ==
  ASSUME IInv, NEW l \in LeaseId, Abort(l)
  PROVE  IInv'
<1>1. TypeOK'
  BY DEF IInv, Abort, TypeOK, allocVars, jobVars, Status
<1>2. StatusShape'
  BY DEF IInv, Abort, StatusShape
<1>3. RemakeHasServer'
  BY DEF IInv, Abort, RemakeHasServer
<1>4. /\ LeaseShape' /\ ResultShape' /\ ArrivalShape' /\ JobShape'
      /\ AllocationShape' /\ IncidentShape' /\ ExpiryShape' /\ SettledOnce'
      /\ SettledGivesServerBack'
  BY DEF IInv, Abort, LeaseShape, ResultShape, ArrivalShape, JobShape,
         AllocationShape, IncidentShape, ExpiryShape, SettledOnce,
         SettledGivesServerBack, allocVars, jobVars, Active, JobFits
<1> QED
  BY <1>1, <1>2, <1>3, <1>4 DEF IInv

LEMMA AbortReleasesIInv ==
  ASSUME IInv, NEW l \in LeaseId, AbortReleases(l)
  PROVE  IInv'
<1>1. TypeOK'
  BY LifecycleAssumption DEF IInv, AbortReleases, TypeOK, Released, allocVars,
         jobVars, Lease
<1>2. LeaseShape'
  BY DEF IInv, AbortReleases, LeaseShape, Released, Active
<1>3. JobShape'
  BY DEF IInv, AbortReleases, JobShape, Released, Active, jobVars, JobFits
<1>4. AllocationShape'
  BY DEF IInv, AbortReleases, AllocationShape, Released, allocVars
<1>5. ExpiryShape'
  BY DEF IInv, AbortReleases, ExpiryShape, Released
<1>6. SettledGivesServerBack'
  BY DEF IInv, AbortReleases, SettledGivesServerBack, Released, Active
<1>7. RemakeHasServer'
  BY DEF IInv, AbortReleases, RemakeHasServer, Released
<1>8. /\ StatusShape' /\ ResultShape' /\ ArrivalShape' /\ IncidentShape'
      /\ SettledOnce'
  BY DEF IInv, AbortReleases, StatusShape, ResultShape, ArrivalShape,
         IncidentShape, SettledOnce, allocVars, jobVars
<1> QED
  BY <1>1, <1>2, <1>3, <1>4, <1>5, <1>6, <1>7, <1>8 DEF IInv

LEMMA ConflictIInv ==
  ASSUME IInv, NEW l \in LeaseId, Conflict(l)
  PROVE  IInv'
<1>1. TypeOK'
  BY DEF IInv, Conflict, TypeOK, Disputed, allocVars, jobVars, Status
<1>2. StatusShape'
  BY DEF IInv, Conflict, StatusShape, Disputed
<1>3. RemakeHasServer'
  BY DEF IInv, Conflict, RemakeHasServer, Disputed
<1>4. /\ LeaseShape' /\ ResultShape' /\ ArrivalShape' /\ JobShape'
      /\ AllocationShape' /\ IncidentShape' /\ ExpiryShape' /\ SettledOnce'
      /\ SettledGivesServerBack'
  BY DEF IInv, Conflict, LeaseShape, ResultShape, ArrivalShape, JobShape,
         AllocationShape, IncidentShape, ExpiryShape, SettledOnce,
         SettledGivesServerBack, allocVars, jobVars, Active, JobFits
<1> QED
  BY <1>1, <1>2, <1>3, <1>4 DEF IInv

LEMMA SubmitResultIInv ==
  ASSUME IInv, NEW s \in Settler, NEW l \in LeaseId, NEW c \in Checksum,
         SubmitResult(s, l, c)
  PROVE  IInv'
<1> DEFINE m == lease[l].match
<1> DEFINE first == result[m].status = "none"
<1> DEFINE agrees == first \/ (result[m].lease = l /\ result[m].checksum = c)
<1>1. m \in Match /\ l \in 1..fence
  BY LifecycleAssumption
  DEF IInv, TypeOK, SubmitResult, Authority, LeaseShape, Lease, LeaseId
<1>2. UNCHANGED <<lease, fence, aborting, rated, incident, allocation,
                  cancelling, expiry, crashes>>
  BY DEF SubmitResult, allocVars
<1>3. AllocationShape' /\ IncidentShape' /\ ExpiryShape' /\ SettledOnce'
        /\ LeaseShape' /\ LeasesKept /\ RatedKept
  BY <1>2 DEF IInv, AllocationShape, IncidentShape, ExpiryShape, SettledOnce,
              LeaseShape, LeasesKept, RatedKept
<1>4. /\ result \in [Match -> Result] /\ arrivals \in Seq(Match)
      /\ job \in [Settler -> Job]
  BY DEF IInv, TypeOK
<1>5. CASE ~agrees
  <2>1. /\ result' = [result EXCEPT ![m].status = "conflicting"]
        /\ status' = Disputed(m) /\ arrivals' = arrivals /\ job' = job
    BY <1>5 DEF SubmitResult, Contradict
  <2>2. status' \in [Match -> Status] /\ result' \in [Match -> Result]
    BY <1>1, <2>1 DEF IInv, TypeOK, Disputed, Status, Result
  <2>3. TypeOK'
    BY <1>2, <2>1, <2>2 DEF IInv, TypeOK
  <2>4. /\ status'[m] \in {"disputed", "cancelled"}
        /\ result'[m].status = "conflicting" /\ result'[m].lease = result[m].lease
        /\ \A n \in Match : n # m =>
             status'[n] = status[n] /\ result'[n] = result[n]
        /\ \A n \in Match : status[n] # "none" => status'[n] # "none"
    BY <1>1, <2>1 DEF IInv, TypeOK, Disputed, Result
  <2>5. result[m].status # "none" /\ ResultsKept
    BY <1>5, <2>4 DEF ResultsKept
  <2>6. StatusShape' /\ ResultShape' /\ SettledGivesServerBack'
    BY <1>1, <1>2, <2>4, <2>5
    DEF IInv, StatusShape, ResultShape, SettledGivesServerBack, Active
  <2>7. ArrivalShape'
    BY <1>1, <2>1, <2>4 DEF IInv, TypeOK, ArrivalShape
  <2>8. JobShape'
    BY <1>3, <2>1, <2>5, JobsKept DEF JobShape
  <2>9. RemakeHasServer'
    BY <1>2, <1>3, <2>4, RemakesKept DEF IncidentsKept
  <2> QED
    BY <1>3, <2>3, <2>6, <2>7, <2>8, <2>9 DEF IInv
<1>6. CASE agrees
  <2>1. status' = status
    BY <1>6 DEF SubmitResult
  <2>2. /\ result' \in [Match -> Result] /\ arrivals' \in Seq(Match)
        /\ result'[m].status # "none"
        /\ \A n \in Match : n # m => result'[n] = result[n]
        /\ \/ result'[m] = result[m]
           \/ result'[m].status = "pending" /\ result'[m].lease = l
        /\ \A i \in 1..Len(arrivals') :
             \/ arrivals'[i] = m
             \/ i \in 1..Len(arrivals) /\ arrivals'[i] = arrivals[i]
    <3>1. CASE first
      <4>1. /\ arrivals' = Append(arrivals, m)
            /\ result' = [result EXCEPT ![m] =
                 [status |-> "pending", lease |-> l, checksum |-> c]]
        BY <1>6, <3>1 DEF SubmitResult
      <4>2. [status |-> "pending", lease |-> l, checksum |-> c] \in Result
        BY DEF Result
      <4>3. arrivals' \in Seq(Match) /\ Len(arrivals') = Len(arrivals) + 1
        BY <1>1, <1>4, <4>1
      <4>4. \A i \in 1..Len(arrivals') :
              \/ arrivals'[i] = m
              \/ i \in 1..Len(arrivals) /\ arrivals'[i] = arrivals[i]
        BY <1>1, <1>4, <4>1
      <4>5. /\ result' \in [Match -> Result]
            /\ result'[m] = [status |-> "pending", lease |-> l, checksum |-> c]
            /\ \A n \in Match : n # m => result'[n] = result[n]
        BY <1>1, <1>4, <4>1, <4>2
      <4> QED
        BY <4>3, <4>4, <4>5
    <3>2. CASE ~first
      <4>1. result' = result /\ arrivals' = arrivals
        BY <1>6, <3>2 DEF SubmitResult
      <4> QED
        BY <1>1, <1>4, <3>2, <4>1
    <3> QED
      BY <3>1, <3>2
  <2>3. result[m].status # "none" => result'[m] = result[m]
    BY <1>6 DEF SubmitResult
  <2>4. ResultsKept
    BY <2>2, <2>3 DEF ResultsKept
  <2>5. /\ job' \in [Settler -> Job]
        /\ \A t \in Settler : Busy(job'[t]) => job'[t].todo # <<>>
        /\ \A t \in Settler :
             job'[t] = job[t] \/ job'[t] = [pc |-> "next", todo |-> <<m>>]
    <3> DEFINE j == [pc |-> "next", todo |-> <<m>>]
    <3>1. CASE job' = job
      BY <1>4, <3>1 DEF IInv, TypeOK
    <3>2. CASE job' = [job EXCEPT ![s] = j]
      <4>1. j \in Job /\ ~Busy(j)
        BY <1>1 DEF Job, Busy
      <4> QED
        BY <3>2, <4>1, NewJob
    <3> QED
      BY <3>1, <3>2 DEF SubmitResult
  <2>6. TypeOK'
    BY <1>2, <2>1, <2>2, <2>5 DEF IInv, TypeOK
  <2>7. StatusShape' /\ ResultShape' /\ SettledGivesServerBack'
    BY <1>1, <1>2, <2>1, <2>2
    DEF IInv, StatusShape, ResultShape, SettledGivesServerBack, Active
  <2>8. ArrivalShape'
    BY <1>4, <2>2, <2>4 DEF IInv, ArrivalShape, ResultsKept
  <2>9. JobShape'
    <3> SUFFICES ASSUME NEW t \in Settler PROVE JobFits(t)'
      BY DEF JobShape
    <3>1. CASE job'[t] = job[t]
      BY <1>3, <2>4, <3>1, JobsKept
    <3>2. CASE job'[t] = [pc |-> "next", todo |-> <<m>>]
      BY <2>2, <3>2 DEF JobFits
    <3> QED
      BY <2>5, <3>1, <3>2
  <2>10. RemakeHasServer'
    BY <1>2, <2>1 DEF IInv, RemakeHasServer
  <2> QED
    BY <1>3, <2>6, <2>7, <2>8, <2>9, <2>10 DEF IInv
<1> QED
  BY <1>5, <1>6

LEMMA SweepResultsIInv ==
  ASSUME IInv, NEW s \in Settler, SweepResults(s)
  PROVE  IInv'
<1> DEFINE j == [pc |-> "next", todo |-> arrivals]
<1>1. j \in Job /\ ~Busy(j) /\ crashes \in 0..MaxCrashes
  BY DEF IInv, TypeOK, Job, Busy
<1>2. \A i \in 1..Len(j.todo) : result[j.todo[i]].status # "none"
  BY DEF IInv, ArrivalShape
<1> QED
  BY <1>1, <1>2, JobChange DEF SweepResults, allocVars

LEMMA ReadPendingIInv ==
  ASSUME IInv, NEW s \in Settler, ReadPending(s)
  PROVE  IInv'
<1> DEFINE todo == job[s].todo
<1> DEFINE j == CASE todo = <<>> -> NoJob
                  [] todo # <<>> /\ Pending(Head(todo)) -> [job[s] EXCEPT !.pc = "settle"]
                  [] OTHER -> [job[s] EXCEPT !.todo = Tail(todo)]
<1>1. /\ job' = [job EXCEPT ![s] = j]
      /\ job[s].pc = "next"
      /\ UNCHANGED <<status, lease, fence, aborting, result, arrivals, rated,
                     incident, allocation, cancelling, expiry, crashes>>
  BY DEF ReadPending, allocVars
<1>2. job[s] \in Job /\ todo \in Seq(Match) /\ JobFits(s)
  BY JobMatch DEF IInv, TypeOK, JobShape
<1>3. \/ j = NoJob
      \/ todo # <<>> /\ j = [job[s] EXCEPT !.pc = "settle"]
      \/ todo # <<>> /\ j = [job[s] EXCEPT !.todo = Tail(todo)]
  OBVIOUS
<1>4. /\ j \in Job
      /\ Busy(j) => j.todo # <<>>
      /\ j.pc \in {"idle", "next", "settle"}
      /\ \A i \in 1..Len(j.todo) : result[j.todo[i]].status # "none"
  <2> HIDE DEF j
  <2>1. CASE j = NoJob
    BY <2>1 DEF NoJob, Job, Busy
  <2>2. CASE todo # <<>> /\ j = [job[s] EXCEPT !.pc = "settle"]
    BY <1>2, <2>2 DEF Job, Busy, JobFits
  <2>3. CASE todo # <<>> /\ j = [job[s] EXCEPT !.todo = Tail(todo)]
    <3>1. /\ Tail(todo) \in Seq(Match) /\ Len(Tail(todo)) = Len(todo) - 1
          /\ \A i \in 1..Len(Tail(todo)) : Tail(todo)[i] = todo[i + 1]
      BY <1>2, <2>3
    <3>2. j.todo = Tail(todo) /\ j.pc = "next" /\ j \in Job
      BY <1>1, <1>2, <2>3, <3>1 DEF Job
    <3>3. \A i \in 1..Len(Tail(todo)) : i + 1 \in 1..Len(todo)
      BY <1>2, <2>3, <3>1
    <3> QED
      BY <1>2, <3>1, <3>2, <3>3 DEF JobFits, Busy
  <2> QED
    BY <1>3, <2>1, <2>2, <2>3
<1> HIDE DEF j
<1>5. crashes' \in 0..MaxCrashes
  BY <1>1 DEF IInv, TypeOK
<1> QED
  BY <1>1, <1>4, <1>5, JobChange

LEMMA SettleIInv ==
  ASSUME IInv, NEW s \in Settler, Settle(s)
  PROVE  IInv'
<1> DEFINE m == Head(job[s].todo)
<1> DEFINE j == IF status[m] \in {"live", "completed"}
                THEN [job[s] EXCEPT !.pc = "release"] ELSE NoJob
<1>1. /\ job[s] \in Job /\ job[s].todo # <<>> /\ m \in Match
      /\ JobFits(s) /\ job[s].todo \in Seq(Match)
  BY JobMatch DEF IInv, TypeOK, JobShape, Settle, Busy
<1>2. /\ job' = [job EXCEPT ![s] = j]
      /\ UNCHANGED <<lease, fence, aborting, result, arrivals, incident,
                     allocation, cancelling, expiry, crashes>>
  BY DEF Settle, allocVars
<1>3. /\ j \in Job /\ (Busy(j) => j.todo # <<>>)
      /\ j = NoJob \/ j = [pc |-> "release", todo |-> job[s].todo]
  BY <1>1 DEF NoJob, Job, Busy
<1>4. /\ rated' \in [Match -> Nat] /\ status' \in [Match -> Status]
      /\ \A n \in Match : n # m => rated'[n] = rated[n] /\ status'[n] = status[n]
      /\ rated'[m] = IF status[m] = "live" THEN rated[m] + 1 ELSE rated[m]
      /\ status'[m] = IF status[m] = "live" THEN "completed" ELSE status[m]
  BY <1>1 DEF IInv, TypeOK, Settle, Status
<1>5. /\ job' \in [Settler -> Job]
      /\ \A t \in Settler : Busy(job'[t]) => job'[t].todo # <<>>
      /\ job'[s] = j
      /\ \A t \in Settler : t # s => job'[t] = job[t]
  <2> HIDE DEF j
  <2> QED
    BY <1>2, <1>3, NewJob
<1>6. TypeOK'
  BY <1>2, <1>4, <1>5 DEF IInv, TypeOK
<1>7. rated[m] \in {0, 1} /\ (status[m] = "live" => rated[m] = 0)
  <2>1. rated[m] \in Nat /\ rated[m] <= 1
    BY <1>1 DEF IInv, TypeOK, SettledOnce
  <2>2. status[m] = "live" => rated[m] = 0
    BY <1>1 DEF IInv, StatusShape
  <2> QED
    BY <2>1, <2>2
<1>8. /\ LeasesKept /\ ResultsKept /\ RatedKept
      /\ \A n \in Match : status[n] # "none" => status'[n] # "none"
  BY <1>1, <1>2, <1>4, <1>7 DEF LeasesKept, ResultsKept, RatedKept
<1>9. status[m] \in {"live", "completed"} => rated'[m] = 1
  BY <1>1, <1>4, <1>7 DEF IInv, StatusShape
<1>10. StatusShape' /\ SettledOnce'
  <2>1. \A n \in Match \ {m} : StatusShape!(n)' /\ rated'[n] <= 1
    BY <1>2, <1>4 DEF IInv, StatusShape, SettledOnce
  <2>2. rated'[m] <= 1
    BY <1>4, <1>7
  <2>3. /\ status'[m] \in {"none", "pending", "live"} =>
             rated'[m] = 0 /\ result'[m].status # "conflicting"
        /\ status'[m] = "completed" => rated'[m] = 1
    <3>1. CASE status[m] = "live"
      BY <1>4, <1>7, <3>1
    <3>2. CASE status[m] # "live"
      BY <1>1, <1>2, <1>4, <3>2 DEF IInv, StatusShape
    <3> QED
      BY <3>1, <3>2
  <2> QED
    BY <2>1, <2>2, <2>3 DEF StatusShape, SettledOnce
<1>11. JobFits(s)'
  BY <1>1, <1>2, <1>5, <1>9 DEF JobFits, NoJob
<1>12. JobShape'
  BY <1>5, <1>8, <1>11, JobsKept DEF JobShape
<1>13. SettledGivesServerBack'
  BY <1>2, <1>8 DEF IInv, SettledGivesServerBack, RatedKept, Active
<1>14. RemakeHasServer'
  BY <1>2, <1>8, RemakesKept DEF IncidentsKept
<1> QED
  BY <1>2, <1>6, <1>10, <1>12, <1>13, <1>14
  DEF IInv, LeaseShape, ResultShape, ArrivalShape, AllocationShape,
      IncidentShape, ExpiryShape

\* What the release of a server leaves of the leases.
LEMMA ReleasedKeeps ==
  ASSUME IInv, NEW l \in LeaseId, lease' = Released(l)
  PROVE  /\ lease' \in [LeaseId -> Lease] /\ LeasesKept
         /\ \A k \in LeaseId : /\ lease'[k].match = lease[k].match
                               /\ lease'[k].status = "none" <=> lease[k].status = "none"
         /\ lease'[l].status # "active"
<1>. DEFINE row == [lease[l] EXCEPT !.status = "released"]
<1>1. lease \in [LeaseId -> Lease] /\ lease[l] \in Lease
  BY DEF IInv, TypeOK
<1>2. row \in Lease /\ row.match = lease[l].match /\ row.status = "released"
  BY <1>1 DEF Lease
<1>3. CASE Active(l)
  <2>1. lease' = [lease EXCEPT ![l] = row] /\ lease[l].status = "active"
    BY <1>3 DEF Released, Active
  <2>. HIDE DEF row
  <2>2. \A k \in LeaseId : lease'[k] = IF k = l THEN row ELSE lease[k]
    BY <1>1, <2>1
  <2>3. lease' \in [LeaseId -> Lease]
    BY <1>1, <1>2, <2>1
  <2>. QED
    BY <1>2, <2>1, <2>2, <2>3 DEF LeasesKept
<1>4. CASE ~Active(l)
  BY <1>1, <1>4 DEF Released, LeasesKept, Active
<1>. QED
  BY <1>3, <1>4

LEMMA ReleaseSettledIInv ==
  ASSUME IInv, NEW s \in Settler, ReleaseSettled(s)
  PROVE  IInv'
<1> DEFINE m == Head(job[s].todo)
<1> DEFINE j == [job[s] EXCEPT !.pc = "mark"]
<1>1. /\ job[s] \in Job /\ job[s].todo # <<>> /\ m \in Match
      /\ JobFits(s) /\ job[s].todo \in Seq(Match) /\ result[m].status # "none"
  BY JobMatch DEF IInv, TypeOK, JobShape, ReleaseSettled, Busy
<1>2. /\ job[s].pc = "release" /\ lease' = Released(result[m].lease)
      /\ UNCHANGED <<status, fence, aborting, result, arrivals, rated, incident,
                     allocation, cancelling, expiry, crashes>>
  BY DEF ReleaseSettled, allocVars
<1>3. job' = [job EXCEPT ![s] = j]
  BY DEF ReleaseSettled, IInv, TypeOK
<1>4. j \in Job /\ j = [pc |-> "mark", todo |-> job[s].todo]
  BY <1>1 DEF Job
<1>5. /\ job' \in [Settler -> Job]
      /\ \A t \in Settler : Busy(job'[t]) => job'[t].todo # <<>>
      /\ job'[s] = j
      /\ \A t \in Settler : t # s => job'[t] = job[t]
  <2> HIDE DEF j
  <2> QED
    BY <1>1, <1>3, <1>4, NewJob
<1>6. result[m].lease \in LeaseId
  BY <1>1, LifecycleAssumption DEF IInv, TypeOK, ResultShape, LeaseId
<1>7. /\ lease' \in [LeaseId -> Lease] /\ LeasesKept
      /\ \A k \in LeaseId : /\ lease'[k].match = lease[k].match
                            /\ lease'[k].status = "none" <=> lease[k].status = "none"
      /\ lease'[result[m].lease].status # "active"
  BY <1>2, <1>6, ReleasedKeeps
<1>8. TypeOK'
  BY <1>2, <1>5, <1>7 DEF IInv, TypeOK
<1>9. LeaseShape' /\ AllocationShape' /\ ExpiryShape'
  <2>1. LeaseShape'
    BY <1>2, <1>7 DEF IInv, LeaseShape
  <2>2. AllocationShape'
    <3> SUFFICES ASSUME NEW n \in Match, allocation'[n] = "granted"
        PROVE  \E l \in LeaseId : lease'[l].match = n
      BY DEF AllocationShape
    <3>1. PICK l \in LeaseId : lease[l].match = n
      BY <1>2 DEF IInv, AllocationShape
    <3>. QED
      BY <1>7, <3>1
  <2>3. ExpiryShape'
    BY <1>2, <1>7 DEF IInv, ExpiryShape
  <2>. QED
    BY <2>1, <2>2, <2>3
<1>10. ResultsKept /\ RatedKept
  BY <1>2 DEF ResultsKept, RatedKept
<1>11. JobFits(s)'
  <2>1. job'[s].todo = job[s].todo /\ job'[s].pc = "mark"
    BY <1>4, <1>5
  <2>2. rated'[m] = 1 /\ lease'[result'[m].lease].status # "active"
    BY <1>1, <1>2, <1>7 DEF JobFits
  <2>3. \A i \in 1..Len(job[s].todo) : result'[job[s].todo[i]].status # "none"
    BY <1>1, <1>2 DEF JobFits
  <2> QED
    BY <1>2, <2>1, <2>2, <2>3 DEF JobFits, Active
<1>12. JobShape'
  BY <1>5, <1>7, <1>10, <1>11, JobsKept DEF JobShape
<1>13. SettledGivesServerBack'
  BY <1>2, <1>7, <1>10, ResultLease DEF IInv, SettledGivesServerBack, Active
<1>14. RemakeHasServer'
  BY <1>2, <1>7, RemakesKept DEF IncidentsKept
<1> QED
  BY <1>2, <1>8, <1>9, <1>12, <1>13, <1>14
  DEF IInv, StatusShape, ResultShape, ArrivalShape, IncidentShape, SettledOnce

LEMMA MarkSettledIInv ==
  ASSUME IInv, NEW s \in Settler, MarkSettled(s)
  PROVE  IInv'
<1> DEFINE todo == job[s].todo
<1> DEFINE m == Head(todo)
<1> DEFINE j == [pc |-> "next", todo |-> Tail(todo)]
<1>1. /\ job[s] \in Job /\ todo # <<>> /\ m \in Match
      /\ JobFits(s) /\ todo \in Seq(Match) /\ result[m].status # "none"
  BY JobMatch DEF IInv, TypeOK, JobShape, MarkSettled, Busy
<1>2. /\ job[s].pc = "mark"
      /\ result' = [result EXCEPT ![m].status = IF Pending(m) THEN "settled" ELSE @]
      /\ UNCHANGED <<status, lease, fence, aborting, arrivals, rated, incident,
                     allocation, cancelling, expiry, crashes>>
  BY DEF MarkSettled, allocVars
<1>3. job' = [job EXCEPT ![s] = j]
  BY DEF MarkSettled, IInv, TypeOK
<1>4. j \in Job /\ ~Busy(j) /\ j.todo = Tail(todo) /\ j.pc = "next"
  BY <1>1 DEF Job, Busy
<1>5. /\ job' \in [Settler -> Job]
      /\ \A t \in Settler : Busy(job'[t]) => job'[t].todo # <<>>
      /\ job'[s] = j
      /\ \A t \in Settler : t # s => job'[t] = job[t]
  <2> HIDE DEF j
  <2> QED
    BY <1>1, <1>3, <1>4, NewJob
<1>6. /\ result' \in [Match -> Result]
      /\ \A n \in Match : n # m => result'[n] = result[n]
      /\ result'[m].lease = result[m].lease
      /\ result'[m].status \in {result[m].status, "settled"}
  BY <1>1, <1>2 DEF IInv, TypeOK, Result
<1>7. TypeOK'
  BY <1>2, <1>5, <1>6 DEF IInv, TypeOK
<1>8. LeasesKept /\ ResultsKept /\ RatedKept
  BY <1>1, <1>2, <1>6 DEF LeasesKept, ResultsKept, RatedKept
<1>9. rated[m] = 1 /\ ~Active(result[m].lease)
  BY <1>1, <1>2 DEF JobFits
<1>10. StatusShape' /\ ResultShape' /\ SettledGivesServerBack'
  BY <1>1, <1>2, <1>6, <1>9
  DEF IInv, StatusShape, ResultShape, SettledGivesServerBack, Active
<1>11. ArrivalShape'
  BY <1>2, <1>8 DEF IInv, TypeOK, ArrivalShape, ResultsKept
<1>12. JobFits(s)'
  <2>1. /\ Tail(todo) \in Seq(Match) /\ Len(Tail(todo)) = Len(todo) - 1
        /\ \A i \in 1..Len(Tail(todo)) : Tail(todo)[i] = todo[i + 1]
    BY <1>1
  <2>2. \A i \in 1..Len(Tail(todo)) : i + 1 \in 1..Len(todo)
    BY <1>1, <2>1
  <2>3. \A i \in 1..Len(Tail(todo)) : result'[Tail(todo)[i]].status # "none"
    BY <1>1, <1>8, <2>1, <2>2 DEF JobFits, ResultsKept
  <2> QED
    BY <1>4, <1>5, <2>3 DEF JobFits
<1>13. JobShape'
  BY <1>5, <1>8, <1>12, JobsKept DEF JobShape
<1> QED
  BY <1>2, <1>7, <1>10, <1>11, <1>13
  DEF IInv, LeaseShape, AllocationShape, IncidentShape, ExpiryShape,
      SettledOnce, RemakeHasServer

LEMMA SettlerLostIInv ==
  ASSUME IInv, NEW s \in Settler, SettlerLost(s)
  PROVE  IInv'
<1>1. NoJob \in Job /\ ~Busy(NoJob) /\ NoJob.pc = "idle" /\ Len(NoJob.todo) = 0
  BY DEF NoJob, Job, Busy
<1>2. crashes' \in 0..MaxCrashes
  BY LifecycleAssumption DEF IInv, TypeOK, SettlerLost
<1>3. \A i \in 1..Len(NoJob.todo) : result[NoJob.todo[i]].status # "none"
  BY <1>1
<1>4. job' = [job EXCEPT ![s] = NoJob]
      /\ UNCHANGED <<status, lease, fence, aborting, result, arrivals, rated,
                     incident, allocation, cancelling, expiry>>
  BY DEF SettlerLost, allocVars
<1> QED
  BY <1>1, <1>2, <1>3, <1>4, JobChange

LEMMA LeaseLapsesIInv ==
  ASSUME IInv, NEW l \in LeaseId, LeaseLapses(l)
  PROVE  IInv'
<1>1. TypeOK'
  BY DEF IInv, LeaseLapses, TypeOK, allocVars, jobVars, Lease
<1>2. LeaseShape'
  BY DEF IInv, LeaseLapses, LeaseShape
<1>3. JobShape'
  BY DEF IInv, LeaseLapses, JobShape, jobVars, Active, JobFits
<1>4. AllocationShape'
  BY DEF IInv, LeaseLapses, AllocationShape, allocVars
<1>5. ExpiryShape'
  BY DEF IInv, LeaseLapses, ExpiryShape
<1>6. SettledGivesServerBack'
  BY DEF IInv, LeaseLapses, SettledGivesServerBack, Active
<1>7. RemakeHasServer'
  BY DEF IInv, LeaseLapses, RemakeHasServer
<1>8. /\ StatusShape' /\ ResultShape' /\ ArrivalShape' /\ IncidentShape'
      /\ SettledOnce'
  BY DEF IInv, LeaseLapses, StatusShape, ResultShape, ArrivalShape,
         IncidentShape, SettledOnce, allocVars, jobVars
<1> QED
  BY <1>1, <1>2, <1>3, <1>4, <1>5, <1>6, <1>7, <1>8 DEF IInv

LEMMA ReadExpiredIInv ==
  ASSUME IInv, NEW l \in LeaseId, ReadExpired(l)
  PROVE  IInv'
<1> DEFINE m == lease[l].match
<1>1. m \in Match /\ lease[l].status # "none"
  BY DEF IInv, TypeOK, LeaseShape, Lease, ReadExpired, Active
<1>2. /\ expiry' = [lease |-> l, status |-> status[m], pending |-> Pending(m)]
      /\ UNCHANGED <<status, lease, fence, aborting, result, arrivals, rated,
                     incident, allocation, cancelling, job, crashes>>
  BY DEF ReadExpired, allocVars, jobVars
<1>3. status[m] \in Status /\ Pending(m) \in BOOLEAN
  BY <1>1 DEF IInv, TypeOK, Pending
<1>4. expiry' \in Expiry
  BY <1>2, <1>3 DEF Expiry
<1>5. TypeOK' /\ ExpiryShape'
  BY <1>1, <1>2, <1>4 DEF IInv, TypeOK, ExpiryShape
<1> QED
  BY <1>2, <1>5 DEF IInv, LeaseShape, StatusShape, ResultShape, ArrivalShape,
     JobShape, JobFits, AllocationShape, IncidentShape, SettledOnce,
     SettledGivesServerBack, RemakeHasServer, Active

LEMMA ExpireLeaseIInv ==
  ASSUME IInv, NEW l \in LeaseId, ExpireLease(l)
  PROVE  IInv'
<1>1. CASE Active(l)
  BY <1>1, QuarantineIInv DEF ExpireLease
<1>2. CASE ~Active(l)
  <2>1. /\ expiry' = NoExpiry
        /\ UNCHANGED <<status, lease, fence, aborting, result, arrivals, rated,
                       incident, allocation, cancelling, job, crashes>>
    BY <1>2 DEF ExpireLease, allocVars, jobVars
  <2>2. TypeOK' /\ ExpiryShape'
    BY <2>1, LifecycleAssumption
    DEF IInv, TypeOK, Expiry, NoExpiry, Status, ExpiryShape, LeaseId
  <2> QED
    BY <2>1, <2>2 DEF IInv, LeaseShape, StatusShape, ResultShape, ArrivalShape,
       JobShape, JobFits, AllocationShape, IncidentShape, SettledOnce,
       SettledGivesServerBack, RemakeHasServer, Active
<1> QED
  BY <1>1, <1>2

LEMMA ServerUnreachableIInv ==
  ASSUME IInv, NEW l \in LeaseId, ServerUnreachable(l)
  PROVE  IInv'
  BY QuarantineIInv DEF ServerUnreachable

LEMMA VoidMatchIInv ==
  ASSUME IInv, NEW m \in Match, VoidMatch(m)
  PROVE  IInv'
<1>1. TypeOK'
  <2>. DEFINE voided == [incident[m] EXCEPT !.status = "resolved", !.action = "void"]
  <2>1. /\ TypeOK
        /\ status' = [status EXCEPT ![m] = "cancelled"]
        /\ incident' = [incident EXCEPT ![m] = voided]
        /\ UNCHANGED <<lease, fence, aborting, result, arrivals, rated,
                       allocation, cancelling, expiry, job, crashes>>
    BY DEF IInv, VoidMatch, TypeOK, allocVars, jobVars
  <2>2. voided \in Incident
    <3>1. incident[m] \in Incident
      BY <2>1 DEF TypeOK
    <3>. QED
      BY <3>1 DEF Incident
  <2>. HIDE DEF voided
  <2>3. incident' \in [Match -> Incident]
    BY <2>1, <2>2 DEF TypeOK
  <2>4. status' \in [Match -> Status]
    BY <2>1 DEF TypeOK, Status
  <2>. QED
    BY <2>1, <2>3, <2>4 DEF TypeOK
<1>2. StatusShape'
  BY DEF IInv, VoidMatch, StatusShape
<1>3. IncidentShape'
  BY DEF IInv, VoidMatch, IncidentShape, TypeOK
<1>4. RemakeHasServer'
  BY DEF IInv, VoidMatch, RemakeHasServer, TypeOK
<1>5. /\ LeaseShape' /\ ResultShape' /\ ArrivalShape' /\ JobShape'
      /\ AllocationShape' /\ ExpiryShape' /\ SettledOnce'
      /\ SettledGivesServerBack'
  BY DEF IInv, VoidMatch, LeaseShape, ResultShape, ArrivalShape, JobShape,
         AllocationShape, ExpiryShape, SettledOnce, SettledGivesServerBack,
         allocVars, jobVars, Active, JobFits
<1> QED
  BY <1>1, <1>2, <1>3, <1>4, <1>5 DEF IInv

LEMMA StageRemakeIInv ==
  ASSUME IInv, NEW m \in Match, NEW r \in Match, StageRemake(m, r)
  PROVE  IInv'
<1>1. TypeOK'
  BY DEF IInv, StageRemake, TypeOK, jobVars, Incident, Allocation, Status
<1>2. StatusShape'
  BY DEF IInv, StageRemake, StatusShape
<1>3. AllocationShape'
  BY DEF IInv, StageRemake, AllocationShape
<1>4. IncidentShape'
  BY LifecycleAssumption DEF IInv, StageRemake, IncidentShape
<1>5. RemakeHasServer'
  BY LifecycleAssumption DEF IInv, StageRemake, RemakeHasServer, TypeOK,
         IncidentShape
<1>6. /\ LeaseShape' /\ ResultShape' /\ ArrivalShape' /\ JobShape'
      /\ ExpiryShape' /\ SettledOnce' /\ SettledGivesServerBack'
  BY DEF IInv, StageRemake, LeaseShape, ResultShape, ArrivalShape, JobShape,
         ExpiryShape, SettledOnce, SettledGivesServerBack, allocVars, jobVars,
         Active, JobFits
<1> QED
  BY <1>1, <1>2, <1>3, <1>4, <1>5, <1>6 DEF IInv

LEMMA ResumeRemakeIInv ==
  ASSUME IInv, NEW m \in Match, ResumeRemake(m)
  PROVE  IInv'
<1>1. TypeOK'
  BY DEF IInv, ResumeRemake, TypeOK, jobVars, Allocation
<1>2. AllocationShape'
  BY DEF IInv, ResumeRemake, AllocationShape
<1>3. /\ LeaseShape' /\ StatusShape' /\ ResultShape' /\ ArrivalShape'
      /\ JobShape' /\ IncidentShape' /\ ExpiryShape' /\ SettledOnce'
      /\ SettledGivesServerBack' /\ RemakeHasServer'
  BY DEF IInv, ResumeRemake, LeaseShape, StatusShape, ResultShape,
         ArrivalShape, JobShape, IncidentShape, ExpiryShape, SettledOnce,
         SettledGivesServerBack, RemakeHasServer, allocVars, jobVars, Active,
         JobFits
<1> QED
  BY <1>1, <1>2, <1>3 DEF IInv

LEMMA FinishRemakeIInv ==
  ASSUME IInv, NEW m \in Match, FinishRemake(m)
  PROVE  IInv'
<1>1. TypeOK'
  <2>. DEFINE resolved == [incident[m] EXCEPT !.status = "resolved"]
  <2>1. /\ TypeOK
        /\ status' = [status EXCEPT ![m] = IF @ = "disputed" THEN "cancelled" ELSE @]
        /\ incident' = [incident EXCEPT ![m] = resolved]
        /\ UNCHANGED <<lease, fence, aborting, result, arrivals, rated,
                       allocation, cancelling, expiry, job, crashes>>
    BY DEF IInv, FinishRemake, TypeOK, allocVars, jobVars
  <2>2. resolved \in Incident
    <3>1. incident[m] \in Incident
      BY <2>1 DEF TypeOK
    <3>. QED
      BY <3>1 DEF Incident
  <2>. HIDE DEF resolved
  <2>3. incident' \in [Match -> Incident]
    BY <2>1, <2>2 DEF TypeOK
  <2>4. status' \in [Match -> Status]
    BY <2>1 DEF TypeOK, Status
  <2>. QED
    BY <2>1, <2>3, <2>4 DEF TypeOK
<1>2. StatusShape'
  BY DEF IInv, FinishRemake, StatusShape
<1>3. IncidentShape'
  BY DEF IInv, FinishRemake, IncidentShape
<1>4. RemakeHasServer'
  <2>1. incident' = [incident EXCEPT ![m].status = "resolved"]
        /\ lease' = lease
    BY DEF FinishRemake
  <2>2. \A n \in Match : status[n] # "none" => status'[n] # "none"
    BY DEF IInv, TypeOK, FinishRemake
  <2>3. \E l \in LeaseId : lease[l].match = incident[m].replacement
    BY DEF IInv, TypeOK, Incident, IncidentShape, AllocationShape, FinishRemake
  <2>4. LeasesKept
    BY <2>1 DEF LeasesKept
  <2>5. IncidentsKept
    BY <2>1, <2>3 DEF IInv, TypeOK, Incident, IncidentsKept
  <2> QED
    BY <2>2, <2>4, <2>5, RemakesKept
<1>5. /\ LeaseShape' /\ ResultShape' /\ ArrivalShape' /\ JobShape'
      /\ AllocationShape' /\ ExpiryShape' /\ SettledOnce'
      /\ SettledGivesServerBack'
  BY DEF IInv, FinishRemake, LeaseShape, ResultShape, ArrivalShape, JobShape,
         AllocationShape, ExpiryShape, SettledOnce, SettledGivesServerBack,
         allocVars, jobVars, Active, JobFits
<1> QED
  BY <1>1, <1>2, <1>3, <1>4, <1>5 DEF IInv

-----------------------------------------------------------------------------
(* The invariant holds *)

LEMMA InitIInv == Init => IInv
<1> SUFFICES ASSUME Init PROVE IInv
  OBVIOUS
<1>1. TypeOK
  BY LifecycleAssumption
  DEF Init, TypeOK, Status, Lease, NoLease, Result, NoResult, Incident,
      NoIncident, Allocation, Expiry, NoExpiry, Job, NoJob, Busy
<1>2. LeaseShape /\ StatusShape /\ ResultShape /\ ArrivalShape
  BY LifecycleAssumption
  DEF Init, LeaseShape, NoLease, LeaseId, StatusShape, ResultShape, NoResult,
      ArrivalShape
<1>3. JobShape
  BY DEF Init, JobShape, JobFits, NoJob
<1>4. AllocationShape /\ IncidentShape /\ ExpiryShape
  BY DEF Init, AllocationShape, IncidentShape, NoIncident, ExpiryShape,
         NoExpiry, LeaseId
<1>5. SettledOnce /\ SettledGivesServerBack /\ RemakeHasServer
  BY DEF Init, SettledOnce, SettledGivesServerBack, NoResult, RemakeHasServer,
         NoIncident
<1> QED
  BY <1>1, <1>2, <1>3, <1>4, <1>5 DEF IInv

LEMMA NextIInv == IInv /\ [Next]_vars => IInv'
<1> SUFFICES ASSUME IInv, [Next]_vars PROVE IInv'
  OBVIOUS
<1>1. CASE UNCHANGED vars
  BY <1>1 DEF vars, allocVars, jobVars, IInv, TypeOK, LeaseShape, StatusShape,
     ResultShape, ArrivalShape, JobShape, JobFits, AllocationShape,
     IncidentShape, ExpiryShape, SettledOnce, SettledGivesServerBack,
     RemakeHasServer, Active
<1>2. ASSUME NEW m \in Match, MatchStep(m) PROVE IInv'
  BY <1>2, ReserveIInv, StartAllocationIInv, LeaseServerIInv,
     AllocationEndsIInv, ReleaseReservationIInv, CancelReservationIInv,
     VoidMatchIInv, ResumeRemakeIInv, FinishRemakeIInv, StageRemakeIInv
  DEF MatchStep
<1>3. ASSUME NEW l \in LeaseId, LeaseStep(l) PROVE IInv'
  BY <1>3, GoLiveIInv, AbortIInv, AbortReleasesIInv, ConflictIInv,
     LeaseLapsesIInv, ReadExpiredIInv, ExpireLeaseIInv, ServerUnreachableIInv
  DEF LeaseStep
<1>4. ASSUME NEW s \in Settler, SettlerStep(s) PROVE IInv'
  BY <1>4, SubmitResultIInv, SweepResultsIInv, ReadPendingIInv, SettleIInv,
     ReleaseSettledIInv, MarkSettledIInv, SettlerLostIInv
  DEF SettlerStep
<1> QED
  BY <1>1, <1>2, <1>3, <1>4 DEF Next

LEMMA LifecycleInvariant == Spec => []IInv
  BY InitIInv, NextIInv, PTL DEF Spec

-----------------------------------------------------------------------------
(* Theorems *)

\* The tables and the settlements in progress keep their shape: no pass over
\* the pending results works on a match that is not there.
THEOREM LifecycleTypeCorrect == Spec => []TypeOK
<1>1. IInv => TypeOK
  BY DEF IInv
<1> QED
  BY <1>1, LifecycleInvariant, PTL

\* settleMatch applies ratings and XP at most once, through retries, concurrent
\* settlers and crashes between its steps.
THEOREM RatingsAppliedOnce == Spec => []SettledOnce
<1>1. IInv => SettledOnce
  BY DEF IInv
<1> QED
  BY <1>1, LifecycleInvariant, PTL

\* When settlePendingResult marks a result settled, its lease has been released
\* or has failed, and stays so.
THEOREM SettledServersGivenBack == Spec => []SettledGivesServerBack
<1>1. IInv => SettledGivesServerBack
  BY DEF IInv
<1> QED
  BY <1>1, LifecycleInvariant, PTL

\* remakeMatch closes an incident only with a server for its one replacement.
THEOREM RemakesHaveServers == Spec => []RemakeHasServer
<1>1. IInv => RemakeHasServer
  BY DEF IInv
<1> QED
  BY <1>1, LifecycleInvariant, PTL

\* The step of settleMatch that applies the ratings finds the canonical result
\* uncontested, although it was read before the match was locked.
LEMMA RatedWhilePending ==
  ASSUME IInv, [Next]_vars, NEW m \in Match, rated'[m] > rated[m]
  PROVE  Pending(m)
<1>1. CASE UNCHANGED rated
  BY <1>1 DEF IInv, TypeOK
<1>2. ASSUME NEW s \in Settler, Settle(s) PROVE Pending(m)
  <2>1. /\ Head(job[s].todo) \in Match
        /\ result[Head(job[s].todo)].status # "none"
    BY <1>2, JobMatch DEF Settle, Busy
  <2>2. m = Head(job[s].todo) /\ status[m] = "live"
    BY <1>2, <2>1 DEF IInv, TypeOK, Settle
  <2>3. result[m].status # "conflicting" /\ rated[m] = 0
    BY <2>2 DEF IInv, StatusShape
  <2>4. result[m].status # "settled"
    BY <2>3 DEF IInv, SettledGivesServerBack
  <2>5. result[m].status \in {"none", "pending", "settled", "conflicting"}
    BY DEF IInv, TypeOK, Result
  <2> QED
    BY <2>1, <2>2, <2>3, <2>4, <2>5 DEF Pending
<1>3. ASSUME NEW n \in Match, MatchStep(n) PROVE UNCHANGED rated
  BY <1>3 DEF MatchStep, Reserve, StartAllocation, LeaseServer, AllocationEnds,
     ReleaseReservation, CancelReservation, VoidMatch, ResumeRemake,
     FinishRemake, StageRemake
<1>4. ASSUME NEW l \in LeaseId, LeaseStep(l) PROVE UNCHANGED rated
  BY <1>4 DEF LeaseStep, GoLive, Abort, AbortReleases, Conflict, LeaseLapses,
     ReadExpired, ExpireLease, ServerUnreachable, QuarantineLease
<1>5. ASSUME NEW s \in Settler, SettlerStep(s), ~Settle(s)
      PROVE  UNCHANGED rated
  BY <1>5 DEF SettlerStep, SubmitResult, SweepResults, ReadPending,
     ReleaseSettled, MarkSettled, SettlerLost
<1> QED
  BY <1>1, <1>2, <1>3, <1>4, <1>5 DEF Next, vars

\* A conflicting result that commits before settleMatch's transaction keeps it
\* from rating the match.
THEOREM ConflictsBlockSettlement == Spec => ConflictBlocksSettlement
<1>1. IInv /\ [Next]_vars =>
        \A m \in Match : rated'[m] > rated[m] => Pending(m)
  BY RatedWhilePending
<1> QED
  BY <1>1, LifecycleInvariant, PTL DEF Spec, ConflictBlocksSettlement

\* No step takes the status of a match back.
LEMMA StatusStep ==
  ASSUME IInv, [Next]_vars, NEW n \in Match
  PROVE  MayBecome(status[n], status'[n])
<1>1. CASE UNCHANGED status
  BY <1>1 DEF MayBecome
<1>2. ASSUME NEW m \in Match, MatchStep(m)
      PROVE  MayBecome(status[n], status'[n])
  BY <1>2 DEF IInv, TypeOK, MayBecome, MatchStep, Reserve, StartAllocation,
     LeaseServer, AllocationEnds, ReleaseReservation, CancelReservation,
     VoidMatch, ResumeRemake, FinishRemake, StageRemake
<1>3. ASSUME NEW l \in LeaseId, LeaseStep(l)
      PROVE  MayBecome(status[n], status'[n])
  <2>1. ASSUME NEW read, QuarantineLease(l, read)
        PROVE  MayBecome(status[n], status'[n])
    BY <2>1 DEF IInv, TypeOK, MayBecome, QuarantineLease
  <2>2. CASE GoLive(l) \/ Abort(l) \/ Conflict(l)
    BY <2>2 DEF IInv, TypeOK, MayBecome, GoLive, Abort, Conflict, Disputed
  <2>3. CASE ExpireLease(l) \/ ServerUnreachable(l)
    BY <1>1, <2>1, <2>3 DEF ExpireLease, ServerUnreachable
  <2>4. CASE AbortReleases(l) \/ LeaseLapses(l) \/ ReadExpired(l)
    BY <1>1, <2>4 DEF AbortReleases, LeaseLapses, ReadExpired
  <2> QED
    BY <1>3, <2>2, <2>3, <2>4 DEF LeaseStep
<1>4. ASSUME NEW s \in Settler, SettlerStep(s)
      PROVE  MayBecome(status[n], status'[n])
  BY <1>4 DEF IInv, TypeOK, MayBecome, SettlerStep, SubmitResult, Contradict,
     Disputed, SweepResults, ReadPending, Settle, ReleaseSettled, MarkSettled,
     SettlerLost
<1> QED
  BY <1>1, <1>2, <1>3, <1>4 DEF Next, vars

\* No late event, result, sweep or operator revives a match that has ended.
THEOREM MatchesEndForGood == Spec => EndsForGood
<1>1. IInv /\ [Next]_vars => \A m \in Match : MayBecome(status[m], status'[m])
  BY StatusStep
<1> QED
  BY <1>1, LifecycleInvariant, PTL DEF Spec, EndsForGood
=============================================================================
