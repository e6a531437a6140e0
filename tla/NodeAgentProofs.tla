-------------------------- MODULE NodeAgentProofs --------------------------
(***************************************************************************)
(* Proofs about NodeAgent: that it is well typed; that the events a match  *)
(* reports are accepted in their order; that a roster reported             *)
(* synchronized is written; and that a match, its result and its receipt   *)
(* stay on file as long as they must.                                      *)
(*                                                                         *)
(* The control plane's part comes first (Plane): only the latest lease is  *)
(* active, and while a command that clears the instance is outstanding     *)
(* none is.  So a drain in the agent's hand is never of a match that is    *)
(* played.  The order of the events is that of one piece of the log, which *)
(* the file continues (Canonical).  The receipts need the window between   *)
(* the heartbeat's look at the file and its reply (Window).                *)
(***************************************************************************)
EXTENDS NodeAgent, SequenceTheorems, FiniteSetTheorems, TLAPS

\* A row appended to a table of rows.
LEMMA AppendRow ==
  ASSUME NEW S, NEW s \in Seq(S), NEW e \in S
  PROVE  /\ Append(s, e) \in Seq(S)
         /\ Len(Append(s, e)) = Len(s) + 1
         /\ DOMAIN Append(s, e) = DOMAIN s \cup {Len(s) + 1}
         /\ Append(s, e)[Len(s) + 1] = e
         /\ \A k \in DOMAIN s : k # Len(s) + 1 /\ Append(s, e)[k] = s[k]
OBVIOUS

\* A table of rows that keeps its length, each row replaced by one of the same kind.
LEMMA MapRows ==
  ASSUME NEW S, NEW s \in Seq(S), NEW f, f = [k \in DOMAIN s |-> f[k]],
         \A k \in DOMAIN s : f[k] \in S
  PROVE  f \in Seq(S) /\ Len(f) = Len(s) /\ DOMAIN f = DOMAIN s
<1>1. DOMAIN s = 1..Len(s) /\ Len(s) \in Nat
  OBVIOUS
<1>2. f \in [1..Len(s) -> S]
  BY <1>1
<1>. QED
  BY <1>1, <1>2

\* A nonempty set of naturals has a smallest element.
LEMMA Smallest ==
  ASSUME NEW S \in SUBSET Nat, S # {}
  PROVE  \E c \in S : \A d \in S : c <= d
<1> DEFINE Below(c) == {d \in S : d < c}
           T == {Below(c) : c \in S}
           R == StrictSubsetOrdering(S)
           U == FiniteSubsetsOf(S)
<1>1. IsWellFoundedOn(R, U)
  BY FS_StrictSubsetOrderingWellFounded
<1>2. ASSUME NEW c \in S PROVE Below(c) \in U
  <2>1. Below(c) \in SUBSET Nat /\ c \in Nat /\ \A d \in Below(c) : d <= c
    <3> HIDE DEF T, R, U
    <3>1. Below(c) \in SUBSET Nat /\ c \in Nat
      OBVIOUS
    <3>2. \A d \in Below(c) : d \in Nat /\ d < c
      OBVIOUS
    <3>. QED BY <3>1, <3>2
  <2>2. IsFiniteSet(Below(c))
    <3> HIDE DEF Below
    <3>. QED BY <2>1, FS_BoundedSetOfNaturals
  <2>. QED
    BY <2>2 DEF FiniteSubsetsOf
<1>3. T \subseteq U /\ T # {}
  BY <1>2
<1>4. PICK x \in T : \A y \in T : ~(<<y, x>> \in R)
  <2> HIDE DEF T, R, U
  <2>. QED BY <1>1, <1>3, WFMin
<1>5. PICK c \in S : x = Below(c)
  OBVIOUS
<1>6. ASSUME NEW d \in S, d < c PROVE FALSE
  <2>1. Below(d) \in T /\ Below(d) \subseteq Below(c) /\ d \in Below(c) /\ d \notin Below(d)
    <3>1. Below(d) \in T
      OBVIOUS
    <3> HIDE DEF T, R, U
    <3>2. c \in Nat /\ d \in Nat
      OBVIOUS
    <3>3. \A e \in S : e \in Nat /\ (e < d => e < c)
      BY <1>6, <3>2
    <3>4. Below(d) \subseteq Below(c)
      BY <3>3
    <3>5. d \in Below(c) /\ d \notin Below(d)
      BY <1>6, <3>2
    <3>. QED BY <3>1, <3>4, <3>5
  <2>2. <<Below(d), Below(c)>> \in R
    <3>1. Below(d) \in SUBSET S /\ Below(c) \in SUBSET S /\ Below(d) # Below(c)
      BY <2>1
    <3> HIDE DEF Below
    <3>. QED BY <2>1, <3>1 DEF StrictSubsetOrdering
  <2>. QED
    BY <1>4, <1>5, <2>1, <2>2
<1>. QED
  BY <1>6

-----------------------------------------------------------------------------
(* Types.                                                                  *)

\* The states of the instance, and the types of what the API accepted.
DbState == {"offline", "starting", "ready", "leased", "draining", "quarantined"}
GotType == [Leases -> SUBSET [seq : Nat \ {0}, line : Nat \ {0}]]
ResultType == [Leases -> {"none", "pending", "completed", "settled", "disputed"}]

\* The part of TypeOK that is about the control plane.
PlaneTypes ==
  /\ leases \in Seq(LeaseStatus) /\ Len(leases) <= MaxLeases
  /\ db \in DbState
  /\ queue \in Seq(Command)
  /\ got \in GotType
  /\ results \in ResultType

\* The events accepted are lines that exist, none numbered above its line.
Lines == \A l \in Leases : \A e \in got[l] : e.seq <= e.line /\ e.line <= Len(log)

\* The part that is about the node.
NodeTypes ==
  /\ log \in Seq(LogLine)
  /\ server \in ServerState
  /\ pump \in PumpFile /\ pump.cursor <= Len(log) /\ pump.seq <= pump.cursor + 1
  /\ agent \in Memory
  /\ evidence \in [demo : SUBSET LeaseRef, shown : SUBSET LeaseRef, anew : SUBSET Leases,
                   dropped : SUBSET Leases]

\* The part that is about the heartbeat.
BeatTypes == work \in Heartbeat /\ work.hand \subseteq DOMAIN queue

\* The parts make up the type invariant, before a step and after it.
LEMMA TypeParts ==
  TypeOK <=> PlaneTypes /\ Lines /\ NodeTypes /\ BeatTypes /\ faults \in 0..MaxFaults
BY DEF TypeOK, PlaneTypes, Lines, NodeTypes, BeatTypes, DbState, GotType, ResultType

\* The same, after a step.
LEMMA TypePartsAfter ==
  TypeOK' <=> PlaneTypes' /\ Lines' /\ NodeTypes' /\ BeatTypes' /\ faults' \in 0..MaxFaults
BY DEF TypeOK, PlaneTypes, Lines, NodeTypes, BeatTypes, DbState, GotType, ResultType

\* What the tables hold, row by row.
LEMMA Types ==
  ASSUME TypeOK
  PROVE  /\ leases \in Seq(LeaseStatus) /\ Len(leases) \in Nat /\ DOMAIN leases = 1..Len(leases)
         /\ DOMAIN leases \subseteq Leases /\ Len(leases) <= MaxLeases
         /\ \A l \in DOMAIN leases : leases[l] \in LeaseStatus
         /\ queue \in Seq(Command) /\ Len(queue) \in Nat /\ DOMAIN queue = 1..Len(queue)
         /\ \A c \in DOMAIN queue : queue[c] \in Command
         /\ log \in Seq(LogLine) /\ Len(log) \in Nat /\ DOMAIN log = 1..Len(log)
         /\ \A k \in DOMAIN log : log[k] \in LogLine
         /\ db \in DbState
<1>1. /\ leases \in Seq(LeaseStatus) /\ Len(leases) <= MaxLeases /\ queue \in Seq(Command)
      /\ log \in Seq(LogLine) /\ db \in DbState
  BY DEF TypeOK, DbState
<1>. QED
  BY <1>1, AgentAssumption DEF Leases

\* A heartbeat that executes has a command in hand.
LEMMA InHand ==
  ASSUME TypeOK, work.hand # {}
  PROVE  c0 \in work.hand /\ c0 \in DOMAIN queue /\ cmd \in Command
<1>1. work.hand \in SUBSET Nat /\ work.hand \subseteq DOMAIN queue
  BY DEF TypeOK, Heartbeat
<1>2. c0 \in work.hand
  <2>1. \E c \in work.hand : \A d \in work.hand : c <= d
    BY <1>1, Smallest
  <2>. QED
    BY <2>1 DEF c0
<1>. QED
  BY <1>1, <1>2, Types DEF cmd

\* A row replaced.
LEMMA ReplaceRow ==
  ASSUME TypeOK, NEW c \in DOMAIN queue, NEW r \in Command, queue' = [queue EXCEPT ![c] = r]
  PROVE  /\ queue' \in Seq(Command) /\ DOMAIN queue' = DOMAIN queue /\ queue'[c] = r
         /\ \A d \in DOMAIN queue : d # c => queue'[d] = queue[d]
<1>1. queue \in Seq(Command) /\ \A d \in DOMAIN queue : queue[d] \in Command
  BY Types
<1>2. queue' = [d \in DOMAIN queue |-> queue'[d]] /\ \A d \in DOMAIN queue : queue'[d] \in Command
  BY <1>1
<1>. QED
  BY <1>1, <1>2, MapRows

\* The answer to a command is the command, completed, failed or put up again.
LEMMA AnswerType ==
  ASSUME TypeOK, work.hand # {}, NEW ok \in BOOLEAN
  PROVE  /\ Answer(ok) \in Command
         /\ Answer(ok).type = cmd.type /\ Answer(ok).lease = cmd.lease
         /\ Answer(ok).rev = cmd.rev /\ Answer(ok).terminal = cmd.terminal
         /\ Answer(ok).status = "completed" <=> ok
         /\ Answer(ok).status \in {"completed", "failed"} \/ (~ok /\ Answer(ok).status = "pending")
<1>1. cmd \in Command
  BY InHand
<1>. QED
  BY <1>1 DEF Answer, Command

\* A row added.
LEMMA AddRow ==
  ASSUME TypeOK, NEW r \in Command, queue' = Append(queue, r)
  PROVE  /\ queue' \in Seq(Command) /\ DOMAIN queue' = DOMAIN queue \cup {Len(queue) + 1}
         /\ queue'[Len(queue) + 1] = r /\ Len(queue) + 1 \notin DOMAIN queue
         /\ \A d \in DOMAIN queue : queue'[d] = queue[d]
<1>1. queue \in Seq(Command)
  BY Types
<1>. QED
  BY <1>1, AppendRow

\* What the control plane's handing back of a lease does.
LEMMA ReleaseTypes ==
  ASSUME TypeOK, NEW l \in LeaseRef, NEW b \in BOOLEAN, Release(l, b)
  PROVE  /\ leases' \in Seq(LeaseStatus) /\ DOMAIN leases' = DOMAIN leases /\ Len(leases') = Len(leases)
         /\ db' \in DbState
         /\ queue' \in Seq(Command) /\ DOMAIN queue \subseteq DOMAIN queue'
         /\ \A d \in DOMAIN queue : queue'[d] = queue[d]
<1>1. CASE ~Active(l)
  BY <1>1, Types DEF Release
<1>2. CASE Active(l)
  <2>1. /\ l \in DOMAIN leases
        /\ leases' = [leases EXCEPT ![l] = "released"]
        /\ db' = "draining"
        /\ queue' = Append(queue, NewCommand("drain", l, 0, b))
    BY <1>2 DEF Release, Active
  <2>2. leases' = [k \in DOMAIN leases |-> leases'[k]] /\ \A k \in DOMAIN leases : leases'[k] \in LeaseStatus
    BY <2>1, Types DEF LeaseStatus
  <2>3. NewCommand("drain", l, 0, b) \in Command
    BY AgentAssumption DEF NewCommand, Command, CommandType, LeaseRef
  <2>. QED
    BY <2>1, <2>2, <2>3, Types, MapRows, AddRow DEF DbState
<1>. QED
  BY <1>1, <1>2

-----------------------------------------------------------------------------
(* Every step keeps the types.                                             *)

\* Initially everything has its type.
LEMMA InitTypes == Init => TypeOK
<1> SUFFICES ASSUME Init PROVE TypeOK
  OBVIOUS
<1> USE AgentAssumption DEF Init
<1>1. PlaneTypes
  BY DEF PlaneTypes, DbState, GotType, ResultType
<1>2. Lines
  BY DEF Lines
<1>3. server \in ServerState
  BY DEF ServerState, NoMatch, LeaseRef, NoLease, Follows
<1>4. pump \in PumpFile /\ pump.cursor <= Len(log) /\ pump.seq <= pump.cursor + 1
  BY DEF PumpFile, NoPump, LeaseRef, NoLease
<1>5. agent \in Memory
  BY DEF Memory, FreshAgent
<1>6. NodeTypes
  BY <1>3, <1>4, <1>5 DEF NodeTypes
<1>7. BeatTypes
  BY DEF BeatTypes, Idle, Heartbeat
<1>. QED
  BY <1>1, <1>2, <1>6, <1>7, TypeParts

\* A step of the control plane alone.
LEMMA ControlTypes ==
  ASSUME TypeOK, Control
  PROVE  TypeOK'
<1> USE AgentAssumption
<1>1. PlaneTypes /\ Lines /\ NodeTypes /\ BeatTypes
  BY TypeParts
<1> SUFFICES /\ leases' \in Seq(LeaseStatus) /\ Len(leases') <= MaxLeases /\ db' \in DbState
             /\ queue' \in Seq(Command) /\ DOMAIN queue \subseteq DOMAIN queue'
             /\ results' \in ResultType /\ faults' \in 0..MaxFaults
  <2>1. UNCHANGED <<got, server, log, pump, agent, work, evidence>>
    BY DEF Control, GrantLease, WakeServer, OperatorReturns, SynchronizeRoster, CancelMatch, SettleLater,
           CloseLease, ExpireLease, CommandDue, controlOnly
  <2>2. NodeTypes'
    BY <1>1, <2>1 DEF NodeTypes
  <2>3. Lines'
    BY <1>1, <2>1 DEF Lines
  <2>4. PlaneTypes' /\ BeatTypes'
    BY <1>1, <2>1 DEF PlaneTypes, BeatTypes
  <2>. QED
    BY <2>2, <2>3, <2>4, TypePartsAfter
<1>2. CASE GrantLease
  <2>1. leases' = Append(leases, "active") /\ Len(leases) < MaxLeases
    BY <1>2 DEF GrantLease
  <2>2. leases' \in Seq(LeaseStatus) /\ Len(leases') = Len(leases) + 1
    BY <2>1, Types, AppendRow DEF LeaseStatus
  <2>3. NewCommand("prepare", Len(leases'), 0, FALSE) \in Command
    BY <2>1, <2>2, Types DEF NewCommand, Command, CommandType, LeaseRef, Leases
  <2>4. queue' \in Seq(Command) /\ DOMAIN queue \subseteq DOMAIN queue'
    <3>1. queue' = Append(queue, NewCommand("prepare", Len(leases'), 0, FALSE))
      BY <1>2 DEF GrantLease
    <3>. QED
      BY <2>3, <3>1, AddRow
  <2>. QED
    <3>1. db' \in DbState /\ results' = results /\ faults' = faults
      BY <1>2 DEF GrantLease, controlOnly, DbState
    <3>2. Len(leases') <= MaxLeases
      BY <2>1, <2>2, Types
    <3>. QED
      BY <1>1, <2>2, <2>4, <3>1, <3>2 DEF PlaneTypes, TypeOK
<1>3. CASE WakeServer
  <2>1. NewCommand("start", NoLease, 0, FALSE) \in Command
    BY DEF NewCommand, Command, CommandType, LeaseRef
  <2>. QED
    BY <1>1, <1>3, <2>1, AddRow DEF WakeServer, PlaneTypes, controlOnly, TypeOK, DbState
<1>4. CASE OperatorReturns
  <2>1. NewCommand("unquarantine", NoLease, 0, FALSE) \in Command
    BY DEF NewCommand, Command, CommandType, LeaseRef
  <2>. QED
    BY <1>1, <1>4, <2>1, AddRow DEF OperatorReturns, PlaneTypes, controlOnly, TypeOK
<1>5. ASSUME NEW l \in Leases, SynchronizeRoster(l)
      PROVE  /\ leases' \in Seq(LeaseStatus) /\ Len(leases') <= MaxLeases /\ db' \in DbState
             /\ queue' \in Seq(Command) /\ DOMAIN queue \subseteq DOMAIN queue'
             /\ results' \in ResultType /\ faults' \in 0..MaxFaults
  <2> DEFINE D == {d \in DOMAIN queue : queue[d].type = "sync-roster" /\ queue[d].lease = l}
             sent == {queue[c].rev : c \in D}
  <2>1. Cardinality(sent) < MaxRevision /\ queue' = Append(queue, NewCommand("sync-roster", l, Cardinality(sent) + 1, FALSE))
        /\ UNCHANGED <<leases, db, results, faults>>
    BY <1>5 DEF SynchronizeRoster, controlOnly
  <2>2. IsFiniteSet(sent)
    <3>1. sent \subseteq 0..MaxRevision
      BY Types DEF Command
    <3>. QED
      <4>1. IsFiniteSet(0..MaxRevision)
        BY FS_Interval
      <4>. QED
        BY <3>1, <4>1, FS_Subset
  <2>3. Cardinality(sent) \in Nat
    BY <2>2, FS_CardinalityType
  <2> HIDE DEF sent
  <2>4. NewCommand("sync-roster", l, Cardinality(sent) + 1, FALSE) \in Command
    BY <2>1, <2>3 DEF NewCommand, Command, CommandType, LeaseRef
  <2>. QED
    BY <1>1, <2>1, <2>4, AddRow DEF PlaneTypes, TypeOK
<1>6. ASSUME NEW l \in Leases, CancelMatch(l)
      PROVE  /\ leases' \in Seq(LeaseStatus) /\ Len(leases') <= MaxLeases /\ db' \in DbState
             /\ queue' \in Seq(Command) /\ DOMAIN queue \subseteq DOMAIN queue'
             /\ results' \in ResultType /\ faults' \in 0..MaxFaults
  BY <1>1, <1>6, ReleaseTypes DEF CancelMatch, PlaneTypes, controlOnly, TypeOK, LeaseRef
<1>7. ASSUME NEW l \in Leases, SettleLater(l)
      PROVE  /\ leases' \in Seq(LeaseStatus) /\ Len(leases') <= MaxLeases /\ db' \in DbState
             /\ queue' \in Seq(Command) /\ DOMAIN queue \subseteq DOMAIN queue'
             /\ results' \in ResultType /\ faults' \in 0..MaxFaults
  <2>1. /\ results' = [results EXCEPT ![l] = "completed"] \/ results' = [results EXCEPT ![l] = "settled"]
        /\ Release(l, TRUE) \/ UNCHANGED <<leases, db, queue>>
        /\ UNCHANGED faults
    BY <1>7 DEF SettleLater, controlOnly
  <2>2. results' \in ResultType
    BY <1>1, <2>1 DEF PlaneTypes, ResultType
  <2>. QED
    BY <1>1, <2>1, <2>2, ReleaseTypes DEF PlaneTypes, TypeOK, LeaseRef
<1>8. ASSUME NEW l \in Leases, CloseLease(l) \/ ExpireLease(l)
      PROVE  /\ leases' \in Seq(LeaseStatus) /\ Len(leases') <= MaxLeases /\ db' \in DbState
             /\ queue' \in Seq(Command) /\ DOMAIN queue \subseteq DOMAIN queue'
             /\ results' \in ResultType /\ faults' \in 0..MaxFaults
  <2>1. l \in DOMAIN leases /\ leases' = [leases EXCEPT ![l] = "closed"]
    BY <1>8 DEF CloseLease, ExpireLease, Active
  <2>2. leases' = [k \in DOMAIN leases |-> leases'[k]] /\ \A k \in DOMAIN leases : leases'[k] \in LeaseStatus
    BY <2>1, Types DEF LeaseStatus
  <2>3. leases' \in Seq(LeaseStatus) /\ Len(leases') = Len(leases)
    BY <2>2, Types, MapRows
  <2>4. NewCommand("quarantine", l, 0, FALSE) \in Command
    BY DEF NewCommand, Command, CommandType, LeaseRef
  <2>5. faults' \in 0..MaxFaults
    <3>1. faults < MaxFaults /\ faults' = faults + 1 /\ faults \in 0..MaxFaults
      BY <1>8 DEF CloseLease, ExpireLease, Fault, TypeOK
    <3>. QED
      BY <3>1
  <2>6. CASE CloseLease(l)
    BY <1>1, <2>3, <2>5, <2>6 DEF CloseLease, PlaneTypes
  <2>7. CASE ExpireLease(l)
    <3>1. queue' = Append(queue, NewCommand("quarantine", l, 0, FALSE)) /\ db' = "quarantined" /\ results' = results
      BY <2>7 DEF ExpireLease
    <3>2. queue' \in Seq(Command) /\ DOMAIN queue \subseteq DOMAIN queue'
      BY <2>4, <3>1, AddRow
    <3>. QED
      BY <1>1, <2>3, <2>5, <3>1, <3>2 DEF PlaneTypes, DbState
  <2>. QED
    BY <1>8, <2>6, <2>7
<1>9. ASSUME NEW c \in DOMAIN queue, CommandDue(c)
      PROVE  /\ leases' \in Seq(LeaseStatus) /\ Len(leases') <= MaxLeases /\ db' \in DbState
             /\ queue' \in Seq(Command) /\ DOMAIN queue \subseteq DOMAIN queue'
             /\ results' \in ResultType /\ faults' \in 0..MaxFaults
  <2>1. queue[c] \in Command
    BY Types
  <2>2. [queue[c] EXCEPT !.status = "pending", !.resting = FALSE] \in Command
    BY <2>1 DEF Command
  <2>3. queue' = [queue EXCEPT ![c] = [queue[c] EXCEPT !.status = "pending", !.resting = FALSE]]
    BY <1>9, <2>1, Types DEF CommandDue, Command
  <2>. QED
    BY <1>1, <1>9, <2>2, <2>3, ReplaceRow DEF CommandDue, PlaneTypes, controlOnly, TypeOK
<1>. QED
  BY <1>2, <1>3, <1>4, <1>5, <1>6, <1>7, <1>8, <1>9 DEF Control

\* The lines of a match between two positions of the log: how many there are is
\* a natural number, and they are counted in parts.
Base(l, from, to) == {k \in (from + 1)..to : log[k].lease = l}

\* The lines of a match in a piece of the log are finitely many.
LEMMA BaseFinite ==
  ASSUME NEW l, NEW from \in Nat, NEW to \in Int
  PROVE  IsFiniteSet(Base(l, from, to)) /\ Cardinality(Base(l, from, to)) \in Nat
<1>1. Base(l, from, to) \subseteq (from + 1)..to
  BY DEF Base
<1>2. IsFiniteSet((from + 1)..to)
  BY FS_Interval
<1>3. IsFiniteSet(Base(l, from, to))
  BY <1>1, <1>2, FS_Subset
<1>. QED
  BY <1>3, FS_CardinalityType

\* There are at most as many of them as lines.
LEMMA BaseBound ==
  ASSUME NEW l, NEW from \in Nat, NEW to \in Nat, from <= to
  PROVE  Cardinality(Base(l, from, to)) <= to - from
<1>1. Base(l, from, to) \subseteq (from + 1)..to
  BY DEF Base
<1>2. IsFiniteSet((from + 1)..to) /\ Cardinality((from + 1)..to) <= to - from
  BY FS_Interval
<1>3. Cardinality(Base(l, from, to)) <= Cardinality((from + 1)..to)
  BY <1>1, <1>2, FS_Subset
<1>. QED
  BY <1>2, <1>3, BaseFinite, FS_CardinalityType

\* They are counted piece by piece.
LEMMA BaseSum ==
  ASSUME NEW l, NEW a \in Nat, NEW b \in Nat, NEW c \in Nat, a <= b, b <= c
  PROVE  Cardinality(Base(l, a, c)) = Cardinality(Base(l, a, b)) + Cardinality(Base(l, b, c))
<1> DEFINE S == Base(l, a, b)
           T == Base(l, b, c)
<1>1. Base(l, a, c) = S \cup T /\ S \cap T = {}
  BY DEF Base
<1>2. IsFiniteSet(S) /\ IsFiniteSet(T) /\ Cardinality(S) \in Nat /\ Cardinality(T) \in Nat
  BY BaseFinite
<1> HIDE DEF S, T
<1>3. Cardinality(S \cup T) = Cardinality(S) + Cardinality(T) - Cardinality(S \cap T)
  BY <1>2, FS_Union
<1>4. Cardinality(S \cap T) = 0
  BY <1>1, FS_EmptySet
<1>. QED
  BY <1>1, <1>2, <1>3, <1>4 DEF S, T

\* The events of a batch are the lines of the match under the numbers that
\* follow the last one.
LEMMA BatchIs ==
  ASSUME TypeOK, NEW n \in 1..(Len(log) - pump.cursor)
  PROVE  LET l == pump.lease
             c == pump.cursor
         IN /\ Batch(n) = {[seq |-> pump.seq + Cardinality(Base(l, c, k - 1)), line |-> k] : k \in Base(l, c, c + n)}
            /\ IsFiniteSet(Batch(n)) /\ Cardinality(Batch(n)) = Cardinality(Base(l, c, c + n))
            /\ \A e \in Batch(n) : e.seq \in Nat \ {0} /\ e.line \in 1..Len(log) /\ e.seq <= e.line
                                   /\ log[e.line].lease = l /\ e.line > c /\ e = [seq |-> e.seq, line |-> e.line]
<1> DEFINE l == pump.lease
           c == pump.cursor
           num(k) == pump.seq + Cardinality(Base(l, c, k - 1))
           ev(k) == [seq |-> num(k), line |-> k]
           M == Base(l, c, c + n)
<1>1. c \in Nat /\ c <= Len(log) /\ pump.seq \in Nat \ {0} /\ pump.seq <= c + 1 /\ n \in Nat /\ n >= 1
      /\ c + n <= Len(log) /\ Len(log) \in Nat
  BY Types DEF TypeOK, PumpFile
<1>2. Batch(n) = {ev(k) : k \in M}
  BY DEF Batch, Event, Mine, Base
<1>3. IsFiniteSet(M)
  <2> HIDE DEF l, c
  <2>1. c + n \in Int
    BY <1>1
  <2>. QED
    BY <1>1, <2>1, BaseFinite
<1>4. ASSUME NEW k \in M
      PROVE  k \in Nat /\ k > c /\ k <= Len(log) /\ num(k) \in Nat \ {0} /\ num(k) <= k /\ log[k].lease = l
  <2>1. k \in Nat /\ k > c /\ k <= Len(log) /\ log[k].lease = l
    BY <1>1 DEF Base
  <2>2. Cardinality(Base(l, c, k - 1)) \in Nat /\ Cardinality(Base(l, c, k - 1)) <= (k - 1) - c
    BY <1>1, <2>1, BaseFinite, BaseBound
  <2> HIDE DEF l, c
  <2>. QED
    BY <1>1, <2>1, <2>2
<1>5. \A e \in Batch(n) : e.seq \in Nat \ {0} /\ e.line \in 1..Len(log) /\ e.seq <= e.line
                                   /\ log[e.line].lease = l /\ e.line > c /\ e = [seq |-> e.seq, line |-> e.line]
  <2> SUFFICES ASSUME NEW k \in M
               PROVE  ev(k).seq \in Nat \ {0} /\ ev(k).line \in 1..Len(log) /\ ev(k).seq <= ev(k).line
                                   /\ log[ev(k).line].lease = l /\ ev(k).line > c /\ ev(k) = [seq |-> ev(k).seq, line |-> ev(k).line]
    BY <1>2
  <2> HIDE DEF num, M, l, c
  <2>. QED
    BY <1>4
<1>6. IsFiniteSet(Batch(n)) /\ Cardinality(Batch(n)) = Cardinality(M)
  <2> DEFINE f == [k \in M |-> ev(k)]
  <2>1. f \in Bijection(M, Batch(n))
    <3> HIDE DEF num, M
    <3>. QED
      BY <1>2 DEF Bijection, Injection, IsInjective, Surjection
  <2>2. ExistsBijection(M, Batch(n))
    BY <2>1 DEF ExistsBijection
  <2>. QED
    BY <1>3, <2>2, FS_Bijection
<1>. QED
  BY <1>2, <1>5, <1>6

\* What the file holds after an upload.
LEMMA AfterUploadIs ==
  ASSUME TypeOK, NEW n \in 1..(Len(log) - pump.cursor)
  PROVE  /\ AfterUpload(n) \in PumpFile
         /\ AfterUpload(n).lease = pump.lease /\ AfterUpload(n).rev = pump.rev
         /\ AfterUpload(n).receipt = pump.receipt
         /\ AfterUpload(n).cursor = pump.cursor + n
         /\ AfterUpload(n).seq = pump.seq + Cardinality(Batch(n))
         /\ AfterUpload(n).cursor <= Len(log) /\ AfterUpload(n).seq <= AfterUpload(n).cursor + 1
         /\ AfterUpload(n).result => pump.result \/ Batch(n) # {}
         /\ pump.result => AfterUpload(n).result
<1> DEFINE p == AfterUpload(n)
           ended == \E e \in Batch(n) : log[e.line].kind = "ended"
           card == Cardinality(Batch(n))
<1>1. pump \in PumpFile /\ pump.cursor <= Len(log) /\ pump.seq <= pump.cursor + 1 /\ pump.cursor \in Nat
      /\ pump.seq \in Nat \ {0} /\ Len(log) \in Nat /\ n \in Nat /\ pump.cursor + n \in Nat
      /\ pump.cursor + n <= Len(log) /\ pump.result \in BOOLEAN
  BY Types DEF TypeOK, PumpFile
<1>2. card \in Nat /\ card <= n
  <2>1. card = Cardinality(Base(pump.lease, pump.cursor, pump.cursor + n)) /\ IsFiniteSet(Batch(n))
    BY BatchIs
  <2>2. Cardinality(Base(pump.lease, pump.cursor, pump.cursor + n)) <= n
    BY <1>1, BaseBound
  <2>. QED
    BY <2>1, <2>2, FS_CardinalityType
<1>3. ended \in BOOLEAN /\ (ended => Batch(n) # {}) /\ (pump.result \/ ended) \in BOOLEAN
  OBVIOUS
<1>4. p = [pump EXCEPT !.cursor = @ + n, !.seq = @ + card, !.result = @ \/ ended]
  BY DEF AfterUpload
<1> HIDE DEF p, ended, card
<1>5. p = [pump EXCEPT !.cursor = pump.cursor + n, !.seq = pump.seq + card, !.result = (pump.result \/ ended)]
  BY <1>1, <1>4 DEF PumpFile
<1>6. pump.cursor + n \in Nat /\ pump.seq + card \in Nat \ {0}
  BY <1>1, <1>2
<1>7. p \in PumpFile
  <2> DEFINE x == pump.cursor + n
             y == pump.seq + card
             z == (pump.result \/ ended)
  <2>1. p = [pump EXCEPT !.cursor = x, !.seq = y, !.result = z] /\ x \in Nat /\ y \in Nat \ {0} /\ z \in BOOLEAN
    BY <1>3, <1>5, <1>6
  <2> HIDE DEF x, y, z
  <2>. QED
    BY <1>1, <2>1 DEF PumpFile
<1>8. /\ p.lease = pump.lease /\ p.rev = pump.rev /\ p.receipt = pump.receipt
      /\ p.cursor = pump.cursor + n /\ p.seq = pump.seq + card /\ p.result = (pump.result \/ ended)
  <2> DEFINE x == pump.cursor + n
             y == pump.seq + card
             z == (pump.result \/ ended)
  <2>1. p = [pump EXCEPT !.cursor = x, !.seq = y, !.result = z]
    BY <1>5
  <2> HIDE DEF x, y, z
  <2>2. p.lease = pump.lease /\ p.rev = pump.rev /\ p.receipt = pump.receipt
        /\ p.cursor = x /\ p.seq = y /\ p.result = z
    BY <1>1, <2>1 DEF PumpFile
  <2>. QED
    BY <2>2 DEF x, y, z
<1>9. p.cursor <= Len(log) /\ p.seq <= p.cursor + 1
  BY <1>1, <1>2, <1>8
<1>10. (p.result => pump.result \/ Batch(n) # {}) /\ (pump.result => p.result)
  BY <1>3, <1>8
<1>. QED
  BY <1>7, <1>8, <1>9, <1>10 DEF p, card

\* What the API makes of a batch: some of its events are accepted, and the match
\* is disputed unless all of them agree with those accepted before.
LEMMA IngestIs ==
  ASSUME NEW S, Ingest(S)
  PROVE  /\ S = {} => UNCHANGED <<got, results>>
         /\ \E A \in SUBSET S : S # {} => got' = [got EXCEPT ![pump.lease] = @ \cup A]
         /\ results' = results
            \/ /\ results[pump.lease] \notin {"completed", "settled"} /\ got[pump.lease] # {}
               /\ results' = [results EXCEPT ![pump.lease] = "disputed"]
         /\ (\A e \in S : Agrees(e)) =>
              /\ results' = results
              /\ S # {} => got' = [got EXCEPT ![pump.lease] = @ \cup S]
<1> DEFINE A == {e \in S : Agrees(e)}
<1>1. /\ got' = IF S = {} THEN got ELSE [got EXCEPT ![pump.lease] = @ \cup A]
      /\ results' = IF A = S \/ results[pump.lease] \in {"completed", "settled"} THEN results
                    ELSE [results EXCEPT ![pump.lease] = "disputed"]
  BY DEF Ingest
<1>2. A \in SUBSET S /\ (S = {} => A = S) /\ ((\A e \in S : Agrees(e)) => A = S)
      /\ (A # S => got[pump.lease] # {})
  BY DEF Agrees
<1> HIDE DEF A
<1>. QED
  BY <1>1, <1>2

\* What the file holds after a result was submitted.
LEMMA AfterSubmitIs ==
  ASSUME TypeOK, NEW l
  PROVE  /\ AfterSubmit(l) \in PumpFile
         /\ AfterSubmit(l).lease = pump.lease /\ AfterSubmit(l).rev = pump.rev
         /\ AfterSubmit(l).cursor = pump.cursor /\ AfterSubmit(l).seq = pump.seq
         /\ results'[l] = "settled" => ~AfterSubmit(l).result /\ AfterSubmit(l).receipt
         /\ results'[l] # "settled" => AfterSubmit(l) = pump
<1>1. pump \in PumpFile
  BY DEF TypeOK
<1>. QED
  BY <1>1 DEF AfterSubmit, PumpFile

\* A step of the pump.
LEMMA FlushTypes ==
  ASSUME TypeOK, Flush
  PROVE  TypeOK'
<1> USE AgentAssumption
<1>1. PlaneTypes /\ Lines /\ NodeTypes /\ BeatTypes
  BY TypeParts
<1>2. pump.lease \in LeaseRef /\ pump \in PumpFile /\ pump.cursor <= Len(log) /\ pump.seq <= pump.cursor + 1
  BY DEF TypeOK, PumpFile
<1>3. UNCHANGED <<server, log, agent, work, evidence>>
  BY DEF Flush, Upload, SubmitResult, pumpKeeps
<1>4. ASSUME NEW n \in 1..(Len(log) - pump.cursor), NEW lost \in BOOLEAN, Upload(n, lost)
      PROVE  PlaneTypes' /\ Lines' /\ DOMAIN queue \subseteq DOMAIN queue'
             /\ pump' \in PumpFile /\ pump'.cursor <= Len(log) /\ pump'.seq <= pump'.cursor + 1
             /\ faults' \in 0..MaxFaults
  <2>1. /\ IsFiniteSet(Batch(n)) /\ Cardinality(Batch(n)) \in Nat /\ Cardinality(Batch(n)) <= n
        /\ \A e \in Batch(n) : e.seq \in Nat \ {0} /\ e.line \in 1..Len(log) /\ e.seq <= e.line
                               /\ e = [seq |-> e.seq, line |-> e.line]
    <3>1. /\ IsFiniteSet(Batch(n)) /\ Cardinality(Batch(n)) = Cardinality(Base(pump.lease, pump.cursor, pump.cursor + n))
          /\ \A e \in Batch(n) : e.seq \in Nat \ {0} /\ e.line \in 1..Len(log) /\ e.seq <= e.line
                               /\ e = [seq |-> e.seq, line |-> e.line]
      BY BatchIs
    <3>2. pump.cursor \in Nat /\ pump.cursor + n \in Nat /\ n \in Nat /\ pump.cursor <= pump.cursor + n
      BY <1>2, Types DEF PumpFile
    <3>3. Cardinality(Base(pump.lease, pump.cursor, pump.cursor + n)) <= n
      BY <3>2, BaseBound
    <3>. QED
      BY <3>1, <3>3, FS_CardinalityType
  <2>2. CASE Batch(n) = {}
    <3>1. UNCHANGED <<leases, db, queue, got, results>>
      BY <1>4, <2>2 DEF Upload, Ingest, Release
    <3>2. pump' \in PumpFile /\ pump'.cursor <= Len(log) /\ pump'.seq <= pump'.cursor + 1 /\ faults' \in 0..MaxFaults
      <4>1. CASE lost
        BY <1>2, <1>4, <4>1 DEF Upload, Fault, TypeOK
      <4>2. CASE ~lost
        <5>1. pump' = AfterUpload(n) /\ faults' = faults
          BY <1>4, <4>2 DEF Upload
        <5>. QED
          BY <5>1, AfterUploadIs DEF TypeOK
      <4>. QED
        BY <4>1, <4>2
    <3>. QED
      BY <1>1, <1>3, <3>1, <3>2 DEF PlaneTypes, Lines
  <2>3. CASE Batch(n) # {}
    <3>0. pump.lease \in Leases /\ Ingest(Batch(n))
      BY <1>2, <1>4 DEF Upload, LeaseRef
    <3>1. PICK A \in SUBSET Batch(n) : got' = [got EXCEPT ![pump.lease] = @ \cup A]
      BY <2>3, <3>0, IngestIs
    <3>5. results' \in ResultType
      BY <1>1, <3>0, IngestIs DEF PlaneTypes, ResultType
    <3>2. got' \in GotType /\ Lines'
      <4>1. A \subseteq [seq : Nat \ {0}, line : Nat \ {0}]
        BY <2>1, Types
      <4>2. got \in GotType /\ Len(log) \in Nat /\ log' = log
        BY <1>1, <1>3, Types DEF PlaneTypes
      <4>3. got' \in GotType
        BY <3>0, <3>1, <4>1, <4>2 DEF GotType
      <4>4. \A l \in Leases : \A e \in got'[l] : e \in got[l] \/ e \in Batch(n)
        BY <3>1, <4>2 DEF GotType
      <4>5. Lines'
        <5> SUFFICES ASSUME NEW l \in Leases, NEW e \in got'[l] PROVE e.seq <= e.line /\ e.line <= Len(log)
          BY <4>2 DEF Lines
        <5>. QED
          BY <1>1, <2>1, <4>2, <4>4 DEF Lines
      <4>. QED
        BY <4>3, <4>5
    <3>3. leases' \in Seq(LeaseStatus) /\ Len(leases') <= MaxLeases /\ db' \in DbState
          /\ queue' \in Seq(Command) /\ DOMAIN queue \subseteq DOMAIN queue'
      <4>1. Release(pump.lease, TRUE) \/ UNCHANGED <<leases, db, queue>>
        BY <1>4 DEF Upload
      <4>. QED
        BY <1>1, <1>2, <4>1, ReleaseTypes DEF PlaneTypes
    <3>4. pump' \in PumpFile /\ pump'.cursor <= Len(log) /\ pump'.seq <= pump'.cursor + 1 /\ faults' \in 0..MaxFaults
      <4>1. CASE lost
        BY <1>2, <1>4, <4>1 DEF Upload, Fault, TypeOK
      <4>2. CASE ~lost
        <5>1. pump' = AfterUpload(n) /\ faults' = faults
          BY <1>4, <4>2 DEF Upload
        <5>. QED
          BY <5>1, AfterUploadIs DEF TypeOK
      <4>. QED
        BY <4>1, <4>2
    <3>. QED
      BY <1>1, <3>2, <3>3, <3>4, <3>5 DEF PlaneTypes
  <2>. QED
    BY <2>2, <2>3
<1>5. ASSUME NEW settles \in BOOLEAN, NEW lost \in BOOLEAN, SubmitResult(settles, lost)
      PROVE  PlaneTypes' /\ Lines' /\ DOMAIN queue \subseteq DOMAIN queue'
             /\ pump' \in PumpFile /\ pump'.cursor <= Len(log) /\ pump'.seq <= pump'.cursor + 1
             /\ faults' \in 0..MaxFaults
  <2>1. pump.lease \in Leases /\ got' = got
    BY <1>2, <1>5 DEF SubmitResult, LeaseRef
  <2>2. results' \in ResultType
    <3>1. results' = [results EXCEPT ![pump.lease] = IF settles THEN "settled" ELSE IF @ = "none" THEN "pending" ELSE @]
      BY <1>5 DEF SubmitResult
    <3>. QED
      BY <1>1, <3>1 DEF ResultType, PlaneTypes
  <2>3. leases' \in Seq(LeaseStatus) /\ Len(leases') <= MaxLeases /\ db' \in DbState
          /\ queue' \in Seq(Command) /\ DOMAIN queue \subseteq DOMAIN queue'
    <3>1. Release(pump.lease, TRUE) \/ UNCHANGED <<leases, db, queue>>
      BY <1>5 DEF SubmitResult
    <3>. QED
      BY <1>1, <1>2, <3>1, ReleaseTypes DEF PlaneTypes
  <2>4. pump' \in PumpFile /\ pump'.cursor <= Len(log) /\ pump'.seq <= pump'.cursor + 1 /\ faults' \in 0..MaxFaults
    <3>1. pump' \in {pump, AfterSubmit(pump.lease)} /\ faults' \in 0..MaxFaults
      BY <1>5 DEF SubmitResult, Fault, TypeOK
    <3>. QED
      BY <1>2, <3>1, AfterSubmitIs
  <2>. QED
    BY <1>1, <1>3, <2>1, <2>2, <2>3, <2>4 DEF PlaneTypes, Lines
<1>6. PlaneTypes' /\ Lines' /\ DOMAIN queue \subseteq DOMAIN queue'
      /\ pump' \in PumpFile /\ pump'.cursor <= Len(log) /\ pump'.seq <= pump'.cursor + 1
      /\ faults' \in 0..MaxFaults
  BY <1>4, <1>5 DEF Flush
<1>7. NodeTypes' /\ BeatTypes'
  BY <1>1, <1>3, <1>6 DEF NodeTypes, BeatTypes
<1>. QED
  BY <1>6, <1>7, TypePartsAfter

\* A line added to the log.
LEMMA AddLine ==
  ASSUME TypeOK, NEW r \in LogLine, log' = Append(log, r)
  PROVE  log' \in Seq(LogLine) /\ Len(log') = Len(log) + 1 /\ \A k \in 1..Len(log) : log'[k] = log[k]
<1>1. log \in Seq(LogLine)
  BY Types
<1>. QED
  BY <1>1, AppendRow, Types

\* What a step that may write a line, and that moves the pump nowhere, keeps.
LEMMA LogTypes ==
  ASSUME TypeOK, NEW r \in LogLine, log' \in {log, Append(log, r)}, got' = got
  PROVE  log' \in Seq(LogLine) /\ Len(log') \in Nat /\ Len(log) <= Len(log') /\ Lines'
<1>1. log' \in Seq(LogLine) /\ Len(log') \in Nat /\ Len(log) <= Len(log')
  BY AddLine, Types
<1>2. ASSUME NEW l \in Leases, NEW e \in got[l]
      PROVE  e.seq <= e.line /\ e.line <= Len(log')
  <2>1. e \in [seq : Nat \ {0}, line : Nat \ {0}] /\ e.seq <= e.line /\ e.line <= Len(log)
    BY DEF TypeOK
  <2>. QED
    BY <1>1, <2>1, Types
<1>. QED
  BY <1>1, <1>2 DEF Lines

\* A step of the game server or of its plugin, or the loss of the agent.
LEMMA OutsideTypes ==
  ASSUME TypeOK, ServerUp \/ ServerDies \/ PluginWrites \/ AgentRestarts
  PROVE  TypeOK'
<1> USE AgentAssumption
<1>1. PlaneTypes /\ Lines /\ NodeTypes /\ BeatTypes
  BY TypeParts
<1>2. UNCHANGED <<leases, db, queue, got, results, pump, evidence>>
  BY DEF ServerUp, ServerDies, PluginWrites, AgentRestarts, pluginKeeps, controlVars
<1>3. faults' \in 0..MaxFaults
  BY DEF ServerUp, ServerDies, PluginWrites, AgentRestarts, Fault, TypeOK
<1>4. BeatTypes'
  <2>1. work' = work \/ work' = Idle
    BY DEF ServerUp, ServerDies, PluginWrites, AgentRestarts, pluginKeeps
  <2>2. Idle \in Heartbeat /\ Idle.hand = {}
    BY DEF Idle, Heartbeat
  <2>. QED
    BY <1>1, <1>2, <2>1, <2>2 DEF BeatTypes
<1>5. server' \in ServerState
  <2>1. server \in ServerState
    BY <1>1 DEF NodeTypes
  <2>2. ASSUME PluginWrites PROVE server' \in ServerState
    <3>1. PICK kind \in Follows[server.match.phase] : server' = [server EXCEPT !.match.phase = kind]
      BY <2>2 DEF PluginWrites
    <3>2. kind \in DOMAIN Follows
      BY <2>1, <3>1 DEF ServerState, Follows
    <3>. QED
      BY <2>1, <3>1, <3>2 DEF ServerState
  <2>3. ASSUME ServerUp \/ ServerDies PROVE server' \in ServerState
    <3>1. NoMatch \in [lease : LeaseRef, phase : DOMAIN Follows]
      BY DEF NoMatch, LeaseRef, Follows
    <3>2. PICK b \in BOOLEAN : server' = [server EXCEPT !.running = b, !.match = NoMatch]
      BY <2>3 DEF ServerUp, ServerDies
    <3>. QED
      BY <2>1, <3>1, <3>2 DEF ServerState
  <2>. QED
    BY <2>1, <2>2, <2>3 DEF AgentRestarts
<1>6. agent' \in Memory
  <2>1. agent \in Memory
    BY <1>1 DEF NodeTypes
  <2>2. agent' \in {agent, Orphaned, FreshAgent}
    BY DEF ServerUp, ServerDies, PluginWrites, AgentRestarts, pluginKeeps
  <2>3. Orphaned \in Memory
    BY <2>1 DEF Orphaned, Memory
  <2>4. FreshAgent \in Memory
    BY DEF FreshAgent, Memory
  <2>. QED
    BY <2>1, <2>2, <2>3, <2>4
<1>7. log' \in Seq(LogLine) /\ Len(log') \in Nat /\ Len(log) <= Len(log') /\ Lines'
  <2>1. CASE PluginWrites
    <3>1. PICK kind \in Follows[server.match.phase] : log' = Append(log, [lease |-> server.match.lease, kind |-> kind])
      BY <2>1 DEF PluginWrites
    <3>2. [lease |-> server.match.lease, kind |-> kind] \in LogLine
      BY <1>1, <3>1 DEF NodeTypes, ServerState, LogLine, Follows
    <3>. QED
      BY <1>2, <3>1, <3>2, LogTypes
  <2>2. CASE ~PluginWrites
    BY <1>1, <1>2, <2>2, Types DEF ServerUp, ServerDies, AgentRestarts, Lines
  <2>. QED
    BY <2>1, <2>2
<1>8. PlaneTypes'
  BY <1>1, <1>2 DEF PlaneTypes
<1>9. NodeTypes'
  <2>1. pump'.cursor <= Len(log')
    BY <1>1, <1>2, <1>7, Types DEF NodeTypes, PumpFile
  <2>. QED
    BY <1>1, <1>2, <1>5, <1>6, <1>7, <2>1 DEF NodeTypes
<1>. QED
  BY <1>3, <1>4, <1>7, <1>8, <1>9, TypePartsAfter

-----------------------------------------------------------------------------
(* The steps of the heartbeat.                                             *)

\* A manifest discarded by a heartbeat's look at the file, or by a start.
DiscardAt(pc) == DiscardManifest /\ work.pc = pc

\* What it does: the server goes idle, the file is empty, and it is not looked at
\* again; or the server did not answer and the file stays.
LEMMA DiscardIs ==
  ASSUME DiscardManifest
  PROVE  /\ pump.lease # NoLease /\ ~agent.checked /\ UNCHANGED log
         /\ \/ /\ work.pc = "reconcile" /\ work.alive /\ agent.state = "ready"
               /\ agent' = [agent EXCEPT !.desired = TRUE, !.checked = TRUE]
               /\ work' = NextCommand(work) /\ UNCHANGED <<controlVars, faults>>
            \/ /\ work.pc = "commands" /\ At("commands", "start") /\ server.running
               /\ agent' = [Started(agent) EXCEPT !.desired = TRUE, !.checked = TRUE]
               /\ Acknowledge(TRUE, "ready")
         /\ \/ /\ server.running /\ server' = [server EXCEPT !.match = NoMatch] /\ pump' = NoPump
               /\ evidence' = [evidence EXCEPT !.dropped = @ \cup {pump.lease}]
            \/ ~server.running /\ UNCHANGED <<server, pump, evidence>>
BY DEF DiscardManifest, At

\* The reply finds the match completed and its lease not yet released.
Early == Active(pump.lease) /\ results[pump.lease] = "completed"

\* The steps of the commands, a failure among them.
Executes ==
  \/ Start \/ PrepareRefused \/ PrepareManifest \/ PrepareServer \/ Prepared
  \/ SyncIdle \/ SyncServer \/ Synced
  \/ DrainDeferred \/ DrainAbandoned \/ DrainRechecked \/ DrainStopped \/ DrainTerminal \/ DrainAborts \/ DrainAborted
  \/ Quarantine \/ Unquarantine \/ CommandFails \/ DiscardAt("commands")
  \/ WaitFails("prepare", "warmup") \/ WaitFails("sync-roster", "synced") \/ WaitFails("drain", "aborted")

\* The steps of the heartbeat, the commands taken together.
LEMMA BeatSteps ==
  HeartbeatStep \/ CommandFails \/ DiscardManifest =>
    BeginHeartbeat \/ (\E lost \in BOOLEAN : SendHeartbeat(lost)) \/ Reconcile \/ DiscardAt("reconcile") \/ Executes
<1>1. DiscardManifest => DiscardAt("reconcile") \/ DiscardAt("commands")
  BY DEF DiscardManifest, DiscardAt, At
<1>. QED
  BY <1>1 DEF HeartbeatStep, Executes

\* The control plane has taken the answer.
Answered(ok, state) == queue' = [queue EXCEPT ![c0] = Answer(ok)] /\ db' = StateAfter(ok, state)

\* An acknowledgement is taken by the control plane, or the heartbeat is over.
LEMMA AcknowledgeIs ==
  ASSUME NEW ok \in BOOLEAN, NEW state, Acknowledge(ok, state)
  PROVE  /\ UNCHANGED <<leases, got, results>>
         /\ \/ Answered(ok, state) /\ (work' = Skipped \/ work' = Idle)
            \/ UNCHANGED <<queue, db>> /\ work' = Idle
BY DEF Acknowledge, Answered

\* The commands that answer by what they find.
LEMMA Answering ==
  Quarantine \/ Unquarantine \/ Synced => \E ok \in BOOLEAN : Acknowledge(ok, "ready")
<1>1. CASE Quarantine
  BY <1>1 DEF Quarantine
<1>2. CASE Unquarantine
  BY <1>2 DEF Unquarantine
<1>3. CASE Synced
  BY <1>3 DEF Synced
<1>. QED
  BY <1>1, <1>2, <1>3

\* The steps of a command, by its kind.
Suits(pc) ==
  /\ pc = "configure" => cmd.type = "prepare"
  /\ pc = "drain" => cmd.type = "drain"
  /\ pc = "await" => cmd.type \in {"prepare", "sync-roster", "drain"}

\* A command leaves the control plane as it is or answers, and then the
\* heartbeat goes on with the next command or is over.
LEMMA ExecutesIs ==
  ASSUME TypeOK, Executes
  PROVE  /\ work.hand # {} /\ UNCHANGED <<leases, got, results>>
         /\ work.pc \in {"commands", "configure", "await", "drain"}
         /\ \/ UNCHANGED <<queue, db>>
            \/ \E ok \in BOOLEAN, state \in {"ready", "offline"} : Answered(ok, state)
         /\ \/ work' = Skipped \/ work' = Idle
            \/ /\ UNCHANGED <<queue, db>>
               /\ \E pc \in {"configure", "await", "drain"}, k \in Nat :
                    Suits(pc) /\ work' = [work EXCEPT !.pc = pc, !.wait = k]
<1> DEFINE Stands == UNCHANGED <<queue, db>>
           Answers == \E ok \in BOOLEAN, state \in {"ready", "offline"} : Answered(ok, state)
           Ends == work' = Skipped \/ work' = Idle
           Goes == \E pc \in {"configure", "await", "drain"}, k \in Nat :
                     Suits(pc) /\ work' = [work EXCEPT !.pc = pc, !.wait = k]
           Goal == /\ work.hand # {} /\ UNCHANGED <<leases, got, results>>
                   /\ work.pc \in {"commands", "configure", "await", "drain"}
                   /\ (Stands \/ Answers) /\ (Ends \/ (Stands /\ Goes))
<1>0. work.hand # {} /\ work.pc \in {"commands", "configure", "await", "drain"}
  BY DEF Executes, Start, PrepareRefused, PrepareManifest, PrepareServer, Prepared, SyncIdle,
     SyncServer, Synced, DrainDeferred, DrainAbandoned, DrainRechecked, DrainStopped, DrainTerminal,
     DrainAborts, DrainAborted, Quarantine, Unquarantine, CommandFails, WaitFails, DiscardAt, DiscardManifest, At
<1>1. ASSUME NEW ok \in BOOLEAN, NEW state \in {"ready", "offline"}, Acknowledge(ok, state)
      PROVE  Goal
  BY <1>0, <1>1, AcknowledgeIs
<1>2. ASSUME UNCHANGED controlVars, work' = Skipped \/ work' = Idle
      PROVE  Goal
  BY <1>0, <1>2 DEF controlVars
<1>3. ASSUME UNCHANGED controlVars, NEW pc \in {"configure", "await", "drain"}, NEW k \in Nat,
             Suits(pc), work' = [work EXCEPT !.pc = pc, !.wait = k]
      PROVE  Goal
  BY <1>0, <1>3 DEF controlVars
<1> SUFFICES Goal
  OBVIOUS
<1> HIDE DEF Goal
<1>4. work \in Heartbeat /\ work.wait \in Nat /\ Len(log) \in Nat
  BY Types DEF TypeOK, Heartbeat
<1>5. ASSUME NEW pc \in {"configure", "await", "drain"}, work' = [work EXCEPT !.pc = pc]
      PROVE  work' = [work EXCEPT !.pc = pc, !.wait = work.wait]
  BY <1>4, <1>5 DEF Heartbeat
<1>6. TRUE \in BOOLEAN /\ FALSE \in BOOLEAN /\ "ready" \in {"ready", "offline"} /\ "offline" \in {"ready", "offline"}
  OBVIOUS
<1>8. CASE Start \/ PrepareRefused \/ Prepared \/ SyncIdle \/ DrainStopped \/ DrainAborted
  <2>1. \E ok \in BOOLEAN, state \in {"ready", "offline"} : Acknowledge(ok, state)
    BY <1>6, <1>8 DEF Start, PrepareRefused, Prepared, SyncIdle, DrainStopped, DrainAborted
  <2>. QED
    BY <1>1, <2>1
<1>9. CASE Quarantine \/ Unquarantine \/ Synced
  <2>1. \E ok \in BOOLEAN, state \in {"ready", "offline"} : Acknowledge(ok, state)
    BY <1>6, <1>9, Answering
  <2>. QED
    BY <1>1, <2>1
<1>10. CASE WaitFails("prepare", "warmup") \/ WaitFails("sync-roster", "synced") \/ WaitFails("drain", "aborted")
  <2>1. \E ok \in BOOLEAN, state \in {"ready", "offline"} : Acknowledge(ok, state)
    BY <1>6, <1>10 DEF WaitFails
  <2>. QED
    BY <1>1, <2>1
<1>11. CASE CommandFails
  <2>1. Answered(FALSE, "ready") /\ work' = Skipped /\ UNCHANGED <<leases, got, results>>
    BY <1>11 DEF CommandFails, Answered
  <2>. QED
    BY <1>0, <1>6, <2>1 DEF Goal
<1>12. CASE DrainDeferred \/ DrainAbandoned
  BY <1>2, <1>12 DEF DrainDeferred, DrainAbandoned, controlVars
<1>13. CASE PrepareManifest \/ DrainRechecked
  <2>1. PICK pc \in {"configure", "drain"} : work' = [work EXCEPT !.pc = pc] /\ UNCHANGED controlVars /\ Suits(pc)
    BY <1>13 DEF PrepareManifest, DrainRechecked, At, Suits
  <2>. QED
    BY <1>3, <1>4, <1>5, <2>1
<1>14. CASE PrepareServer
  <2>1. \/ work' = [work EXCEPT !.pc = "await", !.wait = Len(log)] /\ UNCHANGED controlVars /\ Suits("await")
        \/ Acknowledge(FALSE, "ready")
    BY <1>14 DEF PrepareServer, At, Suits
  <2>. QED
    BY <1>1, <1>3, <1>4, <1>6, <2>1
<1>15. CASE SyncServer
  <2>1. \/ work' = [work EXCEPT !.pc = "await", !.wait = Len(log)] /\ UNCHANGED controlVars /\ Suits("await")
        \/ Acknowledge(FALSE, "ready")
    BY <1>15 DEF SyncServer, At, Suits
  <2>. QED
    BY <1>1, <1>3, <1>4, <1>6, <2>1
<1>16. CASE DrainAborts
  <2>1. \/ work' = [work EXCEPT !.pc = "await", !.wait = Len(log)] /\ UNCHANGED controlVars /\ Suits("await")
        \/ Acknowledge(FALSE, "ready")
    BY <1>16 DEF DrainAborts, At, Suits
  <2>. QED
    BY <1>1, <1>3, <1>4, <1>6, <2>1
<1>17. CASE DrainTerminal
  <2>1. Acknowledge(TRUE, "offline") \/ Acknowledge(FALSE, "ready")
    BY <1>17 DEF DrainTerminal
  <2>. QED
    BY <1>1, <1>6, <2>1
<1>18. CASE DiscardAt("commands")
  <2>1. Acknowledge(TRUE, "ready")
    BY <1>18, DiscardIs DEF DiscardAt
  <2>. QED
    BY <1>1, <1>6, <2>1
<1>. QED
  BY <1>8, <1>9, <1>10, <1>11, <1>12, <1>13, <1>14, <1>15, <1>16, <1>17, <1>18 DEF Executes

\* What a heartbeat's look at the file does to the control plane and to itself.
LEMMA LooksAtFile ==
  ASSUME Reconcile \/ DiscardAt("reconcile")
  PROVE  /\ work.pc = "reconcile" /\ work' = NextCommand(work)
         /\ UNCHANGED <<leases, db, queue, got, results, log, faults>>
BY DiscardIs DEF Reconcile, DiscardAt, controlVars

\* What the heartbeat does to the control plane and to itself.
LEMMA BeatPlaneTypes ==
  ASSUME TypeOK, BeginHeartbeat \/ (\E lost \in BOOLEAN : SendHeartbeat(lost)) \/ Reconcile \/ DiscardAt("reconcile") \/ Executes
  PROVE  PlaneTypes' /\ BeatTypes' /\ faults' \in 0..MaxFaults /\ got' = got
<1> USE AgentAssumption
<1>1. PlaneTypes /\ BeatTypes /\ work \in Heartbeat /\ work.hand \subseteq DOMAIN queue
  BY TypeParts DEF BeatTypes
<1>2. Idle \in Heartbeat /\ Idle.hand = {}
  BY DEF Idle, Heartbeat
<1>3. CASE BeginHeartbeat
  <2>1. UNCHANGED <<leases, db, queue, got, results, faults>>
        /\ work' \in {[Idle EXCEPT !.pc = "send", !.defer = TRUE], [Idle EXCEPT !.pc = "send"]}
    BY <1>3 DEF BeginHeartbeat, controlVars
  <2>2. BeatTypes'
    <3>1. [Idle EXCEPT !.pc = "send", !.defer = TRUE] \in Heartbeat /\ [Idle EXCEPT !.pc = "send"] \in Heartbeat
      BY DEF Idle, Heartbeat
    <3>2. work'.hand = {}
      BY <2>1 DEF Idle
    <3>. QED
      BY <2>1, <3>1, <3>2 DEF BeatTypes
  <2>. QED
    BY <1>1, <2>1, <2>2 DEF PlaneTypes, TypeOK
<1>4. ASSUME NEW lost \in BOOLEAN, SendHeartbeat(lost)
      PROVE  PlaneTypes' /\ BeatTypes' /\ faults' \in 0..MaxFaults /\ got' = got
  <2> DEFINE due == {c \in DOMAIN queue : queue[c].status = "pending" /\ ~queue[c].resting
                       /\ (work.defer => queue[c].type # "drain")}
  <2>1. /\ db' = IF db \in Kept THEN db ELSE IF agent.quarantined THEN "offline" ELSE agent.state
        /\ queue' = [c \in DOMAIN queue |-> IF c \in due THEN Claimed(queue[c]) ELSE queue[c]]
        /\ work' = IF lost THEN Idle
                   ELSE [work EXCEPT !.pc = "reconcile", !.hand = due, !.alive = Alive, !.early = Early]
        /\ UNCHANGED <<leases, got, results>>
    BY <1>4 DEF SendHeartbeat, Early
  <2>2. \A c \in DOMAIN queue : queue[c] \in Command /\ Claimed(queue[c]) \in Command
    <3> SUFFICES ASSUME NEW c \in DOMAIN queue PROVE queue[c] \in Command /\ Claimed(queue[c]) \in Command
      OBVIOUS
    <3>1. queue[c] \in Command
      BY Types
    <3>2. queue[c].tries \in 0..MaxAttempts /\ (queue[c].tries < MaxAttempts => queue[c].tries + 1 \in 0..MaxAttempts)
      BY <3>1 DEF Command
    <3>. QED
      BY <3>1, <3>2 DEF Claimed, Command
  <2>3. queue' \in Seq(Command) /\ DOMAIN queue' = DOMAIN queue
    <3>1. queue' = [c \in DOMAIN queue |-> queue'[c]] /\ \A c \in DOMAIN queue : queue'[c] \in Command
      BY <2>1, <2>2
    <3>. QED
      BY <3>1, Types, MapRows
  <2>4. db' \in DbState
    BY <2>1, Types DEF TypeOK, Memory, DbState
  <2>5. BeatTypes'
    <3>1. due \subseteq DOMAIN queue /\ due \subseteq Nat \ {0} /\ Alive \in BOOLEAN /\ Early \in BOOLEAN
      BY Types DEF Alive, Early, InPlay, Active
    <3> DEFINE alive == Alive
               early == Early
    <3> HIDE DEF due, alive, early
    <3>2. [work EXCEPT !.pc = "reconcile", !.hand = due, !.alive = alive, !.early = early] \in Heartbeat
          /\ [work EXCEPT !.pc = "reconcile", !.hand = due, !.alive = alive, !.early = early].hand = due
      BY <1>1, <3>1 DEF Heartbeat, alive, early
    <3>. QED
      BY <1>2, <2>1, <2>3, <3>1, <3>2 DEF BeatTypes, alive, early
  <2>6. faults' \in 0..MaxFaults
    <3>1. faults' = faults \/ Fault
      BY <1>4 DEF SendHeartbeat
    <3>. QED
      BY <3>1 DEF Fault, TypeOK
  <2>. QED
    BY <1>1, <2>1, <2>3, <2>4, <2>5, <2>6 DEF PlaneTypes
<1>5. CASE Reconcile \/ DiscardAt("reconcile")
  <2>1. work' = NextCommand(work) /\ UNCHANGED <<leases, db, queue, got, results, faults>>
    BY <1>5, LooksAtFile
  <2>2. BeatTypes'
    BY <1>1, <1>2, <2>1 DEF BeatTypes, NextCommand, Heartbeat
  <2>. QED
    BY <1>1, <2>1, <2>2 DEF PlaneTypes, TypeOK
<1>6. CASE Executes
  <2>1. /\ work.hand # {} /\ UNCHANGED <<leases, got, results>>
        /\ \/ UNCHANGED <<queue, db>>
           \/ \E ok \in BOOLEAN, state \in {"ready", "offline"} : Answered(ok, state)
        /\ \/ work' = Skipped \/ work' = Idle
           \/ /\ UNCHANGED <<queue, db>>
              /\ \E pc \in {"configure", "await", "drain"}, k \in Nat :
                   Suits(pc) /\ work' = [work EXCEPT !.pc = pc, !.wait = k]
    BY <1>6, ExecutesIs
  <2>2. queue' \in Seq(Command) /\ DOMAIN queue' = DOMAIN queue /\ db' \in DbState
    <3>1. CASE UNCHANGED <<queue, db>>
      BY <3>1, Types
    <3>2. ASSUME NEW ok \in BOOLEAN, NEW state \in {"ready", "offline"}, Answered(ok, state)
          PROVE  queue' \in Seq(Command) /\ DOMAIN queue' = DOMAIN queue /\ db' \in DbState
      <4>1. c0 \in DOMAIN queue /\ Answer(ok) \in Command
        BY <2>1, InHand, AnswerType
      <4>2. StateAfter(ok, state) \in DbState
        BY Types DEF StateAfter, DbState
      <4>. QED
        BY <3>2, <4>1, <4>2, ReplaceRow DEF Answered
    <3>. QED
      BY <2>1, <3>1, <3>2
  <2>3. work' \in Heartbeat /\ work'.hand \subseteq work.hand
    <3>1. Skipped \in Heartbeat /\ Skipped.hand \subseteq work.hand
      BY <1>1, <1>2 DEF Skipped, NextCommand, Heartbeat
    <3>2. ASSUME NEW pc \in {"configure", "await", "drain"}, NEW k \in Nat, work' = [work EXCEPT !.pc = pc, !.wait = k]
          PROVE  work' \in Heartbeat /\ work'.hand \subseteq work.hand
      BY <1>1, <3>2 DEF Heartbeat
    <3>. QED
      BY <1>2, <2>1, <3>1, <3>2
  <2>4. faults' \in 0..MaxFaults
    <3>1. faults' = faults \/ Fault
      BY <1>6 DEF Executes, Start, PrepareRefused, PrepareManifest, PrepareServer, Prepared, SyncIdle,
        SyncServer, Synced, DrainDeferred, DrainAbandoned, DrainRechecked, DrainStopped, DrainTerminal,
        DrainAborts, DrainAborted, Quarantine, Unquarantine, CommandFails, WaitFails, DiscardAt, DiscardManifest,
        Acknowledge
    <3>. QED
      BY <3>1 DEF Fault, TypeOK
  <2>. QED
    BY <1>1, <2>1, <2>2, <2>3, <2>4 DEF PlaneTypes, BeatTypes
<1>. QED
  BY <1>3, <1>4, <1>5, <1>6

\* What the heartbeat does to the node.
LEMMA BeatNodeTypes ==
  ASSUME TypeOK, BeginHeartbeat \/ (\E lost \in BOOLEAN : SendHeartbeat(lost)) \/ Reconcile \/ DiscardAt("reconcile") \/ Executes, got' = got
  PROVE  NodeTypes' /\ Lines'
<1> USE AgentAssumption
<1>1. /\ Lines /\ log \in Seq(LogLine) /\ Len(log) \in Nat /\ server \in ServerState /\ pump \in PumpFile
      /\ pump.cursor <= Len(log) /\ pump.seq <= pump.cursor + 1 /\ agent \in Memory
      /\ evidence \in [demo : SUBSET LeaseRef, shown : SUBSET LeaseRef, anew : SUBSET Leases, dropped : SUBSET Leases]
      /\ pump.lease \in LeaseRef
  BY TypeParts, Types DEF NodeTypes, PumpFile
<1>2. Len(log) >= 0 /\ 1 <= Len(log) + 1
  BY <1>1
<1>3. NoMatch \in [lease : LeaseRef, phase : DOMAIN Follows]
  BY DEF NoMatch, LeaseRef, Follows
<1>4. NoPump \in PumpFile /\ NoPump.cursor <= Len(log) /\ NoPump.seq <= NoPump.cursor + 1
  BY <1>2 DEF NoPump, PumpFile, LeaseRef
<1>5. ASSUME NEW l \in LeaseRef
      PROVE  /\ Begin(l) \in PumpFile /\ Begin(l).cursor = Len(log) /\ Begin(l).seq = 1
             /\ [lease |-> l, phase |-> "idle"] \in [lease : LeaseRef, phase : DOMAIN Follows]
  BY <1>1, <1>4 DEF Begin, NoPump, PumpFile, Follows
<1>6. work.hand # {} => cmd \in Command /\ cmd.lease \in LeaseRef /\ cmd.rev \in 0..MaxRevision
  BY InHand DEF Command, LeaseRef
<1>7. Abortable => [lease |-> server.match.lease, kind |-> "aborted"] \in LogLine
  BY <1>1 DEF LogLine, ServerState
\* The parts, one at a time.
<1>8. ASSUME UNCHANGED log PROVE log' \in Seq(LogLine) /\ Len(log) <= Len(log') /\ Len(log') \in Nat /\ Lines'
  BY <1>1, <1>8 DEF Lines
<1>9. log' \in Seq(LogLine) /\ Len(log) <= Len(log') /\ Len(log') \in Nat /\ Lines'
  <2>1. CASE UNCHANGED log
    BY <1>8, <2>1
  <2>2. ASSUME NEW r \in LogLine, log' = Append(log, r)
        PROVE  log' \in Seq(LogLine) /\ Len(log) <= Len(log') /\ Len(log') \in Nat /\ Lines'
    BY <2>2, LogTypes
  <2>3. CASE Quarantine \/ DrainAborts
    <3>1. log' = log \/ log' = AbortLog
      BY <2>3 DEF Quarantine, DrainAborts
    <3>. QED
      BY <1>7, <2>1, <2>2, <3>1 DEF AbortLog
  <2>4. CASE SyncServer
    <3>1. log' = log \/ log' = Append(log, [lease |-> server.match.lease, kind |-> "synced"])
      BY <2>4 DEF SyncServer
    <3>2. [lease |-> server.match.lease, kind |-> "synced"] \in LogLine
      BY <1>1 DEF LogLine, ServerState
    <3>. QED
      BY <2>1, <2>2, <3>1, <3>2
  <2>. QED
    BY <2>1, <2>3, <2>4 DEF BeginHeartbeat, SendHeartbeat, Reconcile, Executes, Start, PrepareRefused,
      PrepareManifest, PrepareServer, Prepared, SyncIdle, Synced, DrainDeferred, DrainAbandoned, DrainRechecked,
      DrainStopped, DrainTerminal, DrainAborted, Unquarantine, CommandFails, WaitFails, DiscardAt, DiscardManifest
<1>10. server' \in ServerState
  <2> DEFINE Playing(m) == [server EXCEPT !.match = m]
             Obeying(p) == [server EXCEPT !.policy = p]
  <2>1. \A m \in [lease : LeaseRef, phase : DOMAIN Follows] : Playing(m) \in ServerState
    BY <1>1 DEF ServerState
  <2>2. \A p \in [lease : LeaseRef, rev : 0..MaxRevision] : Obeying(p) \in ServerState
    BY <1>1 DEF ServerState
  <2>3. Stopped \in ServerState /\ AbortServer \in ServerState
    BY <1>1, <1>3 DEF Stopped, AbortServer, ServerState, Follows
  <2>4. CASE BeginHeartbeat \/ (\E lost \in BOOLEAN : SendHeartbeat(lost)) \/ PrepareRefused \/ Prepared \/ Synced
             \/ DrainDeferred \/ DrainAbandoned \/ DrainRechecked \/ DrainStopped \/ Unquarantine \/ CommandFails
             \/ WaitFails("prepare", "warmup") \/ WaitFails("sync-roster", "synced") \/ WaitFails("drain", "aborted")
    BY <1>1, <2>4 DEF BeginHeartbeat, SendHeartbeat, PrepareRefused, Prepared, Synced, DrainDeferred, DrainAbandoned,
      DrainRechecked, DrainStopped, Unquarantine, CommandFails, WaitFails
  <2>5. CASE Reconcile
    <3>1. server' \in {server, RestoredServer, Stopped}
      BY <2>5 DEF Reconcile
    <3>2. RestoredServer \in {server, Playing([lease |-> pump.lease, phase |-> "idle"])}
      BY DEF RestoredServer
    <3>3. Playing([lease |-> pump.lease, phase |-> "idle"]) \in ServerState
      BY <1>1, <1>5, <2>1
    <3> HIDE DEF Playing
    <3>. QED
      BY <1>1, <2>3, <3>1, <3>2, <3>3
  <2>6. CASE Start
    <3>1. server' \in {server, Playing([lease |-> pump.lease, phase |-> "idle"])}
      BY <2>6 DEF Start
    <3>. QED
      BY <1>1, <1>5, <2>1, <3>1
  <2>7. CASE PrepareManifest \/ SyncIdle \/ SyncServer
    <3>1. cmd.lease \in LeaseRef /\ cmd.rev \in 0..MaxRevision /\ 0 \in 0..MaxRevision
      <4>1. work.hand # {}
        BY <2>7 DEF PrepareManifest, SyncIdle, SyncServer, At
      <4>. QED
        BY <1>6, <4>1
    <3>2. server' \in {server, Obeying([lease |-> cmd.lease, rev |-> cmd.rev]), Obeying([lease |-> cmd.lease, rev |-> 0])}
      BY <2>7 DEF PrepareManifest, SyncIdle, SyncServer
    <3>. QED
      BY <1>1, <2>2, <3>1, <3>2
  <2>8. CASE PrepareServer
    <3>1. cmd.lease \in LeaseRef
      BY <1>6, <2>8 DEF PrepareServer, At
    <3>2. server' \in {server, Playing([lease |-> cmd.lease, phase |-> IF Abortable THEN server.match.phase ELSE "idle"])}
      BY <1>1, <2>8 DEF PrepareServer, ServerState
    <3>3. (IF Abortable THEN server.match.phase ELSE "idle") \in DOMAIN Follows
      BY <1>1 DEF ServerState, Follows
    <3>. QED
      BY <1>1, <2>1, <3>1, <3>2, <3>3
  <2>9. CASE DrainTerminal \/ DrainAborts \/ DrainAborted \/ Quarantine
    <3>1. server' \in {server, Stopped, AbortServer, Playing(NoMatch)}
      BY <2>9 DEF DrainTerminal, DrainAborts, DrainAborted, Quarantine
    <3>. QED
      BY <1>1, <1>3, <2>1, <2>3, <3>1
  <2>10. CASE DiscardManifest
    <3>1. server' \in {server, Playing(NoMatch)}
      BY <2>10, DiscardIs
    <3>. QED
      BY <1>1, <1>3, <2>1, <3>1
  <2>. QED
    BY <2>4, <2>5, <2>6, <2>7, <2>8, <2>9, <2>10 DEF Executes, DiscardAt
<1>11. pump' \in PumpFile /\ pump'.cursor <= Len(log) /\ pump'.seq <= pump'.cursor + 1
  <2>1. [pump EXCEPT !.receipt = FALSE] \in PumpFile /\ [pump EXCEPT !.receipt = FALSE].cursor = pump.cursor
        /\ [pump EXCEPT !.receipt = FALSE].seq = pump.seq
    BY <1>1 DEF PumpFile
  <2>2. CASE PrepareManifest
    <3>1. pump' = Begin(cmd.lease) /\ cmd.lease \in LeaseRef
      BY <1>6, <2>2 DEF PrepareManifest, At
    <3>. QED
      BY <1>1, <1>5, <3>1
  <2>3. CASE Synced
    <3>1. pump' \in {pump, [pump EXCEPT !.rev = cmd.rev]} /\ cmd.rev \in 0..MaxRevision
      BY <1>6, <2>3 DEF Synced, At
    <3>. QED
      BY <1>1, <3>1 DEF PumpFile
  <2>4. CASE ~PrepareManifest /\ ~Synced
    <3>1. pump' \in {pump, [pump EXCEPT !.receipt = FALSE], NoPump}
      BY <2>4 DEF BeginHeartbeat, SendHeartbeat, Reconcile, Executes, Start, PrepareRefused, ShowReceipt,
        PrepareServer, Prepared, SyncIdle, SyncServer, DrainDeferred, DrainAbandoned, DrainRechecked,
        DrainStopped, DrainTerminal, DrainAborts, DrainAborted, Quarantine, Unquarantine, CommandFails, WaitFails,
        DiscardAt, DiscardManifest
    <3>. QED
      BY <1>1, <1>4, <2>1, <3>1
  <2>. QED
    BY <2>2, <2>3, <2>4
<1>12. agent' \in Memory
  <2>1. ASSUME NEW a \in Memory PROVE Refreshed(a) \in Memory /\ Started(a) \in Memory
    BY <2>1 DEF Refreshed, Started, Memory
  <2>2. pump.lease \in 0..MaxLeases
    BY <1>1 DEF LeaseRef, Leases, NoLease
  <2>3. CASE BeginHeartbeat
    <3>1. agent' \in {Refreshed(agent), Refreshed(Started(agent))}
      BY <2>3 DEF BeginHeartbeat
    <3>. QED
      BY <1>1, <2>1, <3>1
  <2>4. CASE Start
    <3>1. Started(agent) \in Memory
      BY <1>1, <2>1
    <3> DEFINE a == [Started(agent) EXCEPT !.desired = TRUE]
    <3>2. a \in Memory
      BY <3>1 DEF Memory
    <3>3. \E b \in BOOLEAN : agent' \in {[a EXCEPT !.checked = b], [a EXCEPT !.fence = pump.lease, !.checked = TRUE]}
      <4>1. (a.checked \/ (server.running /\ ~a.checked)) \in BOOLEAN
        BY <3>2 DEF Memory
      <4>. QED
        BY <2>4, <4>1 DEF Start
    <3> HIDE DEF a
    <3>. QED
      BY <2>2, <3>2, <3>3 DEF Memory
  <2>5. CASE Reconcile
    <3>1. Restored \in Memory
      BY <1>1, <2>2 DEF Restored, Memory
    <3>2. \/ agent' = agent \/ agent' = [Restored EXCEPT !.desired = TRUE]
          \/ agent' = [agent EXCEPT !.desired = FALSE, !.checked = TRUE, !.state = "offline",
                         !.child = IF agent.state = "ready" THEN FALSE ELSE @]
      BY <2>5 DEF Reconcile
    <3>3. [Restored EXCEPT !.desired = TRUE] \in Memory
      BY <3>1 DEF Memory
    <3>4. [agent EXCEPT !.desired = FALSE, !.checked = TRUE, !.state = "offline",
             !.child = IF agent.state = "ready" THEN FALSE ELSE @] \in Memory
      BY <1>1 DEF Memory
    <3>. QED
      BY <1>1, <3>2, <3>3, <3>4
  <2>6. CASE Prepared
    <3>1. cmd.lease \in 0..MaxLeases
      BY <1>6, <2>6 DEF Prepared, At, LeaseRef, Leases, NoLease
    <3>. QED
      BY <1>1, <2>6, <3>1 DEF Prepared, Memory
  <2>7. CASE Unquarantine
    <3> DEFINE a == [agent EXCEPT !.quarantined = FALSE]
    <3>1. a \in Memory
      BY <1>1 DEF Memory
    <3>2. agent' \in {a, Refreshed(a)}
      BY <2>7 DEF Unquarantine
    <3> HIDE DEF a
    <3>. QED
      BY <2>1, <3>1, <3>2
  <2>8. CASE DrainStopped \/ DrainTerminal \/ DrainAborts \/ DrainAborted \/ Quarantine
    <3>1. agent' \in {agent, [agent EXCEPT !.checked = TRUE], [agent EXCEPT !.state = "draining"],
                      [agent EXCEPT !.checked = TRUE, !.state = "ready"], [agent EXCEPT !.quarantined = TRUE],
                      [Orphaned EXCEPT !.desired = FALSE, !.checked = TRUE]}
      BY <2>8 DEF DrainStopped, DrainTerminal, DrainAborts, DrainAborted, Quarantine
    <3>2. [Orphaned EXCEPT !.desired = FALSE, !.checked = TRUE] \in Memory
      <4>1. Orphaned \in Memory
        BY <1>1 DEF Orphaned, Memory
      <4>. QED
        BY <4>1 DEF Memory
    <3>3. [agent EXCEPT !.checked = TRUE] \in Memory /\ [agent EXCEPT !.state = "draining"] \in Memory
      BY <1>1 DEF Memory
    <3>4. [agent EXCEPT !.checked = TRUE, !.state = "ready"] \in Memory
      BY <1>1 DEF Memory
    <3>5. [agent EXCEPT !.quarantined = TRUE] \in Memory
      BY <1>1 DEF Memory
    <3>. QED
      BY <1>1, <3>1, <3>2, <3>3, <3>4, <3>5
  <2>9. CASE (\E lost \in BOOLEAN : SendHeartbeat(lost)) \/ PrepareRefused \/ PrepareManifest \/ PrepareServer
             \/ SyncIdle \/ SyncServer \/ Synced \/ DrainDeferred \/ DrainAbandoned \/ DrainRechecked \/ CommandFails
             \/ WaitFails("prepare", "warmup") \/ WaitFails("sync-roster", "synced") \/ WaitFails("drain", "aborted")
    BY <1>1, <2>9 DEF SendHeartbeat, PrepareRefused, PrepareManifest, PrepareServer, SyncIdle, SyncServer, Synced,
      DrainDeferred, DrainAbandoned, DrainRechecked, CommandFails, WaitFails
  <2>10. CASE DiscardManifest
    <3>1. Started(agent) \in Memory
      BY <1>1, <2>1
    <3>2. agent' \in {[agent EXCEPT !.desired = TRUE, !.checked = TRUE], [Started(agent) EXCEPT !.desired = TRUE, !.checked = TRUE]}
      BY <2>10, DiscardIs
    <3>. QED
      BY <1>1, <3>1, <3>2 DEF Memory
  <2>. QED
    BY <2>3, <2>4, <2>5, <2>6, <2>7, <2>8, <2>9, <2>10 DEF Executes, DiscardAt
<1>13. evidence' \in [demo : SUBSET LeaseRef, shown : SUBSET LeaseRef, anew : SUBSET Leases, dropped : SUBSET Leases]
  <2>1. CASE PrepareManifest
    <3>1. cmd.lease \in LeaseRef /\ agent.fence \in Nat /\ cmd.lease > agent.fence
      BY <1>1, <1>6, <2>1 DEF PrepareManifest, At, Memory
    <3>2. cmd.lease \in Leases
      BY <3>1 DEF LeaseRef, NoLease
    <3>3. cmd.lease < pump.lease => pump.lease \in Leases
      BY <1>1, <3>2 DEF LeaseRef, Leases, NoLease
    <3>. QED
      BY <1>1, <2>1, <3>2, <3>3 DEF PrepareManifest
  <2>3. CASE DiscardManifest
    <3>1. pump.lease \in Leases
      BY <1>1, <2>3, DiscardIs DEF LeaseRef
    <3>. QED
      BY <1>1, <2>3, <3>1, DiscardIs
  <2>2. CASE ~PrepareManifest /\ ~DiscardManifest
    <3>1. evidence' \in {evidence, [evidence EXCEPT !.shown = @ \cup {pump.lease}], Demo}
      BY <2>2 DEF BeginHeartbeat, SendHeartbeat, Reconcile, Executes, Start, PrepareRefused, ShowReceipt,
        PrepareServer, Prepared, SyncIdle, SyncServer, Synced, DrainDeferred, DrainAbandoned, DrainRechecked,
        DrainStopped, DrainTerminal, DrainAborts, DrainAborted, Quarantine, Unquarantine, CommandFails, WaitFails,
        DiscardAt
    <3>. QED
      BY <1>1, <3>1 DEF Demo
  <2>. QED
    BY <2>1, <2>2, <2>3
<1>14. pump'.cursor <= Len(log')
  BY <1>1, <1>9, <1>11 DEF PumpFile
<1>. QED
  BY <1>9, <1>10, <1>11, <1>12, <1>13, <1>14 DEF NodeTypes

\* Every step keeps the types.
LEMMA NextTypes == TypeOK /\ [Next]_vars => TypeOK'
<1> SUFFICES ASSUME TypeOK, [Next]_vars PROVE TypeOK'
  OBVIOUS
<1>1. CASE Control
  BY <1>1, ControlTypes
<1>2. CASE Flush
  BY <1>2, FlushTypes
<1>3. CASE HeartbeatStep \/ CommandFails \/ DiscardManifest
  <2>1. BeginHeartbeat \/ (\E lost \in BOOLEAN : SendHeartbeat(lost)) \/ Reconcile \/ DiscardAt("reconcile") \/ Executes
    BY <1>3, BeatSteps
  <2>. QED
    BY <2>1, BeatPlaneTypes, BeatNodeTypes, TypePartsAfter
<1>4. CASE ServerUp \/ ServerDies \/ PluginWrites \/ AgentRestarts
  BY <1>4, OutsideTypes
<1>5. CASE UNCHANGED vars
  BY <1>5, TypeParts, TypePartsAfter DEF vars, controlVars, PlaneTypes, Lines, NodeTypes, BeatTypes
<1>. QED
  BY <1>1, <1>2, <1>3, <1>4, <1>5 DEF Next

\* The tables, the file and the memory have their types, for every bound.
THEOREM AgentTypes == Spec => []TypeOK
<1>. QED
  BY InitTypes, NextTypes, PTL DEF Spec

-----------------------------------------------------------------------------
(* The leases, the instance and the commands that clear it.                *)

\* A command that is neither done nor given up, and one that clears the instance.
Unfinished(c) == queue[c].status \in {"pending", "claimed"}
Clearing(c) == Unfinished(c) /\ queue[c].type \in {"drain", "quarantine", "unquarantine"}

\* Only the latest lease is active, on an instance that is leased to it or
\* quarantined meanwhile.
Latest == \A l \in Leases : Active(l) => l = Len(leases) /\ db \in {"leased", "quarantined"}

\* While a command that clears the instance is outstanding, no lease is active
\* and the instance is out of service; an operator's return is alone, and so is
\* the drain of the latest lease.
Clears ==
  \A c \in DOMAIN queue : Clearing(c) =>
    /\ \A l \in Leases : ~Active(l)
    /\ db = "quarantined" \/ (db = "draining" /\ queue[c].type = "drain")
    /\ queue[c].type = "unquarantine" => \A d \in DOMAIN queue : d # c => ~Clearing(d)
    /\ queue[c].type = "drain" =>
         /\ queue[c].lease = Len(leases)
         /\ \A d \in DOMAIN queue : d # c /\ Clearing(d) => queue[d].type # "drain"

\* The file, the commands, the events and the results are of leases that were
\* granted.
Known ==
  /\ pump.lease <= Len(leases)
  /\ \A c \in DOMAIN queue :
       /\ queue[c].lease <= Len(leases)
       /\ queue[c].type \in {"prepare", "sync-roster", "drain", "quarantine"} => queue[c].lease # NoLease
  /\ \A l \in Leases : l > Len(leases) => got[l] = {} /\ results[l] = "none"

\* The commands in hand are claimed, and the heartbeat stands at a command of
\* the kind its step is for.
HandShape ==
  /\ \A c \in work.hand : queue[c].status = "claimed"
  /\ work.pc \in {"commands", "configure", "await", "drain"} => work.hand # {}
  /\ work.pc \in {"idle", "send"} => work.hand = {}
  /\ work.pc = "configure" => cmd.type = "prepare"
  /\ work.pc = "drain" => cmd.type = "drain"
  /\ work.pc = "await" => cmd.type \in {"prepare", "sync-roster", "drain"}

\* A step that leaves every lease as active as it was, puts no command up again
\* that was finished, adds none that clears, and at most quarantines an
\* instance that is in use.
LEMMA QuietStep ==
  ASSUME TypeOK, TypeOK', Latest, Clears, Len(leases') = Len(leases),
         \A l \in Leases : Active(l)' => Active(l),
         \A c \in DOMAIN queue :
           /\ c \in DOMAIN queue'
           /\ queue'[c].type = queue[c].type /\ queue'[c].lease = queue[c].lease
           /\ Unfinished(c)' => Unfinished(c),
         \A c \in DOMAIN queue' : Clearing(c)' => c \in DOMAIN queue,
         db' = db \/ db \notin Kept \/ db' = "quarantined"
  PROVE  Latest' /\ Clears'
<1>1. Latest'
  BY DEF Latest, Kept
<1>2. \A c \in DOMAIN queue' : Clearing(c)' => c \in DOMAIN queue /\ Clearing(c)
  BY DEF Clearing
<1>3. Clears'
  <2> SUFFICES ASSUME NEW c \in DOMAIN queue', Clearing(c)'
      PROVE  /\ \A l \in Leases : ~Active(l)'
             /\ db' = "quarantined" \/ (db' = "draining" /\ queue'[c].type = "drain")
             /\ queue'[c].type = "unquarantine" => \A d \in DOMAIN queue' : d # c => ~Clearing(d)'
             /\ queue'[c].type = "drain" =>
                  /\ queue'[c].lease = Len(leases')
                  /\ \A d \in DOMAIN queue' : d # c /\ Clearing(d)' => queue'[d].type # "drain"
    BY DEF Clears
  <2>1. c \in DOMAIN queue /\ Clearing(c) /\ queue'[c].type = queue[c].type /\ queue'[c].lease = queue[c].lease
    BY <1>2
  <2>2. /\ \A l \in Leases : ~Active(l)
        /\ db = "quarantined" \/ (db = "draining" /\ queue[c].type = "drain")
        /\ queue[c].type = "unquarantine" => \A d \in DOMAIN queue : d # c => ~Clearing(d)
        /\ queue[c].type = "drain" =>
             /\ queue[c].lease = Len(leases)
             /\ \A d \in DOMAIN queue : d # c /\ Clearing(d) => queue[d].type # "drain"
    BY <2>1 DEF Clears
  <2>3. \A d \in DOMAIN queue' : Clearing(d)' => d \in DOMAIN queue /\ Clearing(d) /\ queue'[d].type = queue[d].type
    BY <1>2
  <2>. QED
    BY <2>1, <2>2, <2>3 DEF Kept
<1>. QED
  BY <1>1, <1>3

\* A step that ends the active lease and has the instance cleared.
LEMMA EndingStep ==
  ASSUME TypeOK, TypeOK', Latest, Clears, NEW l \in Leases, Active(l),
         NEW s, s # "active", leases' = [leases EXCEPT ![l] = s],
         NEW r \in Command, queue' = Append(queue, r), r.lease = l,
         r.type \in {"quarantine", "drain"}, db' \in {"quarantined", "draining"},
         r.type = "quarantine" => db' = "quarantined"
  PROVE  Latest' /\ Clears' /\ Len(leases') = Len(leases) /\ \A k \in Leases : ~Active(k)'
<1>1. l \in DOMAIN leases /\ l = Len(leases) /\ Len(leases') = Len(leases) /\ DOMAIN leases' = DOMAIN leases
      /\ leases'[l] # "active" /\ \A k \in DOMAIN leases : k # l => leases'[k] = leases[k]
  BY Types DEF Latest, Active
<1>2. \A k \in Leases : ~Active(k)'
  BY <1>1 DEF Latest, Active
<1>3. \A c \in DOMAIN queue : ~Clearing(c)
  BY DEF Clears
<1>4. \A c \in DOMAIN queue' : Clearing(c)' => c = Len(queue) + 1 /\ queue'[c] = r
  BY <1>3, AddRow DEF Clearing, Unfinished
<1>5. Clears'
  BY <1>1, <1>2, <1>4 DEF Clears
<1>. QED
  BY <1>1, <1>2, <1>5 DEF Latest

\* Handing back a lease does one or the other.
LEMMA ReleaseStep ==
  ASSUME TypeOK, TypeOK', Latest, Clears, NEW l \in Leases, NEW b \in BOOLEAN, Release(l, b)
  PROVE  Latest' /\ Clears' /\ Len(leases') = Len(leases) /\ (\A k \in Leases : Active(k)' => Active(k))
         /\ \A c \in DOMAIN queue' : c \notin DOMAIN queue => queue'[c].lease = l
<1>1. CASE ~Active(l)
  <2>1. UNCHANGED <<leases, db, queue>>
    BY <1>1 DEF Release
  <2>. QED
    BY <2>1, QuietStep DEF Active, Unfinished, Clearing
<1>2. CASE Active(l)
  <2> DEFINE r == NewCommand("drain", l, 0, b)
  <2>1. leases' = [leases EXCEPT ![l] = "released"] /\ db' = "draining" /\ queue' = Append(queue, r)
    BY <1>2 DEF Release
  <2>2. r \in Command /\ r.lease = l /\ r.type = "drain"
    BY AgentAssumption DEF NewCommand, Command, CommandType
  <2> HIDE DEF r
  <2>3. "released" # "active"
    OBVIOUS
  <2>. QED
    BY <1>2, <2>1, <2>2, <2>3, EndingStep, AddRow
<1>. QED
  BY <1>1, <1>2

\* The queue's part of Known, and what the hand's shape depends on.
LEMMA HandStays ==
  ASSUME TypeOK, HandShape, work' = work,
         \A c \in work.hand : queue'[c].type = queue[c].type /\ queue'[c].status = queue[c].status
  PROVE  HandShape'
<1>1. work.hand # {} => c0 \in work.hand
  BY InHand
<1>2. c0' = c0
  BY DEF c0
<1>3. work.hand # {} => cmd'.type = cmd.type
  BY <1>1, <1>2 DEF cmd
<1>. QED
  BY <1>3 DEF HandShape

\* Known, when one row or none is added, of a lease that exists.
LEMMA KnownStays ==
  ASSUME TypeOK, TypeOK', Known, Len(leases) <= Len(leases'),
         \A c \in DOMAIN queue :
           c \in DOMAIN queue' /\ queue'[c].type = queue[c].type /\ queue'[c].lease = queue[c].lease,
         \A c \in DOMAIN queue' : c \notin DOMAIN queue =>
           /\ queue'[c].lease <= Len(leases')
           /\ queue'[c].type \in {"prepare", "sync-roster", "drain", "quarantine"} => queue'[c].lease # NoLease,
         pump'.lease <= Len(leases'),
         \A l \in Leases : l > Len(leases) => got'[l] = got[l] /\ results'[l] = results[l]
  PROVE  Known'
<1>1. Len(leases) \in Nat /\ Len(leases') \in Nat
  <2>1. leases \in Seq(LeaseStatus) /\ leases' \in Seq(LeaseStatus)
    BY DEF TypeOK
  <2>. QED
    BY <2>1
<1>2. \A c \in DOMAIN queue : queue[c].lease \in Nat
  BY Types, AgentAssumption DEF Command, Leases, NoLease
<1>3. \A c \in DOMAIN queue' : queue'[c].lease <= Len(leases')
  BY <1>1, <1>2 DEF Known
<1>4. \A c \in DOMAIN queue' :
        queue'[c].type \in {"prepare", "sync-roster", "drain", "quarantine"} => queue'[c].lease # NoLease
  BY DEF Known
<1>5. \A l \in Leases : l > Len(leases') => got'[l] = {} /\ results'[l] = "none"
  BY <1>1 DEF Known, Leases
<1>. QED
  BY <1>3, <1>4, <1>5 DEF Known

\* The invariant of the leases, the instance and the commands.
Plane == Latest /\ Clears /\ Known /\ HandShape

\* It holds initially.
LEMMA InitPlane == Init => Plane
<1> SUFFICES ASSUME Init PROVE Plane
  OBVIOUS
<1> USE DEF Init
<1>1. Latest /\ Clears
  BY DEF Latest, Clears, Active
<1>2. Known
  BY DEF Known, NoPump, NoLease, Leases
<1>3. HandShape
  BY DEF HandShape, Idle
<1>. QED
  BY <1>1, <1>2, <1>3 DEF Plane

\* A row added by the control plane: the rows before it stand.
LEMMA AddedRow ==
  ASSUME TypeOK, HandShape, NEW r \in Command, queue' = Append(queue, r), work' = work
  PROVE  /\ HandShape'
         /\ \A c \in DOMAIN queue : c \in DOMAIN queue' /\ queue'[c] = queue[c]
         /\ \A c \in DOMAIN queue' : c \in DOMAIN queue \/ (c = Len(queue) + 1 /\ queue'[c] = r)
<1>1. /\ \A c \in DOMAIN queue : c \in DOMAIN queue' /\ queue'[c] = queue[c]
      /\ \A c \in DOMAIN queue' : c \in DOMAIN queue \/ (c = Len(queue) + 1 /\ queue'[c] = r)
  BY AddRow
<1>2. work.hand \subseteq DOMAIN queue
  BY DEF TypeOK
<1>. QED
  BY <1>1, <1>2, HandStays

\* Handing back a lease.
LEMMA ReleasePlane ==
  ASSUME TypeOK, TypeOK', Plane, NEW l \in Leases, NEW b \in BOOLEAN, Release(l, b), l <= Len(leases),
         work' = work, pump'.lease = pump.lease,
         \A k \in Leases : k > Len(leases) => got'[k] = got[k] /\ results'[k] = results[k]
  PROVE  Plane'
<1>1. Latest' /\ Clears' /\ Len(leases') = Len(leases)
      /\ \A c \in DOMAIN queue' : c \notin DOMAIN queue => queue'[c].lease = l
  BY ReleaseStep DEF Plane
<1>2. \A c \in DOMAIN queue : c \in DOMAIN queue' /\ queue'[c] = queue[c]
  BY ReleaseTypes DEF LeaseRef
<1>3. HandShape'
  BY <1>2, HandStays DEF Plane, TypeOK
<1>4. l # NoLease
  BY DEF Leases, NoLease
<1>5. Known'
  BY <1>1, <1>2, <1>4, KnownStays, Types DEF Plane, Known
<1>. QED
  BY <1>1, <1>3, <1>5 DEF Plane

\* The control plane keeps it.
LEMMA ControlPlane ==
  ASSUME TypeOK, TypeOK', Plane, Control
  PROVE  Plane'
<1> USE AgentAssumption
<1>1. work' = work /\ pump' = pump /\ got' = got
  BY DEF Control, GrantLease, WakeServer, OperatorReturns, SynchronizeRoster, CancelMatch, SettleLater,
         CloseLease, ExpireLease, CommandDue, controlOnly
<1>2. Len(leases) \in Nat /\ pump.lease <= Len(leases) /\ pump.lease \in Nat
  <2>1. Len(leases) \in Nat
    BY Types
  <2>2. pump \in PumpFile
    BY DEF TypeOK
  <2>3. pump.lease \in Nat
    BY <2>2 DEF PumpFile, LeaseRef, Leases, NoLease
  <2>. QED
    BY <2>1, <2>3 DEF Plane, Known
<1>3. Latest /\ Clears /\ Known /\ HandShape
  BY DEF Plane
<1>4. CASE GrantLease
  <2> DEFINE n == Len(leases) + 1
             r == NewCommand("prepare", n, 0, FALSE)
  <2>1. leases' = Append(leases, "active") /\ db' = "leased" /\ db = "ready" /\ Len(leases) < MaxLeases
        /\ results' = results /\ queue' = Append(queue, NewCommand("prepare", Len(leases'), 0, FALSE))
    BY <1>4 DEF GrantLease
  <2>2. leases' \in Seq(LeaseStatus) /\ Len(leases') = n /\ DOMAIN leases' = DOMAIN leases \cup {n}
        /\ \A k \in DOMAIN leases : k # n /\ leases'[k] = leases[k]
    BY <2>1, Types, AppendRow DEF LeaseStatus
  <2>3. n \in Leases /\ queue' = Append(queue, r) /\ n \in Nat /\ n # NoLease
    <3>1. queue' = Append(queue, r)
      BY <2>1, <2>2
    <3>. QED
      <4>1. n \in 1..MaxLeases /\ n \in Nat /\ n # 0
        BY <1>2, <2>1
      <4>. QED
        BY <3>1, <4>1 DEF Leases, NoLease
  <2> HIDE DEF n
  <2>4. r \in Command /\ r.type = "prepare" /\ r.lease = n
    BY <2>3 DEF NewCommand, Command, CommandType
  <2> HIDE DEF r
  <2>5. \A c \in DOMAIN queue : ~Clearing(c)
    BY <2>1 DEF Plane, Clears
  <2>6. HandShape' /\ (\A c \in DOMAIN queue : c \in DOMAIN queue' /\ queue'[c] = queue[c])
        /\ \A c \in DOMAIN queue' : c \in DOMAIN queue \/ (c = Len(queue) + 1 /\ queue'[c] = r)
    BY <1>1, <1>3, <2>3, <2>4, AddedRow
  <2>7. Clears'
    BY <2>4, <2>5, <2>6 DEF Clears, Clearing, Unfinished
  <2>8. \A l \in Leases : ~Active(l)
    BY <2>1, <1>3 DEF Latest
  <2>9. Latest'
    <3> SUFFICES ASSUME NEW l \in Leases, Active(l)' PROVE l = Len(leases') /\ db' = "leased"
      BY DEF Latest
    <3>. QED
      BY <2>1, <2>2, <2>8 DEF Active
  <2>10. Known'
    <3>1. n <= Len(leases') /\ Len(leases) <= Len(leases') /\ pump'.lease <= Len(leases')
      BY <1>1, <1>2, <2>2 DEF n
    <3>2. \A c \in DOMAIN queue' : c \notin DOMAIN queue => queue'[c].lease = n
      BY <2>4, <2>6
    <3>. QED
      BY <1>1, <1>3, <2>1, <2>3, <2>6, <3>1, <3>2, KnownStays
  <2>. QED
    BY <2>6, <2>7, <2>9, <2>10 DEF Plane
<1>5. CASE WakeServer \/ OperatorReturns \/ (\E l \in Leases : SynchronizeRoster(l))
  <2>1. PICK r \in Command : queue' = Append(queue, r) /\ leases' = leases /\ results' = results
           /\ (r.lease = NoLease \/ Active(r.lease)) /\ r.type \in {"start", "unquarantine", "sync-roster"}
           /\ (r.type = "sync-roster" => Active(r.lease))
           /\ (r.type = "unquarantine" => /\ db = "quarantined" /\ db' = db /\ \A l \in Leases : ~Active(l)
                                          /\ \A c \in DOMAIN queue : queue[c].status \in {"completed", "failed"})
           /\ (db' = db \/ db \notin Kept)
    <3>1. CASE WakeServer
      <4>1. NewCommand("start", NoLease, 0, FALSE) \in Command /\ NewCommand("start", NoLease, 0, FALSE).type = "start"
            /\ NewCommand("start", NoLease, 0, FALSE).lease = NoLease
        BY DEF NewCommand, Command, CommandType
      <4>. QED
        BY <3>1, <4>1 DEF WakeServer, Kept
    <3>2. CASE OperatorReturns
      <4>1. NewCommand("unquarantine", NoLease, 0, FALSE) \in Command
            /\ NewCommand("unquarantine", NoLease, 0, FALSE).type = "unquarantine"
            /\ NewCommand("unquarantine", NoLease, 0, FALSE).lease = NoLease
        BY DEF NewCommand, Command, CommandType
      <4>. QED
        BY <3>2, <4>1 DEF OperatorReturns
    <3>3. ASSUME NEW l \in Leases, SynchronizeRoster(l)
          PROVE  \E r \in Command : queue' = Append(queue, r) /\ r.lease = l /\ Active(l) /\ r.type = "sync-roster"
                   /\ UNCHANGED <<leases, db, results>>
      <4> DEFINE n == Len(queue) + 1
      <4>1. PICK rev : queue' = Append(queue, NewCommand("sync-roster", l, rev, FALSE)) /\ Active(l)
              /\ UNCHANGED <<leases, db, results>>
        BY <3>3 DEF SynchronizeRoster, InPlay
      <4> DEFINE r == NewCommand("sync-roster", l, rev, FALSE)
      <4>2. r.lease = l /\ r.type = "sync-roster" /\ queue' = Append(queue, r)
        BY <4>1 DEF NewCommand
      <4>3. queue \in Seq(Command) /\ queue' \in Seq(Command)
        BY DEF TypeOK
      <4> HIDE DEF r
      <4>4. queue'[Len(queue) + 1] = r /\ Len(queue) + 1 \in DOMAIN queue'
        BY <4>2, <4>3
      <4>5. r \in Command
        BY <4>3, <4>4
      <4>. QED
        BY <4>1, <4>2, <4>5
    <3>. QED
      BY <1>5, <3>1, <3>2, <3>3
  <2>2. HandShape' /\ (\A c \in DOMAIN queue : c \in DOMAIN queue' /\ queue'[c] = queue[c])
        /\ \A c \in DOMAIN queue' : c \in DOMAIN queue \/ (c = Len(queue) + 1 /\ queue'[c] = r)
    BY <1>1, <1>3, <2>1, AddedRow
  <2>3. r.lease <= Len(leases) /\ (r.type = "sync-roster" => r.lease # NoLease)
    <3>1. Active(r.lease) => r.lease \in 1..Len(leases)
      BY Types DEF Active
    <3>. QED
      BY <1>2, <2>1, <3>1 DEF NoLease
  <2>4. Known'
    BY <1>1, <1>2, <1>3, <2>1, <2>2, <2>3, KnownStays
  <2>5. Latest' /\ Clears'
    <3>1. CASE r.type # "unquarantine"
      <4>1. \A l \in Leases : Active(l)' => Active(l)
        BY <2>1 DEF Active
      <4>2. \A c \in DOMAIN queue : Unfinished(c)' => Unfinished(c)
        BY <2>2 DEF Unfinished
      <4>3. \A c \in DOMAIN queue' : Clearing(c)' => c \in DOMAIN queue
        BY <2>1, <2>2, <3>1 DEF Clearing
      <4>. QED
        BY <1>3, <2>1, <2>2, <4>1, <4>2, <4>3, QuietStep
    <3>2. CASE r.type = "unquarantine"
      <4>1. \A c \in DOMAIN queue' : Clearing(c)' => c = Len(queue) + 1 /\ queue'[c] = r
        BY <2>1, <2>2, <3>2 DEF Clearing, Unfinished
      <4>2. Latest'
        BY <1>3, <2>1, <3>2 DEF Latest, Active
      <4>3. Clears'
        BY <2>1, <3>2, <4>1 DEF Clears, Active
      <4>. QED
        BY <4>2, <4>3
    <3>. QED
      BY <3>1, <3>2
  <2>. QED
    BY <2>2, <2>4, <2>5 DEF Plane
<1>6. ASSUME NEW l \in Leases, CancelMatch(l) \/ SettleLater(l)
      PROVE  Plane'
  <2>1. (\E b \in BOOLEAN : Release(l, b)) \/ UNCHANGED <<leases, db, queue>>
    BY <1>6 DEF CancelMatch, SettleLater
  <2>2. l <= Len(leases) /\ \A k \in Leases : k > Len(leases) => results'[k] = results[k]
    <3>1. CASE CancelMatch(l)
      BY <3>1, Types DEF InPlay, CancelMatch, Active, Leases
    <3>2. CASE SettleLater(l)
      <4>1. results[l] # "none" /\ \E r : results' = [results EXCEPT ![l] = r]
        BY <3>2 DEF SettleLater
      <4>2. l <= Len(leases)
        BY <1>2, <1>3, <4>1 DEF Known, Leases
      <4>3. \A k \in Leases : k # l => results'[k] = results[k]
        BY <4>1 DEF TypeOK
      <4>. QED
        BY <1>2, <4>2, <4>3 DEF Leases
    <3>. QED
      BY <1>6, <3>1, <3>2
  <2>3. CASE UNCHANGED <<leases, db, queue>>
    <3>1. HandShape'
      BY <1>1, <1>3, <2>3, HandStays
    <3>2. Latest' /\ Clears' /\ Known'
      BY <1>1, <1>3, <2>2, <2>3 DEF Latest, Clears, Known, Active, Clearing, Unfinished
    <3>. QED
      BY <3>1, <3>2 DEF Plane
  <2>. QED
    BY <1>1, <2>1, <2>2, <2>3, ReleasePlane
<1>7. ASSUME NEW l \in Leases, CloseLease(l)
      PROVE  Plane'
  <2>1. leases' = [leases EXCEPT ![l] = "closed"] /\ l \in DOMAIN leases /\ UNCHANGED <<db, queue, results>>
    BY <1>7 DEF CloseLease
  <2>2. Len(leases') = Len(leases) /\ \A k \in Leases : Active(k)' => Active(k)
    BY <2>1, Types DEF Active
  <2>3. Latest' /\ Clears'
    BY <1>3, <2>1, <2>2, QuietStep DEF Unfinished, Clearing
  <2>4. HandShape'
    BY <1>1, <1>3, <2>1, HandStays
  <2>5. Known'
    BY <1>1, <1>3, <2>1, <2>2 DEF Known
  <2>. QED
    BY <2>3, <2>4, <2>5 DEF Plane
<1>8. ASSUME NEW l \in Leases, ExpireLease(l)
      PROVE  Plane'
  <2> DEFINE r == NewCommand("quarantine", l, 0, FALSE)
  <2>1. leases' = [leases EXCEPT ![l] = "closed"] /\ Active(l) /\ db' = "quarantined"
        /\ queue' = Append(queue, r) /\ results' = results /\ "closed" # "active"
    BY <1>8 DEF ExpireLease
  <2>2. r \in Command /\ r.type = "quarantine" /\ r.lease = l
    BY DEF NewCommand, Command, CommandType
  <2> HIDE DEF r
  <2>3. Latest' /\ Clears' /\ Len(leases') = Len(leases)
    <3> DEFINE s == "closed"
    <3>1. s # "active" /\ leases' = [leases EXCEPT ![l] = s]
      BY <2>1
    <3> HIDE DEF s
    <3>2. Latest /\ Clears /\ Active(l) /\ queue' = Append(queue, r) /\ db' = "quarantined"
      BY <1>3, <2>1
    <3>. QED
      BY <2>2, <3>1, <3>2, EndingStep
  <2>4. HandShape' /\ (\A c \in DOMAIN queue : c \in DOMAIN queue' /\ queue'[c] = queue[c])
        /\ \A c \in DOMAIN queue' : c \in DOMAIN queue \/ (c = Len(queue) + 1 /\ queue'[c] = r)
    BY <1>1, <1>3, <2>1, <2>2, AddedRow
  <2>5. l <= Len(leases) /\ l # NoLease
    BY <2>1, Types DEF Active, Leases, NoLease
  <2>6. Known'
    BY <1>1, <1>2, <1>3, <2>1, <2>2, <2>3, <2>4, <2>5, KnownStays
  <2>. QED
    BY <2>3, <2>4, <2>6 DEF Plane
<1>9. ASSUME NEW c \in DOMAIN queue, CommandDue(c)
      PROVE  Plane'
  <2>1. queue' = [queue EXCEPT ![c] = [queue[c] EXCEPT !.status = "pending", !.resting = FALSE]]
        /\ Unfinished(c) /\ UNCHANGED <<leases, db, results>>
        /\ (c \in work.hand => queue[c].status = "pending")
    BY <1>9, Types DEF CommandDue, Unfinished, controlOnly, Command
  <2>2. queue[c] \in Command /\ [queue[c] EXCEPT !.status = "pending", !.resting = FALSE] \in Command
    BY Types DEF Command
  <2>3. DOMAIN queue' = DOMAIN queue /\ (\A d \in DOMAIN queue : d # c => queue'[d] = queue[d])
        /\ queue'[c].type = queue[c].type /\ queue'[c].lease = queue[c].lease
    <3>1. [queue[c] EXCEPT !.status = "pending", !.resting = FALSE].type = queue[c].type
          /\ [queue[c] EXCEPT !.status = "pending", !.resting = FALSE].lease = queue[c].lease
      BY <2>2 DEF Command
    <3>. QED
      BY <2>1, <2>2, <3>1, ReplaceRow
  <2>4. Latest' /\ Clears'
    BY <1>3, <2>1, <2>3, QuietStep DEF Active, Unfinished, Clearing
  <2>5. c \notin work.hand
    BY <1>3, <2>1 DEF HandShape
  <2>6. HandShape'
    BY <1>1, <1>3, <2>3, <2>5, HandStays DEF TypeOK
  <2>7. Known'
    BY <1>1, <1>2, <1>3, <2>1, <2>3, KnownStays
  <2>. QED
    BY <2>4, <2>6, <2>7 DEF Plane
<1>. QED
  BY <1>4, <1>5, <1>6, <1>7, <1>8, <1>9 DEF Control

\* The event pump keeps it: what a match reports hands its lease back.
LEMMA FlushPlane ==
  ASSUME TypeOK, TypeOK', Plane, Flush
  PROVE  Plane'
<1>1. UNCHANGED work /\ Latest /\ Clears /\ Known /\ HandShape /\ pump.lease \in LeaseRef
  BY DEF Plane, Flush, Upload, SubmitResult, pumpKeeps, TypeOK, PumpFile
<1>2. Authorized => pump.lease \in Leases /\ pump.lease <= Len(leases)
  BY Types DEF Authorized, Leases
<1>3. ASSUME UNCHANGED <<leases, db, queue>>, pump'.lease = pump.lease,
             \A k \in Leases : k > Len(leases) => got'[k] = got[k] /\ results'[k] = results[k]
      PROVE  Plane'
  <2>1. HandShape'
    BY <1>1, <1>3, HandStays
  <2>2. Latest' /\ Clears' /\ Known'
    BY <1>1, <1>3 DEF Latest, Clears, Known, Active, Clearing, Unfinished
  <2>. QED
    BY <2>1, <2>2 DEF Plane
<1>4. ASSUME NEW n \in 1..(Len(log) - pump.cursor), NEW lost \in BOOLEAN, Upload(n, lost)
      PROVE  Plane'
  <2>1. pump'.lease = pump.lease
    BY <1>4, AfterUploadIs DEF Upload
  <2>2. \A k \in Leases : k > Len(leases) => got'[k] = got[k] /\ results'[k] = results[k]
    <3>1. CASE Batch(n) = {}
      BY <1>4, <3>1, IngestIs DEF Upload
    <3>2. CASE Batch(n) # {}
      <4>1. Authorized /\ Ingest(Batch(n))
        BY <1>4, <3>2 DEF Upload
      <4>2. \E A : got' = [got EXCEPT ![pump.lease] = @ \cup A]
        BY <3>2, <4>1, IngestIs
      <4>3. results' = results \/ results' = [results EXCEPT ![pump.lease] = "disputed"]
        BY <4>1, IngestIs
      <4>4. \A k \in Leases : k # pump.lease => got'[k] = got[k] /\ results'[k] = results[k]
        BY <4>2, <4>3 DEF TypeOK
      <4>. QED
        BY <1>2, <4>1, <4>4, Types DEF Leases
    <3>. QED
      BY <3>1, <3>2
  <2>3. CASE UNCHANGED <<leases, db, queue>>
    BY <1>3, <2>1, <2>2, <2>3
  <2>4. CASE ~UNCHANGED <<leases, db, queue>>
    <3>1. Release(pump.lease, TRUE) /\ Authorized
      <4>1. Release(pump.lease, TRUE) /\ \E e \in Batch(n) : log[e.line].kind = "aborted"
        BY <1>4, <2>4 DEF Upload
      <4>. QED
        BY <1>4, <4>1 DEF Upload
    <3>. QED
      BY <1>1, <1>2, <2>1, <2>2, <3>1, ReleasePlane
  <2>. QED
    BY <2>3, <2>4
<1>5. ASSUME NEW settles \in BOOLEAN, NEW lost \in BOOLEAN, SubmitResult(settles, lost)
      PROVE  Plane'
  <2>1. pump'.lease = pump.lease
    BY <1>5, AfterSubmitIs DEF SubmitResult
  <2>2. got' = got /\ Authorized /\ \E r : results' = [results EXCEPT ![pump.lease] = r]
    BY <1>5 DEF SubmitResult
  <2>3. \A k \in Leases : k > Len(leases) => got'[k] = got[k] /\ results'[k] = results[k]
    BY <1>2, <2>2, Types DEF TypeOK, Leases
  <2>4. CASE UNCHANGED <<leases, db, queue>>
    BY <1>3, <2>1, <2>3, <2>4
  <2>5. CASE ~UNCHANGED <<leases, db, queue>>
    <3>1. Release(pump.lease, TRUE)
      BY <1>5, <2>5 DEF SubmitResult
    <3>. QED
      BY <1>1, <1>2, <2>1, <2>2, <2>3, <3>1, ReleasePlane
  <2>. QED
    BY <2>4, <2>5
<1>. QED
  BY <1>4, <1>5 DEF Flush

\* The server, the plugin and a restart of the agent keep it.
LEMMA OutsidePlane ==
  ASSUME TypeOK, TypeOK', Plane, ServerUp \/ ServerDies \/ PluginWrites \/ AgentRestarts
  PROVE  Plane'
<1>1. UNCHANGED <<leases, db, queue, got, results, pump>> /\ work' \in {work, Idle} /\ Latest /\ Clears /\ Known /\ HandShape
  BY DEF ServerUp, ServerDies, PluginWrites, AgentRestarts, pluginKeeps, controlVars, Plane
<1>2. Latest' /\ Clears' /\ Known'
  BY <1>1 DEF Latest, Clears, Known, Active, Clearing, Unfinished
<1>3. HandShape'
  <2>1. CASE work' = work
    BY <1>1, <2>1, HandStays
  <2>2. CASE work' = Idle
    BY <2>2 DEF HandShape, Idle
  <2>. QED
    BY <1>1, <2>1, <2>2
<1>. QED
  BY <1>2, <1>3 DEF Plane

\* An answer: only the command at hand changes, and only in where it stands.
LEMMA AnsweredRows ==
  ASSUME TypeOK, work.hand # {}, NEW ok \in BOOLEAN, NEW state, Answered(ok, state)
  PROVE  /\ DOMAIN queue' = DOMAIN queue /\ c0 \in DOMAIN queue
         /\ queue'[c0] = Answer(ok)
         /\ \A c \in DOMAIN queue : c # c0 => queue'[c] = queue[c]
         /\ \A c \in DOMAIN queue :
              /\ queue'[c].type = queue[c].type /\ queue'[c].lease = queue[c].lease
              /\ queue'[c].rev = queue[c].rev /\ queue'[c].terminal = queue[c].terminal
<1>1. c0 \in DOMAIN queue /\ Answer(ok) \in Command
  BY InHand, AnswerType
<1>2. /\ DOMAIN queue' = DOMAIN queue /\ queue'[c0] = Answer(ok)
      /\ \A c \in DOMAIN queue : c # c0 => queue'[c] = queue[c]
  BY <1>1, ReplaceRow DEF Answered
<1>3. /\ Answer(ok).type = queue[c0].type /\ Answer(ok).lease = queue[c0].lease
      /\ Answer(ok).rev = queue[c0].rev /\ Answer(ok).terminal = queue[c0].terminal
  BY AnswerType DEF cmd
<1>. QED
  BY <1>1, <1>2, <1>3

\* An answer keeps the leases and what clears the instance in step: only the command
\* that clears it puts it back into service.
LEMMA AnsweredPlane ==
  ASSUME TypeOK, TypeOK', Plane, work.hand # {}, NEW ok \in BOOLEAN, NEW state \in {"ready", "offline"},
         Answered(ok, state), leases' = leases
  PROVE  Latest' /\ Clears'
<1>1. /\ DOMAIN queue' = DOMAIN queue /\ c0 \in DOMAIN queue /\ queue'[c0] = Answer(ok)
      /\ \A c \in DOMAIN queue : c # c0 => queue'[c] = queue[c]
      /\ \A c \in DOMAIN queue : queue'[c].type = queue[c].type /\ queue'[c].lease = queue[c].lease
  BY AnsweredRows
<1>2. Unfinished(c0) /\ Latest /\ Clears
  BY InHand DEF Plane, HandShape, Unfinished
<1>3. \A c \in DOMAIN queue : Unfinished(c)' => Unfinished(c)
  BY <1>1, <1>2 DEF Unfinished
<1>4. db' = StateAfter(ok, state)
  BY DEF Answered
<1>5. CASE db' = db \/ db \notin Kept \/ db' = "quarantined"
  <2>1. \A l \in Leases : Active(l)' => Active(l)
    BY DEF Active
  <2>2. \A c \in DOMAIN queue' : Clearing(c)' => c \in DOMAIN queue
    BY <1>1
  <2>. QED
    BY <1>1, <1>2, <1>3, <1>5, <2>1, <2>2, QuietStep
<1>6. CASE ~(db' = db \/ db \notin Kept \/ db' = "quarantined")
  <2>0. ok
    BY <1>4, <1>6 DEF StateAfter
  <2>1. (cmd.type = "drain" /\ db = "draining") \/ (cmd.type = "unquarantine" /\ db = "quarantined")
    <3>1. cmd.type \in {"drain", "unquarantine"}
      BY <1>4, <1>6, <2>0 DEF StateAfter
    <3>2. cmd.type = "drain" => db = "draining"
      BY <1>4, <1>6, <2>0 DEF StateAfter
    <3>3. cmd.type = "unquarantine" => db = "quarantined"
      BY <1>4, <1>6, <2>0 DEF StateAfter
    <3>. QED
      BY <3>1, <3>2, <3>3
  <2>2. Clearing(c0) /\ queue[c0] = cmd
    BY <1>2, <2>1 DEF Clearing, cmd
  <2>3. queue'[c0].status = "completed"
    BY <1>1, <2>0, AnswerType
  <2>4. \A l \in Leases : ~Active(l)
    BY <1>1, <1>2, <2>2 DEF Clears
  <2>5. \A c \in DOMAIN queue : c # c0 => ~Clearing(c)
    <3>1. CASE cmd.type = "unquarantine"
      BY <1>1, <1>2, <2>2, <3>1 DEF Clears
    <3>2. CASE cmd.type = "drain" /\ db = "draining"
      <4> SUFFICES ASSUME NEW c \in DOMAIN queue, c # c0, Clearing(c) PROVE FALSE
        OBVIOUS
      <4>1. queue[c].type = "drain"
        BY <1>2, <3>2 DEF Clears
      <4>. QED
        BY <1>1, <1>2, <2>2, <3>2, <4>1 DEF Clears
    <3>. QED
      BY <2>1, <3>1, <3>2
  <2>6. \A c \in DOMAIN queue' : ~Clearing(c)'
    <3>1. ASSUME NEW c \in DOMAIN queue', Clearing(c)' PROVE c # c0 /\ c \in DOMAIN queue /\ Clearing(c)
      <4>1. c # c0 /\ c \in DOMAIN queue
        BY <1>1, <2>3, <3>1 DEF Clearing, Unfinished
      <4>. QED
        BY <1>1, <3>1, <4>1 DEF Clearing, Unfinished
    <3>. QED
      BY <2>5, <3>1
  <2>. QED
    BY <2>4, <2>6 DEF Latest, Clears, Active
<1>. QED
  BY <1>5, <1>6

\* The heartbeat keeps it.
LEMMA BeatPlane ==
  ASSUME TypeOK, TypeOK', Plane, BeginHeartbeat \/ (\E lost \in BOOLEAN : SendHeartbeat(lost)) \/ Reconcile \/ DiscardAt("reconcile") \/ Executes
  PROVE  Plane'
<1> USE AgentAssumption
<1>1. Latest /\ Clears /\ Known /\ HandShape /\ pump.lease <= Len(leases) /\ Len(leases) \in Nat
  BY Types DEF Plane, Known
<1>2. ASSUME UNCHANGED <<leases, db, queue, got, results>>, pump'.lease \in {NoLease, pump.lease}
      PROVE  Latest' /\ Clears' /\ Known'
  BY <1>1, <1>2 DEF Latest, Clears, Known, Active, Clearing, Unfinished, NoLease
<1>3. CASE BeginHeartbeat
  <2>1. UNCHANGED <<leases, db, queue, got, results>> /\ pump'.lease = pump.lease
    <3>1. UNCHANGED <<leases, db, queue, got, results>>
      BY <1>3 DEF BeginHeartbeat, controlVars
    <3>2. pump' = pump \/ pump' = [pump EXCEPT !.receipt = FALSE]
      BY <1>3 DEF BeginHeartbeat, ShowReceipt
    <3>3. pump \in PumpFile
      BY DEF TypeOK
    <3>4. [pump EXCEPT !.receipt = FALSE].lease = pump.lease
      BY <3>3 DEF PumpFile
    <3>. QED
      BY <3>1, <3>2, <3>4
  <2>2. work'.hand = {} /\ work'.pc = "send"
    BY <1>3 DEF BeginHeartbeat, Idle
  <2>3. HandShape'
    BY <2>2 DEF HandShape
  <2>. QED
    BY <1>2, <2>1, <2>3 DEF Plane
<1>4. ASSUME NEW lost \in BOOLEAN, SendHeartbeat(lost)
      PROVE  Plane'
  <2> DEFINE due == {c \in DOMAIN queue : queue[c].status = "pending" /\ ~queue[c].resting
                       /\ (work.defer => queue[c].type # "drain")}
  <2>1. /\ db' = db \/ db \notin Kept
        /\ queue' = [c \in DOMAIN queue |-> IF c \in due THEN Claimed(queue[c]) ELSE queue[c]]
        /\ work' = IF lost THEN Idle
                   ELSE [work EXCEPT !.pc = "reconcile", !.hand = due, !.alive = Alive, !.early = Early]
        /\ UNCHANGED <<leases, got, results, pump>>
    BY <1>4 DEF SendHeartbeat, Early
  <2>2. \A c \in DOMAIN queue : Claimed(queue[c]).type = queue[c].type /\ Claimed(queue[c]).lease = queue[c].lease
          /\ Claimed(queue[c]).status = "claimed"
    BY Types DEF Claimed, Command
  <2>3. DOMAIN queue' = DOMAIN queue
        /\ \A c \in DOMAIN queue : /\ queue'[c].type = queue[c].type /\ queue'[c].lease = queue[c].lease
                                   /\ Unfinished(c)' => Unfinished(c)
                                   /\ c \in due => queue'[c].status = "claimed"
    BY <2>1, <2>2 DEF Unfinished
  <2>4. Latest' /\ Clears'
    BY <1>1, <2>1, <2>3, QuietStep DEF Active
  <2>5. Known'
    BY <1>1, <2>1, <2>3, KnownStays
  <2>6. HandShape'
    <3>1. CASE lost
      BY <2>1, <3>1 DEF HandShape, Idle
    <3>2. CASE ~lost
      <4>1. work'.pc = "reconcile" /\ work'.hand = due
        BY <2>1, <3>2 DEF TypeOK, Heartbeat
      <4>. QED
        BY <2>3, <4>1 DEF HandShape
    <3>. QED
      BY <3>1, <3>2
  <2>. QED
    BY <2>4, <2>5, <2>6 DEF Plane
<1>5. CASE Reconcile \/ DiscardAt("reconcile")
  <2>1. UNCHANGED <<leases, db, queue, got, results>> /\ pump'.lease \in {NoLease, pump.lease}
        /\ work' = NextCommand(work)
    <3>1. pump' = pump \/ pump' = NoPump
      BY <1>5, DiscardIs DEF Reconcile, DiscardAt
    <3>. QED
      BY <1>5, <3>1, LooksAtFile DEF NoPump
  <2>2. HandShape'
    <3>1. CASE work.hand = {}
      BY <2>1, <3>1 DEF HandShape, NextCommand, Idle
    <3>2. CASE work.hand # {}
      <4>1. work'.hand = work.hand /\ work'.pc = "commands"
        BY <2>1, <3>2 DEF NextCommand, TypeOK, Heartbeat
      <4>. QED
        BY <1>1, <2>1, <3>2, <4>1 DEF HandShape
    <3>. QED
      BY <3>1, <3>2
  <2>. QED
    BY <1>2, <2>1, <2>2 DEF Plane
<1>6. CASE Executes
  <2>1. /\ work.hand # {} /\ UNCHANGED <<leases, got, results>>
        /\ \/ UNCHANGED <<queue, db>>
           \/ \E ok \in BOOLEAN, state \in {"ready", "offline"} : Answered(ok, state)
        /\ \/ work' = Skipped \/ work' = Idle
           \/ /\ UNCHANGED <<queue, db>>
              /\ \E pc \in {"configure", "await", "drain"}, k \in Nat :
                   Suits(pc) /\ work' = [work EXCEPT !.pc = pc, !.wait = k]
    BY <1>6, ExecutesIs
  <2>2. Latest' /\ Clears'
    <3>1. CASE UNCHANGED <<queue, db>>
      <4>1. UNCHANGED <<leases, db, queue>>
        BY <2>1, <3>1
      <4>. QED
        BY <1>1, <4>1 DEF Latest, Clears, Active, Clearing, Unfinished
    <3>. QED
      BY <2>1, <3>1, AnsweredPlane
  <2>3. DOMAIN queue' = DOMAIN queue /\ (\A c \in DOMAIN queue : c # c0 => queue'[c] = queue[c])
        /\ \A c \in DOMAIN queue : queue'[c].type = queue[c].type /\ queue'[c].lease = queue[c].lease
    BY <2>1, AnsweredRows
  <2>4. pump'.lease <= Len(leases)
    <3>1. CASE PrepareManifest
      <4>1. pump' = Begin(cmd.lease) /\ c0 \in DOMAIN queue
        BY <2>1, <3>1, InHand DEF PrepareManifest
      <4>2. pump'.lease = cmd.lease
        BY <4>1 DEF Begin, NoPump
      <4>. QED
        BY <1>1, <4>1, <4>2 DEF Known, cmd
    <3>2. CASE ~PrepareManifest
      <4>1. pump'.lease \in {NoLease, pump.lease}
        <5>1. \/ pump' \in {pump, NoPump, [pump EXCEPT !.receipt = FALSE], [pump EXCEPT !.rev = cmd.rev]}
          BY <1>6, <3>2 DEF Executes, Start, PrepareRefused, PrepareServer, Prepared, SyncIdle, SyncServer, Synced,
            DrainDeferred, DrainAbandoned, DrainRechecked, ShowReceipt, DrainStopped, DrainTerminal, DrainAborts,
            DrainAborted, Quarantine, Unquarantine, CommandFails, WaitFails, DiscardAt, DiscardManifest
        <5>2. [pump EXCEPT !.receipt = FALSE].lease = pump.lease /\ [pump EXCEPT !.rev = cmd.rev].lease = pump.lease
              /\ NoPump.lease = NoLease
          BY DEF NoPump, TypeOK, PumpFile
        <5>. QED
          BY <5>1, <5>2
      <4>. QED
        BY <1>1, <4>1 DEF NoLease
    <3>. QED
      BY <3>1, <3>2
  <2>5. Known'
    <3>1. leases' = leases /\ got' = got /\ results' = results
      BY <2>1
    <3>. QED
      BY <1>1, <2>3, <2>4, <3>1, KnownStays
  <2>6. HandShape'
    <3>1. CASE work' = Idle
      BY <3>1 DEF HandShape, Idle
    <3>2. CASE work' = Skipped
      <4>1. work'.hand = work.hand \ {c0} \/ work' = Idle
        BY <3>2 DEF Skipped, NextCommand, TypeOK, Heartbeat
      <4>2. (work'.pc = "commands" /\ work'.hand # {}) \/ work' = Idle
        BY <3>2 DEF Skipped, NextCommand, TypeOK, Heartbeat
      <4>3. \A c \in work'.hand : queue'[c].status = "claimed"
        BY <1>1, <2>3, <4>1 DEF HandShape, Idle, TypeOK
      <4>. QED
        BY <3>1, <4>2, <4>3 DEF HandShape
    <3>3. ASSUME NEW pc \in {"configure", "await", "drain"}, NEW k \in Nat, queue' = queue,
                 Suits(pc), work' = [work EXCEPT !.pc = pc, !.wait = k]
          PROVE  HandShape'
      <4>1. work'.hand = work.hand /\ work'.pc = pc
        BY <3>3 DEF TypeOK, Heartbeat
      <4>2. cmd' = cmd
        BY <3>3, <4>1 DEF cmd, c0
      <4>. QED
        BY <1>1, <2>1, <3>3, <4>1, <4>2 DEF HandShape, Suits
    <3>. QED
      BY <2>1, <3>1, <3>2, <3>3
  <2>. QED
    BY <2>2, <2>5, <2>6 DEF Plane
<1>. QED
  BY <1>3, <1>4, <1>5, <1>6

\* Every step keeps it.
LEMMA NextPlane == TypeOK /\ Plane /\ [Next]_vars => Plane'
<1> SUFFICES ASSUME TypeOK, Plane, [Next]_vars PROVE Plane'
  OBVIOUS
<1>1. TypeOK'
  BY NextTypes
<1>2. CASE UNCHANGED vars
  BY <1>2 DEF vars, controlVars, Plane, Latest, Clears, Known, HandShape, Active, Clearing, Unfinished, cmd, c0
<1>3. CASE HeartbeatStep \/ CommandFails \/ DiscardManifest
  BY <1>1, <1>3, BeatSteps, BeatPlane
<1>. QED
  BY <1>1, <1>2, <1>3, ControlPlane, FlushPlane, OutsidePlane DEF Next

-----------------------------------------------------------------------------
(* What every step keeps.                                                  *)

\* Leases end and are not taken back, commands keep what they ask for, lines
\* and events stay, and a result is not taken back.
LEMMA StepKeeps ==
  ASSUME TypeOK, TypeOK', [Next]_vars
  PROVE  /\ \A l \in DOMAIN leases :
              /\ l \in DOMAIN leases'
              /\ leases'[l] = leases[l] \/ leases[l] = "active" \/ leases'[l] = "closed"
              /\ leases'[l] = "active" => leases[l] = "active"
         /\ \A c \in DOMAIN queue :
              /\ c \in DOMAIN queue'
              /\ queue'[c].type = queue[c].type /\ queue'[c].lease = queue[c].lease
              /\ queue'[c].rev = queue[c].rev /\ queue'[c].terminal = queue[c].terminal
         /\ Len(log) <= Len(log') /\ \A k \in 1..Len(log) : log'[k] = log[k]
         /\ \A l \in Leases : got[l] \subseteq got'[l]
         /\ \A l \in Leases : /\ results[l] = "settled" => results'[l] = "settled"
                              /\ results[l] # "none" => results'[l] # "none"
                              /\ results[l] = "disputed" => results'[l] = "disputed"
                              /\ results[l] = "completed" => results'[l] \in {"completed", "settled"}
<1> USE AgentAssumption
<1> DEFINE LeasesKept == \A l \in DOMAIN leases :
              /\ l \in DOMAIN leases'
              /\ leases'[l] = leases[l] \/ leases[l] = "active" \/ leases'[l] = "closed"
              /\ leases'[l] = "active" => leases[l] = "active"
           RowsKept == \A c \in DOMAIN queue :
              /\ c \in DOMAIN queue'
              /\ queue'[c].type = queue[c].type /\ queue'[c].lease = queue[c].lease
              /\ queue'[c].rev = queue[c].rev /\ queue'[c].terminal = queue[c].terminal
           LogKept == Len(log) <= Len(log') /\ \A k \in 1..Len(log) : log'[k] = log[k]
           GotKept == \A l \in Leases : got[l] \subseteq got'[l]
           ResultsKept == \A l \in Leases : /\ results[l] = "settled" => results'[l] = "settled"
                                            /\ results[l] # "none" => results'[l] # "none"
                                            /\ results[l] = "disputed" => results'[l] = "disputed"
                                            /\ results[l] = "completed" => results'[l] \in {"completed", "settled"}
<1>1. LogKept
  <2>1. ASSUME NEW r, log' \in {log, Append(log, r)} PROVE LogKept
    BY <2>1, Types
  <2>2. CASE log' = log
    BY <2>1, <2>2
  <2>3. CASE PluginWrites
    BY <2>1, <2>3 DEF PluginWrites
  <2>4. CASE SyncServer
    <3>1. PICK r : log' \in {log, Append(log, r)}
      BY <2>4 DEF SyncServer
    <3>. QED
      BY <2>1, <3>1
  <2>5. CASE Quarantine \/ DrainAborts
    <3>1. PICK r : log' \in {log, Append(log, r)}
      BY <2>5 DEF Quarantine, DrainAborts, AbortLog
    <3>. QED
      BY <2>1, <3>1
  <2>. QED
    BY <2>2, <2>3, <2>4, <2>5 DEF Next, vars, Control, GrantLease, WakeServer, OperatorReturns, SynchronizeRoster,
      CancelMatch, SettleLater, CloseLease, ExpireLease, CommandDue, controlOnly, Flush, Upload, SubmitResult, pumpKeeps,
      ServerUp, ServerDies, AgentRestarts, HeartbeatStep, BeginHeartbeat, SendHeartbeat, Reconcile, Start,
      PrepareRefused, PrepareManifest, PrepareServer, Prepared, SyncIdle, Synced, DrainDeferred, DrainAbandoned,
      DrainRechecked, DrainStopped, DrainTerminal, DrainAborted, Unquarantine, CommandFails, WaitFails, DiscardManifest
<1>2. ASSUME NEW l \in LeaseRef, NEW b \in BOOLEAN, Release(l, b)
      PROVE  LeasesKept /\ RowsKept
  <2>1. RowsKept
    BY <1>2, ReleaseTypes
  <2>2. leases' = leases \/ (Active(l) /\ leases' = [leases EXCEPT ![l] = "released"])
    BY <1>2 DEF Release
  <2>3. LeasesKept
    BY <2>2, Types DEF Active
  <2>. QED
    BY <2>1, <2>3
<1>3. CASE UNCHANGED controlVars
  BY <1>1, <1>3 DEF controlVars
<1>4. ASSUME NEW r \in Command, queue' = Append(queue, r) PROVE RowsKept
  BY <1>4, AddRow
<1>5. CASE Control
  <2>1. got' = got
    BY <1>5 DEF Control, GrantLease, WakeServer, OperatorReturns, SynchronizeRoster, CancelMatch, SettleLater,
           CloseLease, ExpireLease, CommandDue, controlOnly
  <2>2. ResultsKept
    <3>1. results' = results \/ \E l \in Leases :
                \/ results[l] = "completed" /\ results' = [results EXCEPT ![l] = "settled"]
                \/ results[l] = "pending" /\ results' = [results EXCEPT ![l] = "completed"]
      BY <1>5 DEF Control, GrantLease, WakeServer, OperatorReturns, SynchronizeRoster, CancelMatch, SettleLater,
           CloseLease, ExpireLease, CommandDue, controlOnly
    <3>. QED
      BY <3>1 DEF TypeOK
  <2>3. ASSUME NEW r, queue' = Append(queue, r) PROVE RowsKept
    <3>1. queue \in Seq(Command)
      BY Types
    <3>. QED
      BY <2>3, <3>1
  <2>4. CASE GrantLease
    <3>1. leases' = Append(leases, "active")
      BY <2>4 DEF GrantLease
    <3>2. LeasesKept
      BY <3>1, Types
    <3>. QED
      BY <1>1, <2>1, <2>2, <2>3, <2>4, <3>2 DEF GrantLease
  <2>5. CASE WakeServer \/ OperatorReturns \/ \E l \in Leases : SynchronizeRoster(l)
    <3>1. leases' = leases /\ \E r : queue' = Append(queue, r)
      BY <2>5 DEF WakeServer, OperatorReturns, SynchronizeRoster, controlOnly
    <3>. QED
      BY <1>1, <2>1, <2>2, <2>3, <3>1
  <2>6. ASSUME NEW l \in Leases, CancelMatch(l) \/ SettleLater(l)
        PROVE  LeasesKept /\ RowsKept
    <3>1. (\E b \in BOOLEAN : Release(l, b)) \/ UNCHANGED <<leases, queue>>
      BY <2>6 DEF CancelMatch, SettleLater
    <3>. QED
      BY <1>2, <3>1 DEF LeaseRef
  <2>7. ASSUME NEW l \in Leases, CloseLease(l) \/ ExpireLease(l)
        PROVE  LeasesKept /\ RowsKept
    <3>1. leases' = [leases EXCEPT ![l] = "closed"]
      BY <2>7 DEF CloseLease, ExpireLease
    <3>2. LeasesKept
      BY <3>1, Types
    <3>3. queue' = queue \/ \E r : queue' = Append(queue, r)
      BY <2>7 DEF CloseLease, ExpireLease
    <3>. QED
      BY <2>3, <3>2, <3>3
  <2>8. ASSUME NEW c \in DOMAIN queue, CommandDue(c)
        PROVE  LeasesKept /\ RowsKept
    <3>1. queue' = [queue EXCEPT ![c].status = "pending", ![c].resting = FALSE] /\ leases' = leases
      BY <2>8 DEF CommandDue
    <3>2. \A d \in DOMAIN queue : queue[d] \in Command
      BY Types
    <3>3. RowsKept
      BY <3>1, <3>2 DEF Command
    <3>. QED
      BY <3>1, <3>3
  <2>. QED
    BY <1>1, <1>5, <2>1, <2>2, <2>4, <2>5, <2>6, <2>7, <2>8 DEF Control
<1>6. CASE Flush
  <2>1. pump.lease \in LeaseRef
    BY DEF TypeOK, PumpFile
  <2>2. (\E b \in BOOLEAN : Release(pump.lease, b)) \/ UNCHANGED <<leases, db, queue>>
    BY <1>6 DEF Flush, Upload, SubmitResult
  <2>3. LeasesKept /\ RowsKept
    BY <1>2, <2>1, <2>2
  <2>4. GotKept
    <3>1. got' = got \/ \E A : got' = [got EXCEPT ![pump.lease] = @ \cup A]
      BY <1>6, IngestIs DEF Flush, Upload, SubmitResult
    <3>2. ASSUME NEW A, got' = [got EXCEPT ![pump.lease] = @ \cup A]
          PROVE  GotKept
      <4>1. \A l \in Leases : got'[l] = IF l = pump.lease THEN got[l] \cup A ELSE got[l]
        BY <3>2 DEF TypeOK
      <4>. QED
        BY <4>1
    <3>. QED
      BY <3>1, <3>2
  <2>5. ResultsKept
    <3>1. results' = results \/ \E r \in {"settled", "pending", "disputed"} :
            /\ results' = [results EXCEPT ![pump.lease] = r]
            /\ results[pump.lease] \in {"completed", "settled"} => r = "settled"
            /\ results[pump.lease] = "disputed" => r = "disputed"
            /\ r = "pending" => results[pump.lease] = "none"
      <4>1. ASSUME NEW n \in 1..(Len(log) - pump.cursor), NEW lost \in BOOLEAN, Upload(n, lost)
            PROVE  \/ results' = results
                   \/ /\ results[pump.lease] \notin {"completed", "settled"}
                      /\ results' = [results EXCEPT ![pump.lease] = "disputed"]
        BY <4>1, IngestIs DEF Upload
      <4>2. ASSUME NEW settles \in BOOLEAN, NEW lost \in BOOLEAN, SubmitResult(settles, lost)
            PROVE  \/ results' = results
                   \/ results[pump.lease] # "disputed" /\ results' = [results EXCEPT ![pump.lease] = "settled"]
                   \/ results[pump.lease] = "none" /\ results' = [results EXCEPT ![pump.lease] = "pending"]
        <5>1. results' = [results EXCEPT ![pump.lease] = IF settles THEN "settled" ELSE IF @ = "none" THEN "pending" ELSE @]
          BY <4>2 DEF SubmitResult
        <5>2. results \in ResultType
          BY TypeParts DEF PlaneTypes
        <5>3. settles => results[pump.lease] # "disputed"
          BY <4>2 DEF SubmitResult, Cancelled
        <5>. QED
          BY <5>1, <5>2, <5>3 DEF ResultType
      <4>. QED
        BY <1>6, <4>1, <4>2 DEF Flush
    <3>2. ASSUME NEW r \in {"settled", "pending", "disputed"}, results' = [results EXCEPT ![pump.lease] = r],
                 results[pump.lease] \in {"completed", "settled"} => r = "settled",
                 results[pump.lease] = "disputed" => r = "disputed",
                 r = "pending" => results[pump.lease] = "none"
          PROVE  ResultsKept
      <4>1. \A l \in Leases : results'[l] = IF l = pump.lease THEN r ELSE results[l]
        BY <3>2 DEF TypeOK
      <4>. QED
        BY <3>2, <4>1
    <3>. QED
      BY <3>1, <3>2
  <2>. QED
    BY <1>1, <2>3, <2>4, <2>5
<1>7. CASE HeartbeatStep \/ CommandFails \/ DiscardManifest
  <2>1. BeginHeartbeat \/ (\E lost \in BOOLEAN : SendHeartbeat(lost)) \/ Reconcile \/ DiscardAt("reconcile") \/ Executes
    BY <1>7, BeatSteps
  <2>2. CASE BeginHeartbeat \/ Reconcile \/ DiscardAt("reconcile")
    BY <1>1, <1>3, <2>2, LooksAtFile DEF BeginHeartbeat, controlVars
  <2>3. CASE \E lost \in BOOLEAN : SendHeartbeat(lost)
    <3>1. /\ UNCHANGED <<leases, got, results>>
          /\ \E due : queue' = [c \in DOMAIN queue |-> IF c \in due THEN Claimed(queue[c]) ELSE queue[c]]
      BY <2>3 DEF SendHeartbeat
    <3>2. \A c \in DOMAIN queue : LET d == Claimed(queue[c]) IN
            d.type = queue[c].type /\ d.lease = queue[c].lease /\ d.rev = queue[c].rev /\ d.terminal = queue[c].terminal
      BY Types DEF Claimed, Command
    <3>3. RowsKept
      BY <3>1, <3>2
    <3>. QED
      BY <1>1, <3>1, <3>3
  <2>4. CASE Executes
    <3>1. /\ work.hand # {} /\ UNCHANGED <<leases, got, results>>
          /\ queue' = queue \/ \E ok \in BOOLEAN : \E state : Answered(ok, state)
      BY <2>4, ExecutesIs
    <3>2. RowsKept
      BY <3>1, AnsweredRows
    <3>. QED
      BY <1>1, <3>1, <3>2
  <2>. QED
    BY <2>1, <2>2, <2>3, <2>4
<1>8. CASE ServerUp \/ ServerDies \/ PluginWrites \/ AgentRestarts \/ UNCHANGED vars
  <2>1. UNCHANGED controlVars
    BY <1>8 DEF ServerUp, ServerDies, PluginWrites, AgentRestarts, pluginKeeps, vars
  <2>. QED
    BY <1>1, <1>3, <2>1
<1>. QED
  BY <1>5, <1>6, <1>7, <1>8 DEF Next

\* An event that was accepted stays so, and a match that is over stays over.
LEMMA OverStays ==
  ASSUME TypeOK, TypeOK', [Next]_vars, NEW l \in Leases
  PROVE  /\ \A kind : Accepted(l, kind) => Accepted(l, kind)'
         /\ Over(l) => Over(l)'
<1>1. ASSUME NEW kind, Accepted(l, kind) PROVE Accepted(l, kind)'
  <2>1. PICK e \in got[l] : log[e.line].kind = kind
    BY <1>1 DEF Accepted
  <2>2. e \in got'[l] /\ e.line \in 1..Len(log)
    <3>1. e \in [seq : Nat \ {0}, line : Nat \ {0}] /\ e.line <= Len(log)
      BY DEF TypeOK
    <3>. QED
      BY <3>1, StepKeeps, Types
  <2>3. log'[e.line] = log[e.line]
    BY <2>2, StepKeeps
  <2>. QED
    BY <2>1, <2>2, <2>3 DEF Accepted
<1>2. results[l] \in {"disputed", "completed", "settled"} => results'[l] \in {"disputed", "completed", "settled"}
  <2>1. results'[l] \in {"none", "pending", "completed", "settled", "disputed"}
    BY DEF TypeOK
  <2>. QED
    BY <2>1, StepKeeps
<1>. QED
  BY <1>1, <1>2 DEF Over

\* The steps in which the agent's heartbeat has no part.
Elsewhere == Control \/ Flush \/ ServerUp \/ ServerDies \/ PluginWrites \/ AgentRestarts \/ UNCHANGED vars

\* The steps of the system, by whether the heartbeat makes them.
LEMMA NextSteps ==
  [Next]_vars => Elsewhere \/ BeginHeartbeat \/ (\E lost \in BOOLEAN : SendHeartbeat(lost)) \/ Reconcile \/ DiscardAt("reconcile") \/ Executes
BY BeatSteps DEF Next, Elsewhere

\* Elsewhere the file keeps its match and moves on: a result comes with an event, and
\* becomes a receipt when it is settled.
LEMMA ElsewhereIs ==
  ASSUME TypeOK, Elsewhere
  PROVE  /\ evidence' = evidence /\ work' \in {work, Idle} /\ server'.policy = server.policy
         /\ pump'.lease = pump.lease /\ pump'.rev = pump.rev /\ pump'.cursor >= pump.cursor
         /\ pump.result /\ ~pump'.result => results'[pump.lease] = "settled" /\ pump'.receipt
         /\ pump'.result /\ ~pump.result => got'[pump.lease] # {}
         /\ pump.receipt => pump'.receipt
         /\ pump'.receipt => pump.receipt \/ results'[pump.lease] = "settled"
<1>1. pump \in PumpFile /\ pump.cursor \in Nat /\ pump.lease \in LeaseRef /\ server \in ServerState
  BY DEF TypeOK, PumpFile
<1>2. CASE ~Flush
  <2>1. pump' = pump /\ evidence' = evidence /\ work' \in {work, Idle}
    BY <1>2 DEF Elsewhere, Control, GrantLease, WakeServer, OperatorReturns, SynchronizeRoster, CancelMatch, SettleLater,
      CloseLease, ExpireLease, CommandDue, controlOnly, ServerUp, ServerDies, PluginWrites, AgentRestarts, pluginKeeps, vars
  <2>2. server'.policy = server.policy
    <3>1. CASE server' = server
      BY <3>1
    <3>2. CASE ServerUp \/ ServerDies
      BY <1>1, <3>2 DEF ServerUp, ServerDies, ServerState
    <3>3. CASE PluginWrites
      BY <1>1, <3>3 DEF PluginWrites, ServerState
    <3>. QED
      BY <1>2, <3>1, <3>2, <3>3 DEF Elsewhere, Control, GrantLease, WakeServer, OperatorReturns, SynchronizeRoster,
        CancelMatch, SettleLater, CloseLease, ExpireLease, CommandDue, controlOnly, AgentRestarts, vars
  <2>. QED
    BY <1>1, <2>1, <2>2
<1>3. ASSUME NEW n \in 1..(Len(log) - pump.cursor), NEW lost \in BOOLEAN, Upload(n, lost)
      PROVE  /\ UNCHANGED <<evidence, work, server>>
             /\ pump'.lease = pump.lease /\ pump'.rev = pump.rev /\ pump'.cursor >= pump.cursor
             /\ pump.result => pump'.result
             /\ pump'.result /\ ~pump.result => got'[pump.lease] # {}
             /\ pump'.receipt = pump.receipt
  <2>1. UNCHANGED <<evidence, work, server>> /\ pump' \in {pump, AfterUpload(n)} /\ pump.lease # NoLease
    BY <1>3 DEF Upload, pumpKeeps
  <2>2. Batch(n) # {} => got'[pump.lease] # {}
    <3> SUFFICES ASSUME Batch(n) # {} PROVE got'[pump.lease] # {}
      OBVIOUS
    <3>1. got' = [got EXCEPT ![pump.lease] = @ \cup {e \in Batch(n) : Agrees(e)}]
      BY <1>3 DEF Upload, Ingest
    <3>2. got'[pump.lease] = got[pump.lease] \cup {e \in Batch(n) : Agrees(e)}
      BY <1>1, <2>1, <3>1 DEF TypeOK, LeaseRef
    <3>3. got[pump.lease] = {} => \A e \in Batch(n) : Agrees(e)
      BY DEF Agrees
    <3>. QED
      BY <3>2, <3>3
  <2>3. pump.cursor + n >= pump.cursor /\ pump.cursor >= pump.cursor
    BY <1>1, Types
  <2>. QED
    BY <2>1, <2>2, <2>3, AfterUploadIs
<1>4. ASSUME NEW settles \in BOOLEAN, NEW lost \in BOOLEAN, SubmitResult(settles, lost)
      PROVE  /\ UNCHANGED <<evidence, work, server>>
             /\ pump'.lease = pump.lease /\ pump'.rev = pump.rev /\ pump'.cursor >= pump.cursor
             /\ pump.result /\ ~pump'.result => results'[pump.lease] = "settled" /\ pump'.receipt
             /\ pump'.result => pump.result
             /\ pump.receipt => pump'.receipt
             /\ pump'.receipt => pump.receipt \/ results'[pump.lease] = "settled"
  <2>1. UNCHANGED <<evidence, work, server>> /\ pump' \in {pump, AfterSubmit(pump.lease)}
    BY <1>4 DEF SubmitResult, pumpKeeps
  <2>2. pump.cursor >= pump.cursor
    BY <1>1
  <2>. QED
    BY <2>1, <2>2, AfterSubmitIs
<1>. QED
  BY <1>2, <1>3, <1>4 DEF Flush

-----------------------------------------------------------------------------
(* What the heartbeat does to the file.                                    *)

\* Showing the receipt takes it from the file and notes the match.
LEMMA ShowIs ==
  ASSUME TypeOK, ShowReceipt
  PROVE  /\ pump'.lease = pump.lease /\ pump'.rev = pump.rev /\ pump'.cursor = pump.cursor
         /\ pump'.seq = pump.seq /\ pump'.result = pump.result /\ pump'.receipt = FALSE
         /\ pump.receipt => pump.lease \in evidence'.shown
         /\ evidence'.anew = evidence.anew /\ evidence'.dropped = evidence.dropped
         /\ evidence'.shown = IF pump.receipt THEN evidence.shown \cup {pump.lease} ELSE evidence.shown
<1>1. pump \in PumpFile /\ evidence \in [demo : SUBSET LeaseRef, shown : SUBSET LeaseRef, anew : SUBSET Leases,
                   dropped : SUBSET Leases]
  BY DEF TypeOK
<1>2. CASE pump.receipt
  <2>1. pump' = [pump EXCEPT !.receipt = FALSE] /\ evidence' = [evidence EXCEPT !.shown = evidence.shown \cup {pump.lease}]
    BY <1>2 DEF ShowReceipt
  <2>. QED
    BY <1>1, <1>2, <2>1 DEF PumpFile
<1>3. CASE ~pump.receipt
  <2>1. pump' = pump /\ evidence' = evidence
    BY <1>3 DEF ShowReceipt
  <2>. QED
    BY <1>1, <1>3, <2>1 DEF PumpFile
<1>. QED
  BY <1>2, <1>3

\* The beginning of a heartbeat shows the receipt or leaves the file alone.
LEMMA BeginIs ==
  ASSUME TypeOK, BeginHeartbeat
  PROVE  /\ UNCHANGED <<controlVars, server, log>> /\ work'.pc = "send"
         /\ work'.defer = (pump.result \/ ~CanShow)
         /\ (work'.defer /\ UNCHANGED <<pump, evidence>>) \/ (~work'.defer /\ ShowReceipt)
<1>1. CASE pump.result \/ ~CanShow
  <2>1. work' = [Idle EXCEPT !.pc = "send", !.defer = TRUE] /\ UNCHANGED <<pump, evidence, controlVars, server, log>>
    BY <1>1 DEF BeginHeartbeat
  <2>. QED
    BY <1>1, <2>1 DEF Idle
<1>2. CASE ~(pump.result \/ ~CanShow)
  <2>1. work' = [Idle EXCEPT !.pc = "send"] /\ ShowReceipt /\ UNCHANGED <<controlVars, server, log>>
    BY <1>2 DEF BeginHeartbeat
  <2>. QED
    BY <1>2, <2>1 DEF Idle
<1>. QED
  BY <1>1, <1>2

\* The reconciliation keeps the file or drops it, and keeps the policy.
LEMMA ReconcileIs ==
  ASSUME TypeOK, Reconcile
  PROVE  /\ UNCHANGED <<controlVars, log, evidence>> /\ work.pc = "reconcile"
         /\ work'.pc \in {"idle", "commands"}
         /\ server'.policy = server.policy
         /\ \/ pump' = pump
            \/ pump' = NoPump /\ pump.lease # NoLease /\ ~work.alive /\ ~ReconcileWaits
<1>1. work'.pc \in {"idle", "commands"}
  BY DEF Reconcile, NextCommand, Idle, TypeOK, Heartbeat
<1>2. server'.policy = server.policy
  <2>1. server' \in {server, Stopped, RestoredServer}
    BY DEF Reconcile
  <2>2. Stopped.policy = server.policy /\ RestoredServer.policy = server.policy
    BY DEF Stopped, RestoredServer, TypeOK, ServerState
  <2>. QED
    BY <2>1, <2>2
<1>3. pump' = pump \/ (pump' = NoPump /\ pump.lease # NoLease /\ ~work.alive /\ ~ReconcileWaits)
  BY DEF Reconcile
<1>. QED
  BY <1>1, <1>2, <1>3 DEF Reconcile

\* A manifest that is discarded leaves the file empty, or the file stays.
LEMMA DiscardFile ==
  ASSUME TypeOK, DiscardManifest
  PROVE  /\ UNCHANGED <<leases, got, results, log>> /\ pump.lease \in Leases
         /\ evidence'.anew = evidence.anew /\ evidence'.shown = evidence.shown
         /\ server'.policy = server.policy /\ work'.pc \in {"idle", "commands"}
         /\ \/ pump' = pump /\ evidence'.dropped = evidence.dropped
            \/ pump' = NoPump /\ evidence'.dropped = evidence.dropped \cup {pump.lease}
<1>1. /\ pump.lease \in LeaseRef /\ server \in ServerState /\ work \in Heartbeat
      /\ evidence \in [demo : SUBSET LeaseRef, shown : SUBSET LeaseRef, anew : SUBSET Leases, dropped : SUBSET Leases]
  BY DEF TypeOK, PumpFile
<1>2. UNCHANGED <<leases, got, results, log>> /\ pump.lease \in Leases
  BY <1>1, DiscardIs DEF LeaseRef, Acknowledge, controlVars
<1>3. work'.pc \in {"idle", "commands"}
  <2>1. work' \in {NextCommand(work), Skipped, Idle}
    BY DiscardIs DEF Acknowledge
  <2>2. ASSUME NEW w \in Heartbeat PROVE NextCommand(w).pc \in {"idle", "commands"}
    BY <2>2 DEF NextCommand, Idle, Heartbeat
  <2>3. [work EXCEPT !.hand = @ \ {c0}] \in Heartbeat
    BY <1>1 DEF Heartbeat
  <2>4. Idle.pc = "idle"
    BY DEF Idle
  <2>. QED
    BY <1>1, <2>1, <2>2, <2>3, <2>4 DEF Skipped
<1>4. CASE pump' = pump /\ UNCHANGED <<server, evidence>>
  BY <1>2, <1>3, <1>4
<1>5. CASE ~(pump' = pump /\ UNCHANGED <<server, evidence>>)
  <2>1. /\ pump' = NoPump /\ server' = [server EXCEPT !.match = NoMatch]
        /\ evidence' = [evidence EXCEPT !.dropped = @ \cup {pump.lease}]
    BY <1>5, DiscardIs
  <2>. QED
    BY <1>1, <1>2, <1>3, <2>1 DEF ServerState
<1>. QED
  BY <1>4, <1>5

\* A command begins the file, shows the receipt, takes a revision on, drops the
\* file for a drain, or leaves it alone.
LEMMA ExecutesFile ==
  ASSUME TypeOK, Executes
  PROVE  \/ PrepareManifest
         \/ DrainRechecked
         \/ DiscardManifest
         \/ /\ evidence'.anew = evidence.anew /\ evidence'.dropped = evidence.dropped
            /\ evidence'.shown = evidence.shown
            /\ \/ pump' = pump
               \/ Synced /\ ~pump.result /\ pump' = [pump EXCEPT !.rev = cmd.rev]
               \/ pump' = NoPump /\ work.pc \in {"drain", "await"} /\ cmd.type = "drain" /\ log' = log
<1>1. evidence \in [demo : SUBSET LeaseRef, shown : SUBSET LeaseRef, anew : SUBSET Leases, dropped : SUBSET Leases]
  BY DEF TypeOK
<1>2. Demo.anew = evidence.anew /\ Demo.dropped = evidence.dropped /\ Demo.shown = evidence.shown
  BY <1>1 DEF Demo
<1>3. CASE DrainStopped \/ DrainTerminal \/ DrainAborted
  <2>1. evidence' \in {evidence, Demo} /\ pump' \in {pump, NoPump} /\ work.pc \in {"drain", "await"} /\ cmd.type = "drain"
        /\ log' = log
    BY <1>3 DEF DrainStopped, DrainTerminal, DrainAborted, At
  <2>. QED
    BY <1>2, <2>1
<1>4. CASE Synced
  BY <1>4 DEF Synced
<1>5. CASE ~(DrainStopped \/ DrainTerminal \/ DrainAborted \/ Synced \/ PrepareManifest \/ DrainRechecked
             \/ DiscardManifest)
  <2>1. pump' = pump /\ evidence' = evidence
    BY <1>5 DEF Executes, Start, PrepareRefused, PrepareServer, Prepared, SyncIdle, SyncServer, DrainDeferred,
      DrainAbandoned, DrainAborts, Quarantine, Unquarantine, CommandFails, WaitFails, DiscardAt
  <2>. QED
    BY <2>1
<1>. QED
  BY <1>3, <1>4, <1>5

\* The preparation begins the file of its lease.
LEMMA ManifestIs ==
  ASSUME TypeOK, PrepareManifest
  PROVE  /\ pump' = Begin(cmd.lease) /\ pump'.lease = cmd.lease /\ pump'.rev = 0 /\ pump'.cursor = Len(log)
         /\ pump'.seq = 1 /\ ~pump'.result /\ ~pump'.receipt
         /\ work.hand # {} /\ cmd.type = "prepare" /\ UNCHANGED <<controlVars, log>>
         /\ evidence'.shown = evidence.shown
         /\ evidence'.anew = IF got[cmd.lease] = {} /\ pump.lease # cmd.lease THEN evidence.anew
                             ELSE evidence.anew \cup {cmd.lease}
         /\ evidence'.dropped = IF cmd.lease < pump.lease THEN evidence.dropped \cup {pump.lease}
                                 ELSE evidence.dropped
<1>1. pump' = Begin(cmd.lease) /\ work.hand # {} /\ cmd.type = "prepare" /\ UNCHANGED <<controlVars, log>>
  BY DEF PrepareManifest, At
<1>2. /\ pump'.lease = cmd.lease /\ pump'.rev = 0 /\ pump'.cursor = Len(log)
      /\ pump'.seq = 1 /\ ~pump'.result /\ ~pump'.receipt
  BY <1>1 DEF Begin, NoPump
<1>3. evidence \in [demo : SUBSET LeaseRef, shown : SUBSET LeaseRef, anew : SUBSET Leases, dropped : SUBSET Leases]
  BY DEF TypeOK
<1>4. /\ evidence'.shown = evidence.shown
      /\ evidence'.anew = IF got[cmd.lease] = {} /\ pump.lease # cmd.lease THEN evidence.anew
                             ELSE evidence.anew \cup {cmd.lease}
      /\ evidence'.dropped = IF cmd.lease < pump.lease THEN evidence.dropped \cup {pump.lease}
                                 ELSE evidence.dropped
  BY <1>3 DEF PrepareManifest
<1>. QED
  BY <1>1, <1>2, <1>4

\* Where the heartbeat stands after a step of a command.
LEMMA ExecutesWork ==
  ASSUME TypeOK, Executes
  PROVE  /\ work'.pc \notin {"send", "reconcile"}
         /\ work'.pc = "drain" => DrainRechecked
         /\ work'.pc = "await" => (PrepareServer \/ SyncServer \/ DrainAborts)
         /\ work'.pc \in {"drain", "await"} => work'.hand = work.hand /\ c0' = c0 /\ cmd' = cmd /\ queue' = queue
<1>1. \/ work' = Skipped \/ work' = Idle
      \/ /\ UNCHANGED <<queue, db>>
         /\ \E pc \in {"configure", "await", "drain"}, k \in Nat :
              Suits(pc) /\ work' = [work EXCEPT !.pc = pc, !.wait = k]
  BY ExecutesIs
<1>2. work \in Heartbeat
  BY DEF TypeOK
<1>3. Skipped.pc \in {"idle", "commands"} /\ Idle.pc = "idle"
  BY <1>2 DEF Skipped, NextCommand, Idle, Heartbeat
<1>4. ASSUME NEW pc \in {"configure", "await", "drain"}, NEW k \in Nat, work' = [work EXCEPT !.pc = pc, !.wait = k]
      PROVE  work'.pc = pc /\ work'.hand = work.hand /\ c0' = c0
  <2>1. work'.pc = pc /\ work'.hand = work.hand
    BY <1>2, <1>4 DEF Heartbeat
  <2>. QED
    BY <2>1 DEF c0
<1>5. work'.pc \in {"configure", "await", "drain"} => work'.hand = work.hand /\ c0' = c0 /\ queue' = queue
  BY <1>1, <1>3, <1>4
<1>6. work'.pc \notin {"send", "reconcile"}
  BY <1>1, <1>3, <1>4
<1>7. work'.pc \in {"drain", "await"} => ~PrepareManifest
  BY <1>2 DEF PrepareManifest, Heartbeat
<1>8. DrainRechecked => work'.pc = "drain"
  BY <1>2 DEF DrainRechecked, Heartbeat
<1>9. \A ok \in BOOLEAN : \A state : Acknowledge(ok, state) => work' \in {Skipped, Idle}
  BY DEF Acknowledge
<1>10. PrepareServer \/ SyncServer \/ DrainAborts => work'.pc # "drain"
  <2>1. PrepareServer \/ SyncServer \/ DrainAborts =>
          work' = [work EXCEPT !.pc = "await", !.wait = Len(log)] \/ Acknowledge(FALSE, "ready")
    BY DEF PrepareServer, SyncServer, DrainAborts
  <2>2. [work EXCEPT !.pc = "await", !.wait = Len(log)].pc = "await"
    BY <1>2 DEF Heartbeat
  <2>. QED
    BY <1>3, <1>9, <2>1, <2>2
<1>11. ~(PrepareManifest \/ DrainRechecked \/ PrepareServer \/ SyncServer \/ DrainAborts) => work' \in {Skipped, Idle}
  <2>1. Quarantine \/ Unquarantine \/ Synced => work' \in {Skipped, Idle}
    BY <1>9, Answering
  <2>2. Start \/ PrepareRefused \/ Prepared \/ SyncIdle \/ DrainDeferred \/ DrainAbandoned \/ DrainStopped \/ DrainAborted
        \/ CommandFails => work' \in {Skipped, Idle}
    BY <1>9 DEF Start, PrepareRefused, Prepared, SyncIdle, DrainDeferred, DrainAbandoned, DrainStopped, DrainAborted,
       CommandFails
  <2>3. WaitFails("prepare", "warmup") \/ WaitFails("sync-roster", "synced") \/ WaitFails("drain", "aborted")
        \/ DrainTerminal => work' \in {Skipped, Idle}
    BY <1>9 DEF WaitFails, DrainTerminal
  <2>4. DiscardAt("commands") => work' \in {Skipped, Idle}
    BY <1>9, DiscardIs DEF DiscardAt
  <2>. QED
    BY <2>1, <2>2, <2>3, <2>4 DEF Executes
<1>12. work'.pc \in {"drain", "await"} => cmd' = cmd
  BY <1>5 DEF cmd
<1>. QED
  BY <1>3, <1>5, <1>6, <1>7, <1>8, <1>10, <1>11, <1>12

\* What a command does to the roster policy.
LEMMA ExecutesPolicy ==
  ASSUME TypeOK, Executes
  PROVE  server'.policy = server.policy \/ PrepareManifest \/ SyncIdle \/ SyncServer
<1>1. server \in ServerState
  BY DEF TypeOK
<1>2. CASE Start
  BY <1>1, <1>2 DEF Start, ServerState
<1>3. CASE PrepareServer
  BY <1>1, <1>3 DEF PrepareServer, ServerState
<1>4. CASE DrainTerminal \/ DrainAborted
  <2>1. server' \in {server, Stopped, [server EXCEPT !.match = NoMatch]}
    BY <1>4 DEF DrainTerminal, DrainAborted
  <2>. QED
    BY <1>1, <2>1 DEF Stopped, ServerState
<1>5. CASE DrainAborts \/ Quarantine
  <2>1. server' \in {server, AbortServer}
    BY <1>5 DEF DrainAborts, Quarantine
  <2>. QED
    BY <1>1, <2>1 DEF AbortServer, ServerState
<1>6. CASE PrepareRefused \/ Prepared \/ Synced \/ DrainDeferred \/ DrainAbandoned \/ DrainRechecked \/ DrainStopped
           \/ Unquarantine \/ CommandFails \/ WaitFails("prepare", "warmup") \/ WaitFails("sync-roster", "synced")
           \/ WaitFails("drain", "aborted")
  BY <1>6 DEF PrepareRefused, Prepared, Synced, DrainDeferred, DrainAbandoned, DrainRechecked, DrainStopped,
    Unquarantine, CommandFails, WaitFails
<1>7. CASE DiscardManifest
  BY <1>7, DiscardFile
<1>. QED
  BY <1>2, <1>3, <1>4, <1>5, <1>6, <1>7 DEF Executes, DiscardAt

-----------------------------------------------------------------------------
(* What stays on file while its match is in play.                          *)

\* The heartbeat that was told that the match on file is over was told the truth.
Gives == work.pc = "reconcile" /\ ~work.alive => ~InPlay(pump.lease)

\* The roster that is being synchronized is of the match on file, and not older
\* than the one there.
SyncShape == work.pc = "await" /\ cmd.type = "sync-roster" => cmd.lease = pump.lease /\ cmd.rev >= pump.rev

\* A lease that was granted and is not active stays so.
LEMMA StaysOver ==
  ASSUME TypeOK, TypeOK', [Next]_vars, NEW l \in Nat, l <= Len(leases), Active(l)'
  PROVE  l \in Leases /\ Active(l) /\ leases[l] = "active" /\ leases'[l] = "active" /\ l \in DOMAIN leases'
<1>1. leases' \in Seq(LeaseStatus) /\ Len(leases) \in Nat
  BY Types DEF TypeOK
<1>2. l \in DOMAIN leases' /\ leases'[l] = "active"
  BY DEF Active
<1>3. l \in DOMAIN leases
  BY <1>1, <1>2, Types
<1>. QED
  BY <1>2, <1>3, StepKeeps, Types DEF Active

\* A match that is in play was so before.
LEMMA StaysInPlay ==
  ASSUME TypeOK, TypeOK', [Next]_vars, NEW l \in Nat, l <= Len(leases), InPlay(l)'
  PROVE  l \in Leases /\ InPlay(l) /\ Active(l) /\ leases'[l] = "active"
<1>1. Active(l)' /\ ~Over(l)'
  BY DEF InPlay
<1>2. l \in Leases /\ Active(l) /\ leases'[l] = "active"
  BY <1>1, StaysOver
<1>. QED
  BY <1>1, <1>2, OverStays DEF InPlay

\* The file, the commands and the leases, as the proofs below need them.
LEMMA OnFileTypes ==
  ASSUME TypeOK, Plane
  PROVE  /\ pump.lease \in Nat /\ pump.lease <= Len(leases) /\ pump.rev \in Nat /\ pump.cursor \in Nat
         /\ pump.cursor <= Len(log) /\ Len(log) \in Nat /\ Len(leases) \in Nat
         /\ pump.result \in BOOLEAN /\ pump.receipt \in BOOLEAN
         /\ \A c \in DOMAIN queue : queue[c].lease \in Nat /\ queue[c].lease <= Len(leases) /\ queue[c].rev \in Nat
<1>1. pump \in PumpFile /\ pump.cursor <= Len(log) /\ pump.lease <= Len(leases)
  BY DEF TypeOK, Plane, Known
<1>2. pump.lease \in Nat /\ pump.rev \in Nat /\ pump.cursor \in Nat /\ pump.result \in BOOLEAN /\ pump.receipt \in BOOLEAN
  BY <1>1, AgentAssumption DEF PumpFile, LeaseRef, Leases, NoLease
<1>3. \A c \in DOMAIN queue : queue[c].lease \in Nat /\ queue[c].lease <= Len(leases) /\ queue[c].rev \in Nat
  BY Types, AgentAssumption DEF Command, Leases, NoLease, Plane, Known
<1>. QED
  BY <1>1, <1>2, <1>3, Types

\* Every step keeps Gives: a match that is over is not in play again.
LEMMA GivesStays ==
  ASSUME TypeOK, TypeOK', Plane, Gives, [Next]_vars
  PROVE  Gives'
<1> SUFFICES ASSUME work'.pc = "reconcile", ~work'.alive, InPlay(pump.lease)' PROVE FALSE
  BY DEF Gives
<1>1. pump.lease \in Nat /\ pump.lease <= Len(leases)
  BY OnFileTypes
<1>2. CASE Elsewhere
  <2>1. work' = work /\ pump'.lease = pump.lease
    BY <1>2, ElsewhereIs DEF Idle
  <2>2. ASSUME NEW l, l = pump.lease PROVE InPlay(l)
    <3>1. InPlay(l)'
      BY <2>1, <2>2 DEF InPlay, Active, Over, Accepted
    <3>. QED
      BY <1>1, <2>2, <3>1, StaysInPlay
  <2>. QED
    BY <2>1, <2>2 DEF Gives
<1>3. CASE BeginHeartbeat
  BY <1>3, BeginIs
<1>4. ASSUME NEW lost \in BOOLEAN, SendHeartbeat(lost) PROVE FALSE
  <2>1. UNCHANGED <<leases, pump, got, results, log>>
    BY <1>4 DEF SendHeartbeat
  <2>2. ~lost /\ work' = [work EXCEPT !.pc = "reconcile", !.hand = work'.hand, !.alive = Alive, !.early = Early]
    BY <1>4 DEF SendHeartbeat, Early, Idle, TypeOK, Heartbeat
  <2>3. Alive => work'.alive
    BY <2>2 DEF TypeOK, Heartbeat
  <2>. QED
    BY <2>1, <2>3 DEF InPlay, Active, Over, Accepted, Alive
<1>5. CASE Reconcile \/ DiscardAt("reconcile")
  BY <1>5, ReconcileIs, DiscardFile DEF DiscardAt
<1>6. CASE Executes
  BY <1>6, ExecutesWork
<1>. QED
  BY <1>2, <1>3, <1>4, <1>5, <1>6, NextSteps

\* The command at hand is the same after a step that leaves the heartbeat where
\* it stands.
LEMMA SameCommand ==
  ASSUME TypeOK, TypeOK', [Next]_vars, work' = work, work.hand # {}
  PROVE  /\ c0' = c0 /\ c0 \in DOMAIN queue /\ c0 \in work.hand
         /\ cmd'.type = cmd.type /\ cmd'.lease = cmd.lease /\ cmd'.rev = cmd.rev /\ cmd'.terminal = cmd.terminal
<1>1. c0' = c0
  BY DEF c0
<1>2. c0 \in DOMAIN queue /\ c0 \in work.hand
  BY InHand
<1>. QED
  BY <1>1, <1>2, StepKeeps DEF cmd

\* Every step keeps SyncShape: the file is not exchanged while a roster is awaited.
LEMMA SyncShapeStays ==
  ASSUME TypeOK, TypeOK', Plane, SyncShape, [Next]_vars
  PROVE  SyncShape'
<1> SUFFICES ASSUME work'.pc = "await", cmd'.type = "sync-roster"
             PROVE  cmd'.lease = pump'.lease /\ cmd'.rev >= pump'.rev
  BY DEF SyncShape
<1>1. CASE Elsewhere
  <2>1. work' = work /\ pump'.lease = pump.lease /\ pump'.rev = pump.rev
    BY <1>1, ElsewhereIs DEF Idle
  <2>2. work.hand # {}
    BY <2>1 DEF Plane, HandShape
  <2>. QED
    BY <2>1, <2>2, SameCommand DEF SyncShape
<1>2. CASE BeginHeartbeat \/ Reconcile \/ DiscardAt("reconcile")
  BY <1>2, BeginIs, ReconcileIs, DiscardFile DEF DiscardAt
<1>3. ASSUME NEW lost \in BOOLEAN, SendHeartbeat(lost) PROVE FALSE
  BY <1>3 DEF SendHeartbeat, Idle, TypeOK, Heartbeat
<1>4. CASE Executes
  <2>1. (PrepareServer \/ SyncServer \/ DrainAborts) /\ cmd' = cmd
    BY <1>4, ExecutesWork
  <2>2. SyncServer
    BY <2>1 DEF PrepareServer, DrainAborts, At
  <2>3. pump' = pump /\ pump.lease = cmd.lease /\ ~Superseded
    BY <2>2 DEF SyncServer
  <2>4. cmd.rev \in Nat /\ pump.rev \in Nat
    BY <1>4, OnFileTypes, ExecutesIs, InHand DEF cmd
  <2>5. server.policy.rev \in Nat
    BY AgentAssumption DEF TypeOK, ServerState
  <2>. QED
    BY <2>1, <2>3, <2>4, <2>5 DEF Superseded, Highest, Written
<1>. QED
  BY <1>1, <1>2, <1>3, <1>4, NextSteps

\* A drain at hand: no lease is active.
LEMMA NoLeaseWhileDraining ==
  ASSUME TypeOK, Plane, work.hand # {}, cmd.type = "drain"
  PROVE  /\ Clearing(c0) /\ cmd.lease = Len(leases) /\ \A l \in Nat : ~Active(l)
<1>1. c0 \in work.hand /\ c0 \in DOMAIN queue
  BY InHand
<1>2. Clearing(c0)
  BY <1>1 DEF Plane, HandShape, Clearing, Unfinished, cmd
<1>3. (\A l \in Leases : ~Active(l)) /\ cmd.lease = Len(leases)
  BY <1>1, <1>2 DEF Plane, Clears, cmd
<1>. QED
  BY <1>2, <1>3, Types DEF Active

\* While it is in play, a match stays on file and its cursor and revision only move
\* on, unless the preparation of an earlier lease takes its place or its manifest
\* is discarded.
LEMMA KeptStep ==
  ASSUME TypeOK, TypeOK', Plane, Gives, SyncShape, [Next]_vars,
         NEW l \in Leases, pump.lease = l, InPlay(l), InPlay(l)'
  PROVE  \/ /\ pump'.lease = l /\ pump'.cursor >= pump.cursor
            /\ pump'.rev >= pump.rev \/ (PrepareManifest /\ l \in evidence'.anew)
         \/ PrepareManifest /\ pump'.lease \in 1..(l - 1) /\ l \in evidence'.dropped
         \/ DiscardManifest /\ pump'.lease = NoLease /\ l \in evidence'.dropped
<1>1. /\ pump.lease \in Nat /\ pump.lease <= Len(leases) /\ pump.rev \in Nat /\ pump.cursor \in Nat
      /\ pump.cursor <= Len(log) /\ Len(log) \in Nat /\ Len(leases) \in Nat
  BY OnFileTypes
<1>0. Active(l)
  BY DEF InPlay
<1>2. CASE Elsewhere
  BY <1>1, <1>2, ElsewhereIs
<1>3. CASE BeginHeartbeat
  <2>1. pump'.lease = pump.lease /\ pump'.rev = pump.rev /\ pump'.cursor = pump.cursor
    BY <1>3, BeginIs, ShowIs
  <2>. QED
    BY <1>1, <2>1
<1>4. ASSUME NEW lost \in BOOLEAN, SendHeartbeat(lost) PROVE pump' = pump
  BY <1>4 DEF SendHeartbeat
<1>5. CASE Reconcile
  BY <1>1, <1>5, ReconcileIs DEF Gives
<1>8. CASE DiscardManifest
  BY <1>1, <1>8, DiscardFile DEF NoPump
<1>6. CASE PrepareManifest
  <2>1. cmd.lease \in Nat /\ cmd.lease <= Len(leases) /\ cmd.lease # NoLease
    BY <1>6, ManifestIs, OnFileTypes, InHand DEF cmd, Plane, Known
  <2>2. pump.lease = Len(leases)
    BY <1>0, Types DEF Plane, Latest, Active
  <2>. QED
    BY <1>1, <1>6, <2>1, <2>2, ManifestIs DEF NoLease
<1>7. CASE Executes /\ ~PrepareManifest /\ ~DiscardManifest
  <2>1. CASE DrainRechecked
    BY <1>1, <2>1, ShowIs DEF DrainRechecked
  <2>2. CASE pump' = pump
    BY <1>1, <2>2
  <2>3. CASE Synced /\ pump' = [pump EXCEPT !.rev = cmd.rev]
    <3>1. cmd.rev >= pump.rev
      BY <2>3 DEF SyncShape, Synced, At
    <3>2. pump'.lease = pump.lease /\ pump'.rev = cmd.rev /\ pump'.cursor = pump.cursor
      BY <2>3 DEF TypeOK, PumpFile
    <3>. QED
      BY <1>1, <3>1, <3>2
  <2>4. CASE cmd.type = "drain"
    BY <1>0, <1>1, <1>7, <2>4, NoLeaseWhileDraining, ExecutesIs
  <2>. QED
    BY <1>7, <2>1, <2>2, <2>3, <2>4, ExecutesFile
<1>. QED
  BY <1>1, <1>2, <1>3, <1>4, <1>5, <1>6, <1>7, <1>8, NextSteps DEF DiscardAt

\* A result on file leaves it only when its match is not in play or the file was
\* displaced.
LEMMA ResultStep ==
  ASSUME TypeOK, TypeOK', Plane, Gives, [Next]_vars, NEW l \in Leases, pump.lease = l, pump.result,
         ~(pump'.lease = l /\ pump'.result)
  PROVE  ~InPlay(l)' \/ Displaced(l)'
<1>0. l \in Nat /\ l <= Len(leases) /\ l # NoLease /\ Len(leases) \in Nat /\ l \in DOMAIN leases
  BY OnFileTypes, Types DEF Leases, NoLease
<1>1. SUFFICES ASSUME InPlay(l)', ~Displaced(l)' PROVE FALSE
  OBVIOUS
<1>2. InPlay(l) /\ Active(l)
  BY <1>0, <1>1, StaysInPlay
<1>3. l = Len(leases)
  BY <1>2 DEF Plane, Latest
<1>4. CASE Elsewhere
  <2>1. results'[l] = "settled"
    BY <1>4, ElsewhereIs
  <2>. QED
    BY <1>1, <2>1 DEF InPlay, Over
<1>5. CASE BeginHeartbeat
  BY <1>5, BeginIs, ShowIs
<1>6. ASSUME NEW lost \in BOOLEAN, SendHeartbeat(lost) PROVE pump' = pump
  BY <1>6 DEF SendHeartbeat
<1>7. CASE Reconcile
  BY <1>2, <1>7, ReconcileIs DEF Gives
<1>10. CASE DiscardManifest
  BY <1>1, <1>10, DiscardFile DEF Displaced
<1>8. CASE PrepareManifest
  <2>1. cmd.lease \in Nat /\ cmd.lease <= Len(leases)
    BY <1>8, ManifestIs, OnFileTypes, InHand DEF cmd
  <2>2. cmd.lease = l \/ cmd.lease < l
    BY <1>0, <1>3, <2>1
  <2>. QED
    BY <1>1, <1>8, <2>1, <2>2, ManifestIs DEF Displaced
<1>9. CASE Executes /\ ~PrepareManifest /\ ~DiscardManifest
  <2>1. CASE DrainRechecked
    BY <2>1, ShowIs DEF DrainRechecked
  <2>2. CASE cmd.type = "drain"
    BY <1>0, <1>2, <1>9, <2>2, NoLeaseWhileDraining, ExecutesIs
  <2>. QED
    BY <1>9, <2>1, <2>2, ExecutesFile
<1>. QED
  BY <1>4, <1>5, <1>6, <1>7, <1>8, <1>9, <1>10, NextSteps DEF DiscardAt

-----------------------------------------------------------------------------
(* A roster that was reported synchronized.                                *)

\* The revision in place, on file or written, does not go back while the match
\* stays on file.
LEMMA HighestGrows ==
  ASSUME TypeOK, TypeOK', Plane, SyncShape, [Next]_vars, ~PrepareManifest, pump'.lease = pump.lease, pump'.rev >= pump.rev
  PROVE  Highest' >= Highest
<1>1. pump.rev \in Nat /\ pump'.rev \in Nat /\ server.policy.rev \in Nat /\ server'.policy.rev \in Nat
  BY AgentAssumption DEF TypeOK, PumpFile, ServerState
<1>2. CASE server'.policy = server.policy
  BY <1>1, <1>2 DEF Highest, Written
<1>3. CASE SyncIdle \/ SyncServer
  <2>1. work.hand # {}
    BY <1>3 DEF SyncIdle, SyncServer, At
  <2>2. cmd.rev \in Nat
    BY <2>1, InHand, OnFileTypes DEF cmd
  <2>3. server'.policy = server.policy
        \/ (pump.lease = cmd.lease /\ ~Superseded /\ server'.policy = [lease |-> cmd.lease, rev |-> cmd.rev])
    BY <1>3 DEF SyncIdle, SyncServer, TypeOK, ServerState
  <2>. QED
    BY <1>1, <1>2, <2>2, <2>3 DEF Superseded, Highest, Written
<1>4. CASE Elsewhere
  BY <1>2, <1>4, ElsewhereIs
<1>5. CASE BeginHeartbeat \/ Reconcile \/ DiscardAt("reconcile")
  <2>1. server'.policy = server.policy
    BY <1>5, BeginIs, ReconcileIs, DiscardFile DEF DiscardAt
  <2>. QED
    BY <1>2, <2>1
<1>6. ASSUME NEW lost \in BOOLEAN, SendHeartbeat(lost) PROVE server' = server
  BY <1>6 DEF SendHeartbeat
<1>. QED
  BY <1>2, <1>3, <1>4, <1>5, <1>6, NextSteps, ExecutesPolicy

\* A command that is completed now.
LEMMA CompletedNow ==
  ASSUME TypeOK, TypeOK', Plane, [Next]_vars, NEW c \in DOMAIN queue', queue'[c].status = "completed",
         queue'[c].type = "sync-roster", ~(c \in DOMAIN queue /\ queue[c].status = "completed")
  PROVE  /\ work.hand # {} /\ c = c0 /\ cmd.type = "sync-roster"
         /\ \/ SyncIdle /\ pump.lease = cmd.lease
            \/ Synced /\ ~pump.result
<1>1. CASE ~Executes
  <2>1. CASE \E r : queue' = Append(queue, r) /\ r.status = "pending"
    <3>1. queue \in Seq(Command)
      BY Types
    <3>2. c = Len(queue) + 1 \/ (c \in DOMAIN queue /\ queue'[c] = queue[c])
      BY <2>1, <3>1
    <3>3. queue'[Len(queue) + 1].status = "pending"
      BY <2>1, <3>1
    <3>. QED
      BY <3>2, <3>3
  <2>2. CASE queue' = queue
    BY <2>2
  <2>3. ASSUME NEW l, NEW b, Release(l, b) PROVE FALSE
    BY <2>1, <2>2, <2>3 DEF Release, NewCommand
  <2>4. CASE Control
    <3>1. ASSUME NEW d \in DOMAIN queue, CommandDue(d) PROVE FALSE
      <4>1. queue[d] \in Command /\ queue' = [queue EXCEPT ![d].status = "pending", ![d].resting = FALSE]
        BY <3>1, Types DEF CommandDue
      <4>2. DOMAIN queue' = DOMAIN queue /\ queue'[d].status = "pending" /\ \A k \in DOMAIN queue : k # d => queue'[k] = queue[k]
        BY <4>1 DEF Command
      <4>. QED
        BY <4>2
    <3>2. CASE GrantLease \/ WakeServer \/ OperatorReturns \/ \E l \in Leases : SynchronizeRoster(l) \/ CloseLease(l) \/ ExpireLease(l)
      <4>1. queue' = queue \/ \E r : queue' = Append(queue, r) /\ r.status = "pending"
        <5>1. \A t, l, rev, b : NewCommand(t, l, rev, b).status = "pending"
          BY DEF NewCommand
        <5>2. queue' = queue \/ \E t, l, rev, b : queue' = Append(queue, NewCommand(t, l, rev, b))
          <6>1. CASE GrantLease
            BY <6>1 DEF GrantLease
          <6>2. CASE WakeServer \/ OperatorReturns
            BY <6>2 DEF WakeServer, OperatorReturns
          <6>3. ASSUME NEW l \in Leases, SynchronizeRoster(l) PROVE \E t, k, rev, b : queue' = Append(queue, NewCommand(t, k, rev, b))
            BY <6>3 DEF SynchronizeRoster
          <6>4. ASSUME NEW l \in Leases, CloseLease(l) \/ ExpireLease(l)
                PROVE  queue' = queue \/ \E t, k, rev, b : queue' = Append(queue, NewCommand(t, k, rev, b))
            <7>1. CASE CloseLease(l)
              BY <7>1 DEF CloseLease
            <7>2. CASE ExpireLease(l)
              <8> DEFINE b == FALSE
              <8>1. queue' = Append(queue, NewCommand("quarantine", l, 0, b))
                BY <7>2 DEF ExpireLease
              <8> HIDE DEF b
              <8>. QED
                BY <8>1
            <7>. QED
              BY <6>4, <7>1, <7>2
          <6>. QED
            BY <3>2, <6>1, <6>2, <6>3, <6>4
        <5>. QED
          BY <5>1, <5>2
      <4>. QED
        BY <2>1, <2>2, <4>1
    <3>. QED
      BY <2>3, <2>4, <3>1, <3>2 DEF Control, CancelMatch, SettleLater
  <2>5. CASE Flush
    BY <2>2, <2>3, <2>5 DEF Flush, Upload, SubmitResult
  <2>6. CASE ServerUp \/ ServerDies \/ PluginWrites \/ AgentRestarts \/ BeginHeartbeat \/ Reconcile
             \/ DiscardAt("reconcile") \/ UNCHANGED vars
    BY <2>2, <2>6, LooksAtFile DEF ServerUp, ServerDies, PluginWrites, AgentRestarts, BeginHeartbeat, Reconcile, pluginKeeps,
      controlVars, vars
  <2>7. ASSUME NEW lost \in BOOLEAN, SendHeartbeat(lost) PROVE FALSE
    <3>1. DOMAIN queue' = DOMAIN queue /\ queue'[c] \in {queue[c], Claimed(queue[c])}
      BY <2>7 DEF SendHeartbeat
    <3>2. Claimed(queue[c]).status = "claimed"
      BY <3>1, Types DEF Claimed, Command
    <3>. QED
      BY <3>1, <3>2
  <2>. QED
    BY <1>1, <2>4, <2>5, <2>6, <2>7, NextSteps DEF Elsewhere
<1>2. CASE Executes
  <2>1. work.hand # {}
    BY <1>2, ExecutesIs
  <2>2. PICK ok \in BOOLEAN, state \in {"ready", "offline"} : Answered(ok, state)
    BY <1>2, ExecutesIs
  <2>3. c = c0 /\ queue'[c0] = Answer(ok) /\ cmd.type = "sync-roster" /\ queue'[c0].status = "completed"
    BY <2>1, <2>2, AnsweredRows DEF cmd
  <2>4. cmd.status = "claimed"
    BY <2>1, InHand DEF Plane, HandShape, cmd
  <2>5. queue'[c0].status # queue[c0].status
    BY <2>3, <2>4 DEF cmd
  <2>6. ASSUME Acknowledge(FALSE, "ready") PROVE FALSE
    <3>1. queue'[c0] = Answer(FALSE)
      <4>1. queue' = [queue EXCEPT ![c0] = Answer(FALSE)] /\ queue \in Seq(Command)
        BY <2>5, <2>6, Types DEF Acknowledge
      <4>. QED
        BY <2>1, <4>1, InHand
    <3>2. Answer(FALSE).status # "completed"
      BY <2>1, InHand DEF Answer, Command
    <3>. QED
      BY <2>3, <3>1, <3>2
  <2>7. CASE SyncIdle
    <3>1. CASE pump.lease = cmd.lease
      BY <2>1, <2>3, <2>7, <3>1
    <3>2. CASE pump.lease # cmd.lease
      <4>1. (pump.lease = cmd.lease) = FALSE
        BY <3>2
      <4>2. Acknowledge(pump.lease = cmd.lease, "ready")
        BY <2>7 DEF SyncIdle
      <4>. QED
        BY <2>6, <4>1, <4>2
    <3>. QED
      BY <3>1, <3>2
  <2>8. CASE Synced
    <3>1. CASE ~pump.result
      BY <2>1, <2>3, <2>8, <3>1
    <3>2. CASE pump.result
      <4>1. (~pump.result) = FALSE
        BY <3>2
      <4>2. Acknowledge(~pump.result, "ready")
        BY <2>8 DEF Synced
      <4>. QED
        BY <2>6, <4>1, <4>2
    <3>. QED
      BY <3>1, <3>2
  <2>9. CASE SyncServer
    BY <2>5, <2>6, <2>9 DEF SyncServer, controlVars
  <2>10. CASE WaitFails("sync-roster", "synced")
    BY <2>6, <2>10 DEF WaitFails
  <2>11. CASE CommandFails
    <3>1. queue'[c0] = Answer(FALSE)
      <4>1. queue' = [queue EXCEPT ![c0] = Answer(FALSE)] /\ queue \in Seq(Command)
        BY <2>11, Types DEF CommandFails
      <4>. QED
        BY <2>1, <4>1, InHand
    <3>2. Answer(FALSE).status # "completed"
      BY <2>1, InHand DEF Answer, Command
    <3>. QED
      BY <2>3, <3>1, <3>2
  <2>12. CASE Start \/ PrepareRefused \/ PrepareManifest \/ PrepareServer \/ Prepared \/ DrainDeferred \/ DrainAbandoned
              \/ DrainRechecked \/ DrainStopped \/ DrainTerminal \/ DrainAborts \/ DrainAborted \/ Quarantine \/ Unquarantine
              \/ WaitFails("prepare", "warmup") \/ WaitFails("drain", "aborted") \/ DiscardAt("commands")
    <3>1. cmd.type # "sync-roster"
      BY <2>12, DiscardIs DEF DiscardAt, Start, PrepareRefused, PrepareManifest, PrepareServer, Prepared, DrainDeferred, DrainAbandoned,
        DrainRechecked, DrainStopped, DrainTerminal, DrainAborts, DrainAborted, Quarantine, Unquarantine, WaitFails, At
    <3>. QED
      BY <2>3, <3>1
  <2>. QED
    BY <1>2, <2>7, <2>8, <2>9, <2>10, <2>11, <2>12 DEF Executes
<1>. QED
  BY <1>1, <1>2

\* Every step keeps the roster that was reported: the preparation of another lease
\* displaces the file, and a revision is only replaced by a later one.
LEMMA SyncedStays ==
  ASSUME TypeOK, TypeOK', Plane, Gives, SyncShape, SyncedIsWritten, [Next]_vars
  PROVE  SyncedIsWritten'
<1> SUFFICES ASSUME NEW c \in DOMAIN queue', queue'[c].type = "sync-roster", queue'[c].status = "completed",
                    InPlay(queue[c].lease)', ~Displaced(queue[c].lease)'
             PROVE  pump'.lease = queue'[c].lease /\ Highest' >= queue'[c].rev
  BY DEF SyncedIsWritten
<1>1. c \in DOMAIN queue /\ queue'[c].lease = queue[c].lease /\ queue'[c].rev = queue[c].rev /\ queue'[c].type = queue[c].type
  BY CompletedNow, StepKeeps, InHand
<1>2. PICK l \in Nat : l = queue[c].lease /\ l <= Len(leases)
  BY <1>1, OnFileTypes
<1>0. InPlay(l)' /\ ~Displaced(l)' /\ queue'[c].lease = l
  BY <1>1, <1>2 DEF InPlay, Active, Over, Accepted, Displaced
<1>3. InPlay(l) /\ Active(l) /\ leases'[l] = "active" /\ l \in Leases
  BY <1>0, <1>2, StaysInPlay
<1>4. /\ pump.rev \in Nat /\ pump'.rev \in Nat /\ server.policy.rev \in Nat /\ server'.policy.rev \in Nat
      /\ queue[c].rev \in Nat
  <2>1. queue[c].rev \in Nat
    BY <1>1, OnFileTypes
  <2>2. pump \in PumpFile /\ pump' \in PumpFile /\ server \in ServerState /\ server' \in ServerState
    BY DEF TypeOK
  <2>. QED
    BY <2>1, <2>2, AgentAssumption DEF PumpFile, ServerState
<1>5. CASE queue[c].status = "completed"
  <2>1. ~Displaced(l)
    <3>1. evidence.anew \subseteq evidence'.anew /\ evidence.dropped \subseteq evidence'.dropped
      <4>1. CASE Elsewhere
        BY <4>1, ElsewhereIs
      <4>2. CASE BeginHeartbeat \/ Reconcile \/ DiscardAt("reconcile")
        BY <4>2, BeginIs, ShowIs, ReconcileIs, DiscardFile DEF DiscardAt
      <4>3. ASSUME NEW lost \in BOOLEAN, SendHeartbeat(lost) PROVE evidence' = evidence
        BY <4>3 DEF SendHeartbeat
      <4>4. CASE Executes
        BY <4>4, ExecutesFile, ManifestIs, ShowIs, DiscardFile DEF DrainRechecked
      <4>. QED
        BY <4>1, <4>2, <4>3, <4>4, NextSteps
    <3>. QED
      BY <1>0, <3>1 DEF Displaced
  <2>2. pump.lease = l /\ Highest >= queue[c].rev
    BY <1>1, <1>2, <1>3, <1>5, <2>1 DEF SyncedIsWritten, InPlay
  <2>3. ~PrepareManifest
    <3>1. ASSUME PrepareManifest PROVE FALSE
      <4>1. cmd.lease \in Nat /\ cmd.lease <= Len(leases)
        BY <3>1, ManifestIs, OnFileTypes, InHand DEF cmd
      <4>2. l = Len(leases)
        BY <1>3 DEF Plane, Latest
      <4>3. cmd.lease = l \/ cmd.lease < l
        BY <1>2, <4>1, <4>2
      <4>. QED
        BY <1>0, <2>2, <3>1, <4>3, ManifestIs DEF Displaced
    <3>. QED
      BY <3>1
  <2>4. pump'.lease = pump.lease /\ pump'.rev >= pump.rev
    BY <1>0, <1>3, <2>2, <2>3, KeptStep DEF Displaced
  <2>5. Highest' >= Highest
    BY <2>3, <2>4, HighestGrows
  <2>6. Highest \in Nat /\ Highest' \in Nat
    BY <1>4 DEF Highest, Written
  <2>. QED
    BY <1>0, <1>1, <1>2, <1>4, <2>2, <2>4, <2>5, <2>6
<1>6. CASE queue[c].status # "completed"
  <2>1. /\ work.hand # {} /\ c = c0 /\ cmd.type = "sync-roster"
        /\ \/ SyncIdle /\ pump.lease = cmd.lease
           \/ Synced /\ ~pump.result
    BY <1>6, CompletedNow
  <2>2. cmd.lease = l /\ cmd.rev = queue[c].rev
    BY <1>1, <1>2, <2>1 DEF cmd
  <2>0. (SyncIdle => ~Synced) /\ (SyncIdle => pump.lease = cmd.lease) /\ queue'[c].lease = pump.lease
    <3>1. SyncIdle => ~Synced
      BY DEF SyncIdle, Synced, At
    <3>2. Synced => cmd.lease = pump.lease
      BY DEF Synced, At, SyncShape
    <3>. QED
      BY <1>0, <2>1, <2>2, <3>1, <3>2
  <2>3. CASE SyncIdle
    <3>1. pump' = pump
      BY <2>3 DEF SyncIdle
    <3>2. CASE Superseded
      <4>1. server' = server
        BY <2>3, <3>2 DEF SyncIdle
      <4>. QED
        BY <1>1, <1>4, <2>0, <2>2, <3>1, <3>2, <4>1 DEF Superseded, Highest, Written
    <3>3. CASE ~Superseded
      <4>1. cmd.rev = pump.rev
        BY <2>0, <2>3, <3>3 DEF SyncIdle
      <4>2. Highest' >= pump'.rev
        BY <1>4 DEF Highest, Written
      <4>. QED
        BY <1>1, <2>0, <2>2, <3>1, <4>1, <4>2
    <3>. QED
      BY <3>2, <3>3
  <2>4. CASE Synced
    <3>1. cmd.lease = pump.lease
      BY <2>4 DEF SyncShape, Synced, At
    <3>2. ~pump.result
      BY <2>1, <2>4 DEF SyncIdle, Synced, At
    <3>3. pump' = [pump EXCEPT !.rev = cmd.rev]
      BY <2>4, <3>2 DEF Synced
    <3>4. pump'.lease = pump.lease /\ pump'.rev = cmd.rev
      BY <3>3 DEF TypeOK, PumpFile
    <3>5. Highest' >= pump'.rev
      BY <1>4 DEF Highest, Written
    <3>. QED
      BY <1>1, <2>0, <2>2, <3>1, <3>4, <3>5
  <2>. QED
    BY <2>1, <2>3, <2>4
<1>. QED
  BY <1>5, <1>6

-----------------------------------------------------------------------------
(* The events that were accepted.                                          *)

\* The events of a match from one position of the log to another, numbered in
\* the order of their lines.
Number(l, b, k) == 1 + Cardinality(Base(l, b, k - 1))
Canon(l, from, to) == {[seq |-> Number(l, from, k), line |-> k] : k \in Base(l, from, to)}

\* The accepted events of a match are those of one piece of the log, and the
\* file continues them: its cursor lies in the piece, its number is the next.
CanonOf(l, b, m) ==
  /\ b <= m /\ got[l] = Canon(l, b, m)
  /\ pump.lease = l => /\ b <= pump.cursor /\ pump.cursor <= m
                       /\ pump.seq = 1 + Cardinality(Base(l, b, pump.cursor))
Canonical == \A l \in Leases \ evidence.anew : \E b, m \in 0..Len(log) : CanonOf(l, b, m)

\* The numbers are those from one on, in the order of the lines.
LEMMA NumberIs ==
  ASSUME NEW l, NEW b \in Nat, NEW m \in Nat, b <= m, NEW k \in Base(l, b, m)
  PROVE  /\ k \in Nat /\ b < k /\ k <= m /\ log[k].lease = l
         /\ Number(l, b, k) \in 1..Cardinality(Base(l, b, m))
         /\ \A j \in Base(l, b, m) : j < k => Number(l, b, j) < Number(l, b, k)
<1>1. \A j \in Base(l, b, m) : j \in Nat /\ b < j /\ j <= m /\ log[j].lease = l
  BY DEF Base
<1>2. ASSUME NEW j \in Base(l, b, m), NEW t \in Nat, j <= t, t <= m
      PROVE  Cardinality(Base(l, b, j - 1)) \in Nat /\ Cardinality(Base(l, b, j - 1)) < Cardinality(Base(l, b, t))
  <2>1. j - 1 \in Nat /\ b <= j - 1 /\ j - 1 <= t
    BY <1>1, <1>2
  <2>2. Cardinality(Base(l, b, t)) = Cardinality(Base(l, b, j - 1)) + Cardinality(Base(l, j - 1, t))
    BY <2>1, BaseSum
  <2>3. j \in Base(l, j - 1, t)
    BY <1>1, <1>2 DEF Base
  <2>4. IsFiniteSet(Base(l, j - 1, t)) /\ Cardinality(Base(l, j - 1, t)) \in Nat /\ Cardinality(Base(l, b, j - 1)) \in Nat
    BY <2>1, BaseFinite
  <2>5. Cardinality(Base(l, j - 1, t)) # 0
    BY <2>3, <2>4, FS_EmptySet
  <2>. QED
    BY <2>2, <2>4, <2>5
<1>3. Cardinality(Base(l, b, m)) \in Nat
  BY BaseFinite
<1>4. Number(l, b, k) \in 1..Cardinality(Base(l, b, m))
  <2>1. Cardinality(Base(l, b, k - 1)) \in Nat /\ Cardinality(Base(l, b, k - 1)) < Cardinality(Base(l, b, m))
    BY <1>1, <1>2
  <2>. QED
    BY <1>3, <2>1 DEF Number
<1>5. ASSUME NEW j \in Base(l, b, m), j < k PROVE Number(l, b, j) < Number(l, b, k)
  <2>1. k - 1 \in Nat /\ j <= k - 1 /\ k - 1 <= m
    BY <1>1, <1>5
  <2>2. Cardinality(Base(l, b, j - 1)) < Cardinality(Base(l, b, k - 1))
    BY <1>2, <2>1
  <2>3. Cardinality(Base(l, b, j - 1)) \in Nat /\ Cardinality(Base(l, b, k - 1)) \in Nat
    BY <2>1, <1>1, <1>2
  <2>. QED
    BY <2>2, <2>3 DEF Number
<1>. QED
  BY <1>1, <1>4, <1>5

\* Then the events are accepted in order, none skipped and none twice.
LEMMA CanonInOrder ==
  ASSUME NEW l, NEW b \in Nat, NEW m \in Nat, b <= m, got[l] = Canon(l, b, m)
  PROVE  InOrder(l)
<1> DEFINE M == Base(l, b, m)
           num(k) == Number(l, b, k)
           S == {num(k) : k \in M}
<1>1. \A k \in M : /\ k \in Nat /\ b < k /\ k <= m /\ log[k].lease = l
                   /\ num(k) \in 1..Cardinality(M)
                   /\ \A j \in M : j < k => num(j) < num(k)
  BY NumberIs
<1>2. IsFiniteSet(M) /\ Cardinality(M) \in Nat
  BY BaseFinite
<1>3. got[l] = {[seq |-> num(k), line |-> k] : k \in M}
  BY DEF Canon
<1>4. \A k \in Nat : b < k /\ k <= m /\ log[k].lease = l => k \in M
  BY DEF Base
<1> HIDE DEF M, num
<1>5. ASSUME NEW e \in got[l], NEW f \in got[l] PROVE (e.seq < f.seq) = (e.line < f.line)
  <2>1. PICK j \in M : e = [seq |-> num(j), line |-> j]
    BY <1>3
  <2>2. PICK k \in M : f = [seq |-> num(k), line |-> k]
    BY <1>3
  <2>3. num(j) \in Nat /\ num(k) \in Nat /\ j \in Nat /\ k \in Nat
    BY <1>1, <1>2
  <2>4. (j < k => num(j) < num(k)) /\ (k < j => num(k) < num(j))
    BY <1>1
  <2>5. (num(j) < num(k)) = (j < k)
    BY <2>3, <2>4
  <2>. QED
    BY <2>1, <2>2, <2>5
<1>6. IsFiniteSet(got[l]) /\ Cardinality(got[l]) = Cardinality(M)
  <2> DEFINE g == [k \in M |-> [seq |-> num(k), line |-> k]]
  <2>1. g \in Bijection(M, got[l])
    BY <1>3 DEF Bijection, Injection, IsInjective, Surjection
  <2>2. ExistsBijection(M, got[l])
    BY <2>1 DEF ExistsBijection
  <2>. QED
    BY <1>2, <2>2, FS_Bijection
<1>7. IsFiniteSet(S) /\ Cardinality(S) = Cardinality(M)
  <2> DEFINE g == [k \in M |-> num(k)]
  <2>1. \A j, k \in M : num(j) = num(k) => j = k
    <3> SUFFICES ASSUME NEW j \in M, NEW k \in M, num(j) = num(k) PROVE j = k
      OBVIOUS
    <3>1. num(j) \in Nat /\ num(k) \in Nat /\ j \in Nat /\ k \in Nat
      BY <1>1, <1>2
    <3>2. (j < k => num(j) < num(k)) /\ (k < j => num(k) < num(j))
      BY <1>1
    <3>. QED
      BY <3>1, <3>2
  <2>2. g \in Bijection(M, S)
    BY <2>1 DEF Bijection, Injection, IsInjective, Surjection
  <2>3. ExistsBijection(M, S)
    BY <2>2 DEF ExistsBijection
  <2>. QED
    BY <1>2, <2>3, FS_Bijection
<1>8. S = 1..Cardinality(M)
  <2>1. S \subseteq 1..Cardinality(M)
    BY <1>1
  <2>2. IsFiniteSet(1..Cardinality(M)) /\ Cardinality(1..Cardinality(M)) = Cardinality(M)
    BY <1>2, FS_Interval
  <2> HIDE DEF S
  <2>. QED
    BY <1>7, <2>1, <2>2, FS_Subset
<1>9. {e.seq : e \in got[l]} = 1..Cardinality(got[l])
  <2>1. {e.seq : e \in got[l]} = S
    <3>1. \A k \in M : \E e \in got[l] : e.seq = num(k)
      <4> SUFFICES ASSUME NEW k \in M PROVE \E e \in got[l] : e.seq = num(k)
        OBVIOUS
      <4>1. [seq |-> num(k), line |-> k] \in got[l] /\ [seq |-> num(k), line |-> k].seq = num(k)
        BY <1>3
      <4>. QED
        BY <4>1
    <3>2. \A e \in got[l] : \E k \in M : e.seq = num(k)
      BY <1>3
    <3>. QED
      BY <3>1, <3>2
  <2>. QED
    BY <1>6, <1>8, <2>1
<1>10. ASSUME NEW e \in got[l], NEW f \in got[l], NEW k \in e.line..f.line, log[k].lease = l
       PROVE  \E g \in got[l] : g.line = k
  <2>1. e.line \in M /\ f.line \in M
    BY <1>3
  <2>2. k \in M
    BY <1>1, <1>4, <1>10, <2>1
  <2>3. [seq |-> num(k), line |-> k] \in got[l] /\ [seq |-> num(k), line |-> k].line = k
    BY <1>3, <2>2
  <2>. QED
    BY <2>3
<1>. QED
  BY <1>5, <1>9, <1>10 DEF InOrder

\* What the log's growth leaves as it was.
LEMMA BaseStays ==
  ASSUME TypeOK, TypeOK', [Next]_vars, NEW l, NEW from \in Nat, NEW to \in Int, to <= Len(log)
  PROVE  Base(l, from, to)' = Base(l, from, to)
<1>1. Len(log) \in Nat /\ \A k \in 1..Len(log) : log'[k] = log[k]
  BY Types, StepKeeps
<1>2. \A k \in (from + 1)..to : k \in 1..Len(log)
  BY <1>1
<1>. QED
  BY <1>1, <1>2 DEF Base

\* The events of a piece of the log stay what they are as the log grows.
LEMMA CanonStays ==
  ASSUME TypeOK, TypeOK', [Next]_vars, NEW l, NEW b \in Nat, NEW m \in Nat, m <= Len(log)
  PROVE  Canon(l, b, m)' = Canon(l, b, m) /\ \A k \in Base(l, b, m) : Number(l, b, k)' = Number(l, b, k)
<1>1. Base(l, b, m)' = Base(l, b, m)
  BY BaseStays
<1>2. ASSUME NEW k \in Base(l, b, m) PROVE Number(l, b, k)' = Number(l, b, k)
  <2>1. k - 1 \in Int /\ k - 1 <= Len(log)
    BY Types DEF Base
  <2>2. Base(l, b, k - 1)' = Base(l, b, k - 1)
    BY <2>1, BaseStays
  <2>. QED
    BY <2>2 DEF Number
<1>. QED
  BY <1>1, <1>2 DEF Canon

\* What was shown, begun anew or dropped stays so, and what is shown is the receipt on
\* file.
LEMMA EvidenceGrows ==
  ASSUME TypeOK, [Next]_vars
  PROVE  /\ evidence.anew \subseteq evidence'.anew /\ evidence.dropped \subseteq evidence'.dropped
         /\ evidence.shown \subseteq evidence'.shown
         /\ \A l \in evidence'.shown \ evidence.shown : pump.lease = l /\ pump.receipt
<1>1. CASE Elsewhere
  BY <1>1, ElsewhereIs
<1>2. CASE BeginHeartbeat \/ Reconcile \/ DiscardManifest
  BY <1>2, BeginIs, ShowIs, ReconcileIs, DiscardFile
<1>3. ASSUME NEW lost \in BOOLEAN, SendHeartbeat(lost) PROVE evidence' = evidence
  BY <1>3 DEF SendHeartbeat
<1>4. CASE Executes /\ ~DiscardManifest
  BY <1>4, ExecutesFile, ManifestIs, ShowIs DEF DrainRechecked
<1>. QED
  BY <1>1, <1>2, <1>3, <1>4, NextSteps DEF DiscardAt

\* Nothing happens to the events of a match and to its file but that a batch is
\* carried, or that the file is begun.
LEMMA CarriedOrNot ==
  ASSUME TypeOK, TypeOK', Plane, [Next]_vars, NEW l \in Leases
  PROVE  \/ /\ got'[l] = got[l]
            /\ pump'.lease = l => pump.lease = l /\ pump'.cursor = pump.cursor /\ pump'.seq = pump.seq
         \/ PrepareManifest
         \/ pump.lease = l /\ \E n \in 1..(Len(log) - pump.cursor), lost \in BOOLEAN : Upload(n, lost)
<1>1. CASE Elsewhere /\ ~Flush
  <2>1. pump' = pump
    BY <1>1 DEF Elsewhere, Control, GrantLease, WakeServer, OperatorReturns, SynchronizeRoster, CancelMatch, SettleLater,
      CloseLease, ExpireLease, CommandDue, controlOnly, ServerUp, ServerDies, PluginWrites, AgentRestarts, pluginKeeps, vars
  <2>2. got' = got
    BY <1>1 DEF Elsewhere, Control, GrantLease, WakeServer, OperatorReturns, SynchronizeRoster, CancelMatch, SettleLater,
      CloseLease, ExpireLease, CommandDue, controlVars, ServerUp, ServerDies, PluginWrites, AgentRestarts, pluginKeeps, vars
  <2>. QED
    BY <2>1, <2>2
<1>2. ASSUME NEW settles \in BOOLEAN, NEW lost \in BOOLEAN, SubmitResult(settles, lost)
      PROVE  got' = got /\ pump'.lease = pump.lease /\ pump'.cursor = pump.cursor /\ pump'.seq = pump.seq
  BY <1>2, AfterSubmitIs DEF SubmitResult
<1>3. ASSUME NEW n \in 1..(Len(log) - pump.cursor), NEW lost \in BOOLEAN, Upload(n, lost), pump.lease # l
      PROVE  got'[l] = got[l] /\ pump'.lease = pump.lease
  <2>1. pump'.lease = pump.lease
    BY <1>3, AfterUploadIs DEF Upload
  <2>2. PICK A \in SUBSET Batch(n) : got' = got \/ got' = [got EXCEPT ![pump.lease] = @ \cup A]
    <3>1. Ingest(Batch(n))
      BY <1>3 DEF Upload
    <3>. QED
      BY <3>1, IngestIs
  <2>. QED
    BY <1>3, <2>1, <2>2 DEF TypeOK
<1>4. CASE BeginHeartbeat
  <2>1. got' = got /\ pump'.lease = pump.lease /\ pump'.cursor = pump.cursor /\ pump'.seq = pump.seq
    BY <1>4, BeginIs, ShowIs DEF controlVars
  <2>. QED
    BY <2>1
<1>5. ASSUME NEW lost \in BOOLEAN, SendHeartbeat(lost) PROVE pump' = pump /\ got' = got
  BY <1>5 DEF SendHeartbeat
<1>6. l # NoLease
  BY DEF Leases, NoLease
<1>7. CASE Reconcile
  BY <1>6, <1>7, ReconcileIs DEF NoPump, controlVars
<1>9. CASE DiscardManifest
  BY <1>6, <1>9, DiscardFile DEF NoPump
<1>8. CASE Executes /\ ~PrepareManifest /\ ~DiscardManifest
  <2>1. got' = got
    BY <1>8, ExecutesIs
  <2>2. CASE DrainRechecked
    BY <2>1, <2>2, ShowIs DEF DrainRechecked
  <2>3. CASE pump' = [pump EXCEPT !.rev = cmd.rev]
    BY <2>1, <2>3 DEF TypeOK, PumpFile
  <2>. QED
    BY <1>6, <1>8, <2>1, <2>2, <2>3, ExecutesFile DEF NoPump
<1>. QED
  BY <1>1, <1>2, <1>3, <1>4, <1>5, <1>7, <1>8, <1>9, NextSteps DEF Elsewhere, Flush, DiscardAt

\* A batch is the next piece of the log's events.
LEMMA BatchContinues ==
  ASSUME TypeOK, NEW b \in Nat, NEW m \in Nat, m <= Len(log), NEW n \in 1..(Len(log) - pump.cursor),
         CanonOf(pump.lease, b, m)
  PROVE  LET l == pump.lease
             c == pump.cursor
             t == IF m < c + n THEN c + n ELSE m
         IN /\ t \in 0..Len(log) /\ b <= t /\ b <= c /\ c + n <= t /\ c <= t
            /\ got[l] \cup Batch(n) = Canon(l, b, t)
            /\ pump.seq + Cardinality(Batch(n)) = 1 + Cardinality(Base(l, b, c + n))
<1> DEFINE l == pump.lease
           c == pump.cursor
           t == IF m < c + n THEN c + n ELSE m
<1>1. c \in Nat /\ Len(log) \in Nat /\ n \in Nat /\ n >= 1 /\ c + n <= Len(log) /\ c + n \in Nat
  BY Types DEF TypeOK, PumpFile
<1>2. b <= c /\ c <= m /\ got[l] = Canon(l, b, m) /\ pump.seq = 1 + Cardinality(Base(l, b, c))
  BY DEF CanonOf
<1>3. t \in 0..Len(log) /\ t \in Nat /\ b <= t /\ c + n <= t /\ c <= t
  BY <1>1, <1>2
<1>4. Batch(n) = {[seq |-> pump.seq + Cardinality(Base(l, c, k - 1)), line |-> k] : k \in Base(l, c, c + n)}
      /\ Cardinality(Batch(n)) = Cardinality(Base(l, c, c + n))
  BY BatchIs
<1>5. Base(l, b, t) = Base(l, b, m) \cup Base(l, c, c + n)
  BY <1>1, <1>2 DEF Base
<1> HIDE DEF l, c
<1>6. ASSUME NEW k \in Base(l, c, c + n)
      PROVE  pump.seq + Cardinality(Base(l, c, k - 1)) = Number(l, b, k)
  <2>1. k - 1 \in Nat /\ c <= k - 1
    BY <1>1, <1>6 DEF Base
  <2>2. Cardinality(Base(l, b, k - 1)) = Cardinality(Base(l, b, c)) + Cardinality(Base(l, c, k - 1))
    BY <1>1, <1>2, <2>1, BaseSum
  <2>3. Cardinality(Base(l, b, c)) \in Nat /\ Cardinality(Base(l, c, k - 1)) \in Nat
    BY <1>1, <2>1, BaseFinite
  <2>. QED
    BY <1>2, <2>2, <2>3 DEF Number
<1>7. Batch(n) = {[seq |-> Number(l, b, k), line |-> k] : k \in Base(l, c, c + n)}
  BY <1>4, <1>6
<1>8. got[l] \cup Batch(n) = Canon(l, b, t)
  <2> HIDE DEF t
  <2>. QED
    BY <1>2, <1>5, <1>7 DEF Canon
<1>9. pump.seq + Cardinality(Batch(n)) = 1 + Cardinality(Base(l, b, c + n))
  <2>1. Cardinality(Base(l, b, c + n)) = Cardinality(Base(l, b, c)) + Cardinality(Base(l, c, c + n))
    BY <1>1, <1>2, BaseSum
  <2>2. Cardinality(Base(l, b, c)) \in Nat /\ Cardinality(Base(l, c, c + n)) \in Nat
    BY <1>1, BaseFinite
  <2>. QED
    BY <1>2, <1>4, <2>1, <2>2
<1>. QED
  BY <1>2, <1>3, <1>8, <1>9 DEF l, c

\* So a batch contradicts nothing that was accepted: it is taken as a whole, and the
\* match is not disputed for it.
LEMMA BatchAgrees ==
  ASSUME TypeOK, NEW b \in Nat, NEW m \in Nat, m <= Len(log), NEW n \in 1..(Len(log) - pump.cursor),
         CanonOf(pump.lease, b, m), Ingest(Batch(n)), pump.lease \in Leases
  PROVE  results' = results /\ got'[pump.lease] = got[pump.lease] \cup Batch(n)
<1> DEFINE l == pump.lease
           r == IF m < pump.cursor + n THEN pump.cursor + n ELSE m
<1>0. r \in 0..Len(log) /\ b <= r /\ got[l] \cup Batch(n) = Canon(l, b, r)
  BY BatchContinues
<1> HIDE DEF r, l
<1>1. PICK t \in 0..Len(log) : b <= t /\ got[l] \cup Batch(n) = Canon(l, b, t)
  BY <1>0
<1> USE DEF l
<1>2. t \in Nat
  BY Types
<1>3. ASSUME NEW e \in Canon(l, b, t), NEW f \in Canon(l, b, t) PROVE (e.seq = f.seq) = (e.line = f.line)
  <2>1. PICK j \in Base(l, b, t) : e = [seq |-> Number(l, b, j), line |-> j]
    BY <1>3 DEF Canon
  <2>2. PICK k \in Base(l, b, t) : f = [seq |-> Number(l, b, k), line |-> k]
    BY <1>3 DEF Canon
  <2>3. /\ j \in Nat /\ k \in Nat /\ Number(l, b, j) \in Int /\ Number(l, b, k) \in Int
        /\ j < k => Number(l, b, j) < Number(l, b, k)
        /\ k < j => Number(l, b, k) < Number(l, b, j)
    BY <1>1, <1>2, NumberIs
  <2>. QED
    BY <2>1, <2>2, <2>3
<1>4. \A e \in Batch(n) : Agrees(e)
  BY <1>1, <1>3 DEF Agrees
<1>5. results' = results /\ (Batch(n) # {} => got' = [got EXCEPT ![l] = @ \cup Batch(n)])
  BY <1>4, IngestIs
<1>6. Batch(n) = {} => got' = got
  BY IngestIs
<1>. QED
  BY <1>5, <1>6 DEF TypeOK

\* Every step keeps the pieces: a batch that is repeated after a lost reply carries the
\* numbers of the first, and the piece grows to the farthest batch that arrived.
LEMMA CanonicalStays ==
  ASSUME TypeOK, TypeOK', Plane, Canonical, [Next]_vars
  PROVE  Canonical'
<1> SUFFICES ASSUME NEW l \in Leases, l \notin evidence'.anew
             PROVE  \E b, m \in 0..Len(log') : CanonOf(l, b, m)'
  BY DEF Canonical
<1>1. Len(log) \in Nat /\ Len(log') \in Nat /\ Len(log) <= Len(log')
  <2>1. log' \in Seq(LogLine)
    BY DEF TypeOK
  <2>. QED
    BY <2>1, Types, StepKeeps
<1>2. l \notin evidence.anew
  BY EvidenceGrows
<1>3. PICK b \in 0..Len(log), m \in 0..Len(log) : CanonOf(l, b, m)
  BY <1>2 DEF Canonical
<1>4. b \in Nat /\ m \in Nat /\ m <= Len(log) /\ b <= Len(log) /\ b \in 0..Len(log') /\ m \in 0..Len(log') /\ b <= m
  BY <1>1, <1>3 DEF CanonOf
<1>5. Canon(l, b, m)' = Canon(l, b, m)
  BY <1>4, CanonStays
<1>6. pump.cursor \in Nat /\ pump.cursor <= Len(log) /\ pump'.cursor \in Nat
  BY OnFileTypes DEF TypeOK, PumpFile
<1>7. CASE /\ got'[l] = got[l]
           /\ pump'.lease = l => pump.lease = l /\ pump'.cursor = pump.cursor /\ pump'.seq = pump.seq
  <2>1. Base(l, b, pump.cursor) = {k \in (b + 1)..pump.cursor : log[k].lease = l}
    BY DEF Base
  <2>2. PICK c \in Nat : c = pump.cursor /\ c <= Len(log)
    BY <1>6
  <2>3. Base(l, b, c)' = Base(l, b, c)
    BY <1>4, <2>2, BaseStays
  <2>4. pump'.cursor = c => Base(l, b, pump.cursor)' = Base(l, b, c)'
    BY DEF Base
  <2>. QED
    BY <1>3, <1>4, <1>5, <1>7, <2>2, <2>3, <2>4 DEF CanonOf
<1>8. CASE PrepareManifest
  <2>1. got' = got
    BY <1>8, ManifestIs DEF controlVars
  <2>2. CASE cmd.lease # l
    BY <1>3, <1>4, <1>5, <1>8, <2>1, <2>2, ManifestIs DEF CanonOf
  <2>3. CASE cmd.lease = l
    <3>1. got[l] = {} /\ pump'.cursor = Len(log) /\ pump'.seq = 1 /\ log' = log
      BY <1>8, <2>3, ManifestIs
    <3>2. PICK c \in Nat : c = Len(log)
      BY <1>1
    <3>3. Base(l, c, c)' = {}
      BY <3>2 DEF Base
    <3>4. Cardinality(Base(l, c, c)') = 0
      BY <3>3, FS_EmptySet
    <3>5. Canon(l, c, c)' = {}
      BY <3>3 DEF Canon
    <3>6. Base(l, c, pump.cursor)' = Base(l, c, c)'
      BY <3>1, <3>2 DEF Base
    <3>7. c \in 0..Len(log') /\ c <= c /\ c <= pump'.cursor /\ pump'.cursor <= c
      BY <1>1, <3>1, <3>2
    <3>8. CanonOf(l, c, c)'
      BY <2>1, <3>1, <3>4, <3>5, <3>6, <3>7 DEF CanonOf
    <3>. QED
      BY <3>7, <3>8
  <2>. QED
    BY <2>2, <2>3
<1>9. ASSUME pump.lease = l, NEW n \in 1..(Len(log) - pump.cursor), NEW lost \in BOOLEAN, Upload(n, lost)
      PROVE  \E d, m2 \in 0..Len(log') : CanonOf(l, d, m2)'
  <2> DEFINE t == IF m < pump.cursor + n THEN pump.cursor + n ELSE m
  <2>1. /\ t \in 0..Len(log) /\ b <= t /\ b <= pump.cursor /\ pump.cursor + n <= t /\ pump.cursor <= t
        /\ got[l] \cup Batch(n) = Canon(l, b, t)
        /\ pump.seq + Cardinality(Batch(n)) = 1 + Cardinality(Base(l, b, pump.cursor + n))
    BY <1>3, <1>4, <1>9, BatchContinues
  <2>2. PICK u \in 0..Len(log) : u = t
    BY <2>1
  <2> HIDE DEF t
  <2>3. log' = log
    BY <1>9 DEF Upload, pumpKeeps
  <2>4. got'[l] = got[l] \cup Batch(n)
    <3>1. Ingest(Batch(n))
      BY <1>9 DEF Upload
    <3>. QED
      BY <1>3, <1>4, <1>9, <3>1, BatchAgrees
  <2>5. Canon(l, b, u)' = Canon(l, b, u)
    BY <2>3 DEF Canon, Number, Base
  <2>6. \/ pump' = pump
        \/ pump'.cursor = pump.cursor + n /\ pump'.seq = pump.seq + Cardinality(Batch(n))
    BY <1>9, AfterUploadIs DEF Upload
  <2>7. b <= pump'.cursor /\ pump'.cursor <= u
    <3>1. CASE pump' = pump
      BY <2>1, <2>2, <3>1
    <3>2. CASE pump'.cursor = pump.cursor + n
      BY <1>4, <1>6, <2>1, <2>2, <3>2
    <3>. QED
      BY <2>6, <3>1, <3>2
  <2>8. pump'.seq = 1 + Cardinality(Base(l, b, pump.cursor)')
    <3>1. Base(l, b, pump.cursor)' = {k \in (b + 1)..pump'.cursor : log[k].lease = l}
      BY <2>3 DEF Base
    <3>2. CASE pump' = pump
      <4>1. Base(l, b, pump.cursor)' = Base(l, b, pump.cursor)
        BY <3>1, <3>2 DEF Base
      <4>. QED
        BY <1>3, <1>9, <3>2, <4>1 DEF CanonOf
    <3>3. CASE pump'.cursor = pump.cursor + n /\ pump'.seq = pump.seq + Cardinality(Batch(n))
      <4>1. Base(l, b, pump.cursor)' = Base(l, b, pump.cursor + n)
        BY <3>1, <3>3 DEF Base
      <4>. QED
        BY <2>1, <3>3, <4>1
    <3>. QED
      BY <2>6, <3>2, <3>3
  <2>9. CanonOf(l, b, u)'
    BY <2>1, <2>2, <2>4, <2>5, <2>7, <2>8 DEF CanonOf
  <2>10. u \in 0..Len(log') /\ b \in 0..Len(log')
    BY <1>4, <2>3
  <2>. QED
    BY <2>9, <2>10
<1>. QED
  BY <1>7, <1>8, <1>9, CarriedOrNot

\* Initially nothing was accepted.
LEMMA InitCanonical == Init => Canonical
<1> SUFFICES ASSUME Init, NEW l \in Leases PROVE \E b, m \in 0..Len(log) : CanonOf(l, b, m)
  BY DEF Canonical
<1>1. got[l] = {} /\ log = <<>> /\ pump.lease # l /\ Len(log) = 0 /\ 0 \in 0..Len(log)
  BY DEF Init, NoPump, NoLease, Leases
<1>2. Canon(l, 0, 0) = {}
  BY DEF Canon, Base
<1>3. CanonOf(l, 0, 0)
  BY <1>1, <1>2 DEF CanonOf
<1>. QED
  BY <1>1, <1>3

\* Only a match whose preparation was repeated is ever disputed.
Undisputed == \A l \in Leases : results[l] = "disputed" => l \in evidence.anew

\* The matches that are disputed are those whose batch contradicts an earlier one.
LEMMA UndisputedStays ==
  ASSUME TypeOK, TypeOK', Plane, Canonical, Undisputed, [Next]_vars
  PROVE  Undisputed'
<1> SUFFICES ASSUME NEW l \in Leases, results'[l] = "disputed" PROVE l \in evidence'.anew
  BY DEF Undisputed
<1>1. evidence.anew \subseteq evidence'.anew
  BY EvidenceGrows
<1>2. CASE results[l] = "disputed"
  BY <1>1, <1>2 DEF Undisputed
<1>3. CASE results[l] # "disputed"
  <2>1. ASSUME NEW n \in 1..(Len(log) - pump.cursor), NEW lost \in BOOLEAN, Upload(n, lost)
        PROVE  l \in evidence.anew
    <3>1. Ingest(Batch(n)) /\ pump.lease # NoLease
      BY <2>1 DEF Upload
    <3>2. pump.lease = l
      BY <1>3, <3>1, IngestIs DEF TypeOK
    <3>3. SUFFICES ASSUME l \notin evidence.anew PROVE FALSE
      OBVIOUS
    <3>4. PICK b \in 0..Len(log), m \in 0..Len(log) : CanonOf(l, b, m)
      BY <3>3 DEF Canonical
    <3>5. b \in Nat /\ m \in Nat /\ m <= Len(log)
      BY <3>4, Types
    <3>6. results' = results
      BY <2>1, <3>1, <3>2, <3>4, <3>5, BatchAgrees
    <3>. QED
      BY <1>3, <3>6
  <2>2. ASSUME NEW settles \in BOOLEAN, NEW lost \in BOOLEAN, SubmitResult(settles, lost) PROVE FALSE
    BY <1>3, <2>2 DEF SubmitResult, TypeOK
  <2>3. ASSUME NEW k \in Leases, SettleLater(k) PROVE FALSE
    BY <1>3, <2>3 DEF SettleLater, TypeOK
  <2>4. CASE Elsewhere /\ ~Flush /\ ~(\E k \in Leases : SettleLater(k))
    <3>1. results' = results
      BY <2>4 DEF Elsewhere, Control, GrantLease, WakeServer, OperatorReturns, SynchronizeRoster, CancelMatch,
        CloseLease, ExpireLease, CommandDue, controlVars, ServerUp, ServerDies, PluginWrites, AgentRestarts, pluginKeeps, vars
    <3>. QED
      BY <1>3, <3>1
  <2>5. CASE BeginHeartbeat \/ Reconcile \/ DiscardAt("reconcile")
    <3>1. results' = results
      BY <2>5, DiscardFile DEF BeginHeartbeat, Reconcile, controlVars, DiscardAt
    <3>. QED
      BY <1>3, <3>1
  <2>6. ASSUME NEW lost \in BOOLEAN, SendHeartbeat(lost) PROVE results' = results
    BY <2>6 DEF SendHeartbeat
  <2>7. CASE Executes
    BY <1>3, <2>7, ExecutesIs
  <2>. QED
    BY <1>1, <1>3, <2>1, <2>2, <2>3, <2>4, <2>5, <2>6, <2>7, NextSteps DEF Elsewhere, Flush
<1>. QED
  BY <1>2, <1>3

\* So the accepted events are in order.
LEMMA CanonicalOrder ==
  ASSUME TypeOK, Canonical, Undisputed
  PROVE  EventsInOrder
<1> SUFFICES ASSUME NEW l \in Leases \ evidence.anew PROVE InOrder(l)
  BY DEF EventsInOrder, Undisputed
<1>1. PICK b \in 0..Len(log), m \in 0..Len(log) : CanonOf(l, b, m)
  BY DEF Canonical
<1>2. b \in Nat /\ m \in Nat
  BY Types
<1>. QED
  BY <1>1, <1>2, CanonInOrder DEF CanonOf

-----------------------------------------------------------------------------
(* Leases that are handed back.                                            *)

\* A lease is handed back with a drain, for a match that is settled; or for one that
\* is cancelled, before it is over or with the file that says so.
LEMMA HandedBack ==
  ASSUME TypeOK, TypeOK', Plane, Canonical, [Next]_vars, NEW l \in Leases, Active(l), leases'[l] = "released"
  PROVE  /\ Elsewhere
         /\ \E b \in BOOLEAN : queue' = Append(queue, NewCommand("drain", l, 0, b))
         /\ \/ results'[l] = "settled"
            \/ /\ Cancelled(l)' \/ l \in evidence.anew
               /\ InPlay(l) \/ (pump.lease = l /\ ~pump.result)
<1>1. leases' # leases /\ leases[l] = "active" /\ l \in DOMAIN leases
  BY DEF Active
<1>2. Elsewhere
  BY <1>1, NextSteps, BeginIs, ReconcileIs, DiscardFile, ExecutesIs DEF SendHeartbeat, controlVars, DiscardAt
<1>3. ASSUME NEW k, NEW b \in BOOLEAN, Release(k, b)
      PROVE  k = l /\ queue' = Append(queue, NewCommand("drain", l, 0, b))
  <2>1. leases' = [leases EXCEPT ![k] = "released"] /\ queue' = Append(queue, NewCommand("drain", k, 0, b))
    BY <1>1, <1>3 DEF Release
  <2>. QED
    BY <1>1, <2>1, Types
<1>4. ASSUME NEW k \in Leases, CancelMatch(k)
      PROVE  Cancelled(l)' /\ InPlay(l) /\ \E b \in BOOLEAN : queue' = Append(queue, NewCommand("drain", l, 0, b))
  <2> DEFINE b == FALSE
             r == NewCommand("drain", l, 0, b)
  <2>1. Release(k, b) /\ b \in BOOLEAN /\ ~b
    BY <1>4 DEF CancelMatch
  <2> HIDE DEF b
  <2>0. InPlay(l)
    BY <1>3, <1>4, <2>1 DEF CancelMatch
  <2>2. queue' = Append(queue, r)
    BY <1>3, <2>1
  <2>3. r.type = "drain" /\ r.lease = l /\ r.terminal = b
    BY DEF NewCommand
  <2> HIDE DEF r
  <2>4. Len(queue) + 1 \in DOMAIN queue' /\ queue'[Len(queue) + 1] = r
    BY <2>2, Types
  <2>5. Cancelled(l)'
    BY <2>1, <2>3, <2>4 DEF Cancelled
  <2>. QED
    BY <2>0, <2>1, <2>2, <2>5 DEF r
<1>5. ASSUME NEW k \in Leases, SettleLater(k)
      PROVE  results'[l] = "settled" /\ \E b \in BOOLEAN : queue' = Append(queue, NewCommand("drain", l, 0, b))
  <2> DEFINE b == TRUE
  <2>1. Release(k, b) /\ b \in BOOLEAN /\ results' = [results EXCEPT ![k] = "settled"]
    BY <1>1, <1>5 DEF SettleLater
  <2> HIDE DEF b
  <2>2. k = l /\ queue' = Append(queue, NewCommand("drain", l, 0, b))
    BY <1>3, <2>1
  <2>3. results'[l] = "settled"
    BY <2>1, <2>2 DEF TypeOK
  <2>. QED
    BY <2>1, <2>2, <2>3
<1>6. ASSUME NEW n \in 1..(Len(log) - pump.cursor), NEW lost \in BOOLEAN, Upload(n, lost)
      PROVE  /\ Cancelled(l)' \/ l \in evidence.anew
             /\ pump.lease = l /\ ~pump.result
             /\ \E b \in BOOLEAN : queue' = Append(queue, NewCommand("drain", l, 0, b))
  <2>1. (\E e \in Batch(n) : log[e.line].kind = "aborted") /\ Release(pump.lease, TRUE)
    BY <1>1, <1>6 DEF Upload
  <2>2. pump.lease = l /\ queue' = Append(queue, NewCommand("drain", l, 0, TRUE))
    BY <1>3, <2>1
  <2>3. Ingest(Batch(n)) /\ log' = log /\ ~pump.result
    BY <1>6 DEF Upload, pumpKeeps
  <2>4. ASSUME l \notin evidence.anew PROVE Cancelled(l)'
    <3>1. PICK b \in 0..Len(log), m \in 0..Len(log) : CanonOf(l, b, m)
      BY <2>4 DEF Canonical
    <3>2. b \in Nat /\ m \in Nat /\ m <= Len(log)
      BY <3>1, Types
    <3>3. got'[l] = got[l] \cup Batch(n)
      BY <2>2, <2>3, <3>1, <3>2, BatchAgrees
    <3>4. Accepted(l, "aborted")'
      BY <2>1, <2>3, <3>3 DEF Accepted
    <3>. QED
      BY <3>4 DEF Cancelled
  <2>. QED
    BY <2>2, <2>3, <2>4
<1>7. ASSUME NEW settles \in BOOLEAN, NEW lost \in BOOLEAN, SubmitResult(settles, lost)
      PROVE  results'[l] = "settled" /\ \E b \in BOOLEAN : queue' = Append(queue, NewCommand("drain", l, 0, b))
  <2>1. results'[pump.lease] = "settled" /\ Release(pump.lease, TRUE)
    BY <1>1, <1>7 DEF SubmitResult
  <2>. QED
    BY <1>3, <2>1
<1>8. ASSUME NEW k \in Leases, CloseLease(k) \/ ExpireLease(k) PROVE FALSE
  <2>1. leases' = [leases EXCEPT ![k] = "closed"]
    BY <1>8 DEF CloseLease, ExpireLease
  <2>. QED
    BY <1>1, <2>1, Types
<1>9. CASE GrantLease
  <2>1. leases' = Append(leases, "active")
    BY <1>9 DEF GrantLease
  <2>2. leases \in Seq(LeaseStatus) /\ "active" \in LeaseStatus
    BY Types DEF LeaseStatus
  <2>3. Append(leases, "active")[l] = leases[l]
    BY <1>1, <2>2, AppendRow
  <2>. QED
    BY <1>1, <2>1, <2>3
<1>10. CASE Flush
  BY <1>2, <1>6, <1>7, <1>10 DEF Flush
<1>11. CASE Control
  <2>1. ~(WakeServer \/ OperatorReturns \/ \E k \in Leases : SynchronizeRoster(k)) /\ ~\E c \in DOMAIN queue : CommandDue(c)
    BY <1>1 DEF WakeServer, OperatorReturns, SynchronizeRoster, CommandDue
  <2>. QED
    BY <1>2, <1>4, <1>5, <1>8, <1>9, <1>11, <2>1 DEF Control
<1>12. ~(ServerUp \/ ServerDies \/ PluginWrites \/ AgentRestarts \/ UNCHANGED vars)
  BY <1>1 DEF ServerUp, ServerDies, PluginWrites, AgentRestarts, pluginKeeps, controlVars, vars
<1>. QED
  BY <1>2, <1>10, <1>11, <1>12 DEF Elsewhere

\* The result of a match is another only by its settlement, by the file's result, or
\* by a batch that contradicts what was accepted.
LEMMA ResultSteps ==
  ASSUME TypeOK, [Next]_vars, results' # results
  PROVE  /\ Elsewhere
         /\ \/ \E k \in Leases : SettleLater(k)
            \/ \E settles, lost \in BOOLEAN : SubmitResult(settles, lost)
            \/ results' = [results EXCEPT ![pump.lease] = "disputed"] /\ got[pump.lease] # {}
<1>1. Elsewhere
  BY NextSteps, BeginIs, ReconcileIs, DiscardFile, ExecutesIs DEF SendHeartbeat, controlVars, DiscardAt
<1>2. ASSUME NEW n \in 1..(Len(log) - pump.cursor), NEW lost \in BOOLEAN, Upload(n, lost)
      PROVE  results' = [results EXCEPT ![pump.lease] = "disputed"] /\ got[pump.lease] # {}
  BY <1>2, IngestIs DEF Upload
<1>3. CASE Flush
  BY <1>1, <1>2, <1>3 DEF Flush
<1>4. CASE ~Flush
  BY <1>1, <1>4 DEF Elsewhere, Control, GrantLease, WakeServer, OperatorReturns, SynchronizeRoster, CancelMatch, CloseLease,
    ExpireLease, CommandDue, ServerUp, ServerDies, PluginWrites, AgentRestarts, pluginKeeps, controlVars, vars
<1>. QED
  BY <1>3, <1>4

\* A result is settled only for a match that was not cancelled, or that is completed,
\* and then its lease is handed back.
LEMMA SettledNow ==
  ASSUME TypeOK, TypeOK', Plane, [Next]_vars, NEW l \in Leases, results'[l] = "settled", results[l] # "settled"
  PROVE  (~Cancelled(l) \/ results[l] = "completed") /\ ~Active(l)' /\ (results[l] # "none" \/ (pump.lease = l /\ pump.result))
<1>1. ASSUME NEW b, Release(l, b) PROVE ~Active(l)'
  <2>1. CASE Active(l)
    <3>1. leases' = [leases EXCEPT ![l] = "released"] /\ l \in DOMAIN leases
      BY <1>1, <2>1 DEF Release, Active
    <3>. QED
      BY <3>1, Types DEF Active
  <2>2. CASE ~Active(l)
    BY <1>1, <2>2 DEF Release, Active
  <2>. QED
    BY <2>1, <2>2
<1>2. ASSUME NEW k \in Leases, SettleLater(k) PROVE results[l] = "completed" /\ ~Active(l)'
  <2>1. k = l
    BY <1>2 DEF SettleLater, TypeOK
  <2>2. results[l] = "completed" /\ Release(l, TRUE)
    BY <1>2, <2>1 DEF SettleLater, TypeOK
  <2>. QED
    BY <1>1, <2>2
<1>3. ASSUME NEW settles \in BOOLEAN, NEW lost \in BOOLEAN, SubmitResult(settles, lost)
      PROVE  (~Cancelled(l) \/ results[l] = "completed") /\ ~Active(l)' /\ pump.lease = l /\ pump.result
  <2>1. pump.lease = l
    BY <1>3 DEF SubmitResult, TypeOK
  <2>2. results'[l] = IF settles THEN "settled" ELSE IF results[l] = "none" THEN "pending" ELSE results[l]
    BY <1>3, <2>1 DEF SubmitResult, TypeOK
  <2>3. settles
    BY <2>2
  <2>. QED
    BY <1>1, <1>3, <2>1, <2>3 DEF SubmitResult
<1>4. results' # results
  OBVIOUS
<1>5. (\E k \in Leases : SettleLater(k)) \/ \E settles, lost \in BOOLEAN : SubmitResult(settles, lost)
  BY <1>4, ResultSteps DEF TypeOK
<1>. QED
  BY <1>2, <1>3, <1>5

\* A result comes from the file.
LEMMA ReportedNow ==
  ASSUME TypeOK, TypeOK', Plane, [Next]_vars, NEW l \in Leases, results'[l] \notin {"none", "disputed"}, results[l] = "none"
  PROVE  Flush /\ pump.lease = l /\ pump.result
         /\ (pump' = pump \/ (results'[l] = "settled" /\ pump'.receipt /\ pump'.lease = l))
<1>1. results' # results
  OBVIOUS
<1>3. (\E k \in Leases : SettleLater(k)) \/ \E settles, lost \in BOOLEAN : SubmitResult(settles, lost)
  BY <1>1, ResultSteps DEF TypeOK
<1>4. ASSUME NEW k \in Leases, SettleLater(k) PROVE FALSE
  BY <1>4 DEF SettleLater, TypeOK
<1>5. PICK settles \in BOOLEAN, lost \in BOOLEAN : SubmitResult(settles, lost)
  BY <1>3, <1>4
<1>6. pump.lease = l /\ pump.result
  BY <1>5 DEF SubmitResult, TypeOK
<1>7. pump' = pump \/ pump' = AfterSubmit(l)
  BY <1>5, <1>6 DEF SubmitResult
<1>8. Flush
  BY <1>5 DEF Flush
<1>. QED
  BY <1>6, <1>7, <1>8, AfterSubmitIs

\* A match is completed only while it is not cancelled, and nothing else happens.
LEMMA MatchCompletedNow ==
  ASSUME TypeOK, [Next]_vars, NEW l \in Leases, results'[l] = "completed", results[l] # "completed"
  PROVE  results[l] = "pending" /\ ~Cancelled(l) /\ UNCHANGED <<leases, queue, pump, work>>
<1>1. PICK k \in Leases : SettleLater(k)
  <2>1. ASSUME NEW settles \in BOOLEAN, NEW lost \in BOOLEAN, SubmitResult(settles, lost) PROVE FALSE
    BY <2>1 DEF SubmitResult, TypeOK
  <2>. QED
    BY <2>1, ResultSteps DEF TypeOK
<1>2. results[k] = "pending" /\ ~Cancelled(k) /\ UNCHANGED <<leases, queue>> /\ k = l
  BY <1>1 DEF SettleLater, TypeOK
<1>. QED
  BY <1>1, <1>2 DEF SettleLater, controlOnly

\* A row that is added: it waits, and a drain is of a lease that is handed back.
LEMMA NewRow ==
  ASSUME TypeOK, TypeOK', Plane, [Next]_vars, NEW c \in DOMAIN queue', c \notin DOMAIN queue
  PROVE  /\ queue'[c].status = "pending" /\ ~queue'[c].resting
         /\ queue'[c].type = "drain" =>
              \E l \in Leases : queue'[c].lease = l /\ Active(l) /\ leases'[l] = "released" /\ ~Active(l)'
<1> DEFINE Adds == \E t, l, rev, b : /\ queue' = Append(queue, NewCommand(t, l, rev, b))
                                     /\ t = "drain" => l \in Leases /\ Active(l) /\ leases'[l] = "released" /\ ~Active(l)'
<1>1. ASSUME Adds
      PROVE  /\ queue'[c].status = "pending" /\ ~queue'[c].resting
             /\ queue'[c].type = "drain" =>
                  \E l \in Leases : queue'[c].lease = l /\ Active(l) /\ leases'[l] = "released" /\ ~Active(l)'
  <2>1. PICK t, l, rev, b : /\ queue' = Append(queue, NewCommand(t, l, rev, b))
                            /\ t = "drain" => l \in Leases /\ Active(l) /\ leases'[l] = "released" /\ ~Active(l)'
    BY <1>1
  <2> DEFINE r == NewCommand(t, l, rev, b)
  <2>2. r.type = t /\ r.lease = l /\ r.status = "pending" /\ ~r.resting
    BY DEF NewCommand
  <2>3. queue' = Append(queue, r)
    BY <2>1
  <2> HIDE DEF r
  <2>4. queue'[c] = r
    BY <2>3, Types
  <2>. QED
    BY <2>1, <2>2, <2>4
<1>2. SUFFICES Adds
  BY <1>1
<1>3. ASSUME NEW l, NEW b, Release(l, b) PROVE Adds
  <2>1. Active(l) /\ leases' = [leases EXCEPT ![l] = "released"] /\ queue' = Append(queue, NewCommand("drain", l, 0, b))
    BY <1>3 DEF Release
  <2>2. l \in Leases /\ leases'[l] = "released" /\ ~Active(l)'
    BY <2>1, Types DEF Active
  <2>. QED
    BY <2>1, <2>2
<1>4. queue' # queue /\ DOMAIN queue' # DOMAIN queue
  OBVIOUS
<1>5. ASSUME NEW t, NEW l, NEW rev, NEW b, t # "drain", queue' = Append(queue, NewCommand(t, l, rev, b)) PROVE Adds
  BY <1>5
<1>6. CASE Control
  <2>1. ASSUME NEW l \in Leases, CancelMatch(l) \/ SettleLater(l) PROVE Adds
    BY <1>3, <2>1 DEF CancelMatch, SettleLater
  <2>2. ~\E d \in DOMAIN queue : CommandDue(d)
    BY <1>4 DEF CommandDue
  <2>3. CASE GrantLease
    <3> DEFINE b == FALSE
    <3>1. queue' = Append(queue, NewCommand("prepare", Len(leases'), 0, b))
      BY <2>3 DEF GrantLease
    <3> HIDE DEF b, Adds
    <3>. QED
      BY <1>5, <3>1
  <2>4. CASE WakeServer \/ OperatorReturns
    <3> DEFINE b == FALSE
    <3>1. queue' = Append(queue, NewCommand("start", NoLease, 0, b)) \/ queue' = Append(queue, NewCommand("unquarantine", NoLease, 0, b))
      BY <2>4 DEF WakeServer, OperatorReturns
    <3> HIDE DEF b, Adds
    <3>. QED
      BY <1>5, <3>1
  <2>5. ASSUME NEW l \in Leases, SynchronizeRoster(l) PROVE Adds
    <3> DEFINE b == FALSE
    <3>1. PICK rev : queue' = Append(queue, NewCommand("sync-roster", l, rev, b))
      BY <2>5 DEF SynchronizeRoster
    <3> HIDE DEF b, Adds
    <3>. QED
      BY <1>5, <3>1
  <2>6. ASSUME NEW l \in Leases, CloseLease(l) \/ ExpireLease(l) PROVE Adds
    <3> DEFINE b == FALSE
    <3>1. queue' = Append(queue, NewCommand("quarantine", l, 0, b))
      BY <1>4, <2>6 DEF CloseLease, ExpireLease
    <3> HIDE DEF b, Adds
    <3>. QED
      BY <1>5, <3>1
  <2> HIDE DEF Adds
  <2>. QED
    BY <1>6, <2>1, <2>2, <2>3, <2>4, <2>5, <2>6 DEF Control
<1>7. CASE Flush
  <2>1. \E b \in BOOLEAN : Release(pump.lease, b)
    BY <1>4, <1>7 DEF Flush, Upload, SubmitResult
  <2> HIDE DEF Adds
  <2>. QED
    BY <1>3, <2>1
<1>8. ~(ServerUp \/ ServerDies \/ PluginWrites \/ AgentRestarts \/ UNCHANGED vars \/ BeginHeartbeat \/ Reconcile
        \/ DiscardAt("reconcile"))
  BY <1>4, BeginIs, ReconcileIs, LooksAtFile DEF ServerUp, ServerDies, PluginWrites, AgentRestarts, pluginKeeps, controlVars, vars
<1>9. ~\E lost \in BOOLEAN : SendHeartbeat(lost)
  BY <1>4 DEF SendHeartbeat
<1>10. ~Executes
  BY <1>4, ExecutesIs, AnsweredRows
<1>. QED
  BY <1>6, <1>7, <1>8, <1>9, <1>10, NextSteps DEF Elsewhere

\* What the control plane and the plugin do to a row that waits: nothing.
LEMMA WaitingStays ==
  ASSUME TypeOK, TypeOK', Plane, Elsewhere, NEW c \in DOMAIN queue
  PROVE  /\ queue[c].status = "pending" /\ ~queue[c].resting => queue'[c].status = "pending" /\ ~queue'[c].resting
         /\ Unfinished(c) => Unfinished(c)'
         /\ queue'[c].status # queue[c].status => queue'[c].status = "pending"
<1>1. queue[c] \in Command
  BY Types
<1>2. CASE queue'[c] = queue[c]
  BY <1>2 DEF Unfinished
<1>3. ASSUME NEW d \in DOMAIN queue, CommandDue(d)
      PROVE  \/ queue'[c] = queue[c]
             \/ queue'[c].status = "pending" /\ ~queue'[c].resting
  <2>1. queue' = [queue EXCEPT ![d].status = "pending", ![d].resting = FALSE] /\ queue[d] \in Command
    BY <1>3, Types DEF CommandDue
  <2>. QED
    BY <1>1, <2>1 DEF Command
<1>4. ASSUME NEW l, NEW b, Release(l, b) PROVE queue'[c] = queue[c]
  BY <1>4, Types DEF Release
<1>5. CASE ~\E d \in DOMAIN queue : CommandDue(d)
  <2>1. ASSUME NEW r, queue' = Append(queue, r) PROVE queue'[c] = queue[c]
    BY <2>1, Types
  <2>2. CASE Control
    <3>1. ASSUME NEW l \in Leases, SynchronizeRoster(l) \/ CloseLease(l) \/ ExpireLease(l)
          PROVE  queue'[c] = queue[c]
      <4>1. queue' = queue \/ \E r : queue' = Append(queue, r)
        BY <3>1 DEF SynchronizeRoster, CloseLease, ExpireLease
      <4>. QED
        BY <2>1, <4>1
    <3>2. CASE GrantLease \/ WakeServer \/ OperatorReturns
      <4>1. \E r : queue' = Append(queue, r)
        BY <3>2 DEF GrantLease, WakeServer, OperatorReturns
      <4>. QED
        BY <1>2, <2>1, <4>1
    <3>3. ASSUME NEW l \in Leases, CancelMatch(l) \/ SettleLater(l) PROVE queue'[c] = queue[c]
      BY <1>4, <3>3 DEF CancelMatch, SettleLater
    <3>. QED
      BY <1>2, <1>5, <2>2, <3>1, <3>2, <3>3 DEF Control
  <2>3. CASE Flush
    <3>1. (\E b \in BOOLEAN : Release(pump.lease, b)) \/ queue' = queue
      BY <2>3 DEF Flush, Upload, SubmitResult
    <3>. QED
      BY <1>2, <1>4, <3>1
  <2>4. CASE ServerUp \/ ServerDies \/ PluginWrites \/ AgentRestarts \/ UNCHANGED vars
    BY <1>2, <2>4 DEF ServerUp, ServerDies, PluginWrites, AgentRestarts, pluginKeeps, controlVars, vars
  <2>. QED
    BY <2>2, <2>3, <2>4 DEF Elsewhere
<1>. QED
  BY <1>2, <1>3, <1>5 DEF Unfinished

\* A drain is finished only by the heartbeat that stands at it.
LEMMA DrainFinishedNow ==
  ASSUME TypeOK, TypeOK', Plane, [Next]_vars, NEW c \in DOMAIN queue, queue[c].type = "drain",
         Unfinished(c), ~Unfinished(c)'
  PROVE  /\ Executes /\ work.pc \in {"drain", "await"} /\ cmd.type = "drain"
         /\ ~PrepareManifest /\ ~DrainRechecked
<1>1. ~Elsewhere
  BY WaitingStays
<1>2. ~BeginHeartbeat /\ ~Reconcile /\ ~DiscardAt("reconcile")
  BY BeginIs, LooksAtFile DEF controlVars, Unfinished
<1>3. ASSUME NEW lost \in BOOLEAN, SendHeartbeat(lost) PROVE FALSE
  <2>1. queue'[c] \in {queue[c], Claimed(queue[c])}
    BY <1>3 DEF SendHeartbeat
  <2>2. Claimed(queue[c]).status = "claimed"
    BY Types DEF Claimed, Command
  <2>. QED
    BY <2>1, <2>2 DEF Unfinished
<1>4. Executes
  BY <1>1, <1>2, <1>3, NextSteps
<1>5. queue' # queue
  BY DEF Unfinished
<1>6. PICK ok \in BOOLEAN, state \in {"ready", "offline"} : Answered(ok, state)
  BY <1>4, <1>5, ExecutesIs
<1>7. c = c0 /\ cmd.type = "drain"
  BY <1>4, <1>6, AnsweredRows, ExecutesIs DEF Unfinished, cmd
<1>8. ~(PrepareManifest \/ DrainRechecked \/ DrainDeferred \/ DrainAbandoned)
  BY <1>5 DEF PrepareManifest, DrainRechecked, DrainDeferred, DrainAbandoned, controlVars
<1>9. work.pc \in {"drain", "await"}
  BY <1>4, <1>7, <1>8 DEF Executes, Start, PrepareRefused, PrepareServer, Prepared, SyncIdle, SyncServer, Synced,
    DrainStopped, DrainTerminal, DrainAborts, DrainAborted, Quarantine, Unquarantine, CommandFails, WaitFails, At, DiscardAt, DiscardManifest
<1>. QED
  BY <1>4, <1>7, <1>8, <1>9

-----------------------------------------------------------------------------
(* Receipts.                                                               *)

\* A drain of a lease.
DrainOf(c, l) == c \in DOMAIN queue /\ queue[c].type = "drain" /\ queue[c].lease = l

\* A result is reported after its match's events, and a receipt is that of the
\* settled result of the match on file, and so is one that was shown.
Reported ==
  /\ \A l \in Leases : results[l] # "none" => got[l] # {}
  /\ pump.result \/ pump.receipt => pump.lease # NoLease
  /\ pump.result => got[pump.lease] # {}
  /\ pump.receipt => results[pump.lease] = "settled"
  /\ \A l \in Leases : l \in evidence.shown => results[l] = "settled"

\* A lease is given back when its result is settled.
SettledIsReleased == \A l \in Leases : results[l] = "settled" => ~Active(l)

\* The lease of a match that is completed waits for its settlement.
CompletedIsHeld ==
  \A l \in Leases : results[l] = "completed" /\ l \in DOMAIN leases /\ leases[l] = "released" => Displaced(l)

\* A lease that was given back has a drain, and a match that is over.
Released ==
  \A l \in DOMAIN leases :
    /\ leases[l] = "released" => /\ results[l] = "settled" \/ Cancelled(l) \/ Displaced(l)
                                 /\ \E c \in DOMAIN queue : DrainOf(c, l)
    /\ \A c \in DOMAIN queue : DrainOf(c, l) => leases[l] # "active"

\* What the API knows of the match on file, the file knows too or the players do.
OnFile ==
  pump.lease # NoLease /\ ~Displaced(pump.lease) /\ results[pump.lease] # "none"
    => pump.result \/ pump.receipt \/ pump.lease \in evidence.shown

\* A match whose players have not seen what it changed for them.
Owed(l) ==
  /\ l \in DOMAIN leases /\ leases[l] = "released" /\ results[l] = "settled"
  /\ ~Displaced(l) /\ l \notin evidence.shown

\* The drain of a match that is owed is not over, ...
Finished ==
  \A c \in DOMAIN queue :
    queue[c].type = "drain" /\ ~Unfinished(c) => ~(queue[c].lease = pump.lease /\ Owed(pump.lease))

\* ... and is not let through, ...
AtDrain == work.pc \in {"drain", "await"} /\ cmd.type = "drain" => ~Owed(pump.lease)

\* ... and a heartbeat that looked before the result came is handed the drain, by
\* which it knows that it must wait.
Window ==
  /\ work.pc = "send" /\ ~work.defer /\ Owed(pump.lease)
       => \E c \in DOMAIN queue : DrainOf(c, pump.lease) /\ queue[c].status = "pending" /\ ~queue[c].resting
  /\ work.pc = "reconcile" /\ ~work.alive /\ ~work.early /\ ~work.defer /\ Owed(pump.lease) => MatchingDrain

\* A reply that came before the end of the match says that it is in play, unless it was
\* cancelled: then it is not completed any more.
Timely == work.pc = "reconcile" /\ ~work.alive /\ ~work.early => ~Early

\* The invariant of the receipts.
Receipts ==
  Reported /\ SettledIsReleased /\ CompletedIsHeld /\ Released /\ OnFile /\ Finished /\ AtDrain /\ Timely /\ Window

\* It holds initially.
LEMMA InitReceipts == Init => Receipts
<1> SUFFICES ASSUME Init PROVE Receipts
  OBVIOUS
<1>1. /\ pump = NoPump /\ ~pump.result /\ ~pump.receipt /\ pump.lease = NoLease
      /\ \A l \in Leases : results[l] = "none"
      /\ DOMAIN leases = {} /\ DOMAIN queue = {} /\ work.pc = "idle" /\ evidence.shown = {}
  BY DEF Init, NoPump, Idle
<1>2. Reported /\ SettledIsReleased /\ CompletedIsHeld /\ Released /\ OnFile
  BY <1>1 DEF Reported, SettledIsReleased, CompletedIsHeld, Released, OnFile
<1>3. Finished /\ AtDrain /\ Timely /\ Window
  BY <1>1 DEF Finished, AtDrain, Timely, Window
<1>. QED
  BY <1>2, <1>3 DEF Receipts

\* A match that was cancelled stays cancelled.
LEMMA CancelledStays ==
  ASSUME TypeOK, TypeOK', [Next]_vars, NEW l \in Leases, Cancelled(l)
  PROVE  Cancelled(l)'
<1>1. CASE Accepted(l, "aborted")
  <2>1. PICK e \in got[l] : log[e.line].kind = "aborted"
    BY <1>1 DEF Accepted
  <2>2. e.line \in 1..Len(log)
    BY Types DEF TypeOK
  <2>3. e \in got'[l] /\ log'[e.line] = log[e.line]
    BY <2>2, StepKeeps
  <2>. QED
    BY <2>1, <2>3 DEF Cancelled, Accepted
<1>2. CASE \E c \in DOMAIN queue : queue[c].type = "drain" /\ queue[c].lease = l /\ ~queue[c].terminal
  BY <1>2, StepKeeps DEF Cancelled
<1>3. CASE results[l] = "disputed"
  BY <1>3, StepKeeps DEF Cancelled
<1>. QED
  BY <1>1, <1>2, <1>3 DEF Cancelled

\* The file's lease changes when a preparation begins the file or it is dropped.
LEMMA FileStep ==
  ASSUME TypeOK, Plane, [Next]_vars, pump'.lease # NoLease, ~PrepareManifest
  PROVE  /\ pump'.lease = pump.lease
         /\ ~pump.receipt /\ pump'.receipt => Elsewhere
         /\ pump'.result => pump.result \/ Elsewhere
         /\ pump.result => pump'.result \/ pump'.receipt
         /\ pump.receipt => pump'.receipt \/ pump.lease \in evidence'.shown
<1>1. CASE Elsewhere
  BY <1>1, ElsewhereIs
<1>2. CASE BeginHeartbeat
  BY <1>2, BeginIs, ShowIs
<1>3. CASE Reconcile \/ DiscardManifest
  BY <1>3, ReconcileIs, DiscardFile DEF NoPump
<1>4. ASSUME NEW lost \in BOOLEAN, SendHeartbeat(lost) PROVE pump' = pump
  BY <1>4 DEF SendHeartbeat
<1>5. CASE Executes /\ ~DiscardManifest
  <2>1. CASE DrainRechecked
    BY <2>1, ShowIs DEF DrainRechecked
  <2>2. CASE pump' = [pump EXCEPT !.rev = cmd.rev]
    <3>1. pump'.lease = pump.lease /\ pump'.result = pump.result /\ pump'.receipt = pump.receipt
      BY <2>2 DEF TypeOK, PumpFile
    <3>. QED
      BY <3>1
  <2>. QED
    BY <1>5, <2>1, <2>2, ExecutesFile DEF NoPump
<1>. QED
  BY <1>1, <1>2, <1>3, <1>4, <1>5, NextSteps DEF DiscardAt

\* Every step keeps Reported.
LEMMA ReportedStays ==
  ASSUME TypeOK, TypeOK', Plane, Reported, [Next]_vars
  PROVE  Reported'
<1>1. ASSUME NEW l \in Leases, results'[l] # "none" PROVE got'[l] # {}
  <2>1. CASE results[l] # "none"
    BY <2>1, StepKeeps DEF Reported
  <2>2. CASE results[l] = "none" /\ results'[l] # "disputed"
    BY <1>1, <2>2, ReportedNow, StepKeeps DEF Reported
  <2>3. CASE results[l] = "none" /\ results'[l] = "disputed"
    <3>1. got[l] # {}
      <4>1. ASSUME NEW k \in Leases, SettleLater(k) PROVE FALSE
        BY <2>3, <4>1 DEF SettleLater, TypeOK
      <4>2. ASSUME NEW settles \in BOOLEAN, NEW lost \in BOOLEAN, SubmitResult(settles, lost) PROVE FALSE
        BY <2>3, <4>2 DEF SubmitResult, TypeOK
      <4>. QED
        BY <2>3, <4>1, <4>2, ResultSteps DEF TypeOK
    <3>. QED
      BY <3>1, StepKeeps
  <2>. QED
    BY <2>1, <2>2, <2>3
<1>4. \A l \in Leases : l \in evidence'.shown => results'[l] = "settled"
  BY EvidenceGrows, StepKeeps DEF Reported
<1>2. CASE PrepareManifest
  <2>1. ~pump'.result /\ ~pump'.receipt
    BY <1>2, ManifestIs
  <2>. QED
    BY <1>1, <1>4, <2>1 DEF Reported
<1>3. CASE ~PrepareManifest
  <2>1. pump'.result \/ pump'.receipt => pump'.lease # NoLease
    <3>1. CASE Flush
      <4>1. pump.lease # NoLease
        BY <3>1 DEF Flush, Upload, SubmitResult
      <4>2. pump'.lease = pump.lease
        BY <3>1, ElsewhereIs DEF Elsewhere
      <4>. QED
        BY <4>1, <4>2
    <3>2. CASE Elsewhere /\ ~Flush
      <4>1. pump' = pump
        BY <3>2 DEF Elsewhere, Control, GrantLease, WakeServer, OperatorReturns, SynchronizeRoster, CancelMatch, SettleLater,
      CloseLease, ExpireLease, CommandDue, controlOnly, ServerUp, ServerDies, PluginWrites, AgentRestarts, pluginKeeps, vars
      <4>. QED
        BY <4>1 DEF Reported
    <3>3. CASE BeginHeartbeat
      BY <3>3, BeginIs, ShowIs DEF Reported
    <3>4. CASE Reconcile \/ DiscardManifest
      BY <3>4, ReconcileIs, DiscardFile DEF Reported, NoPump
    <3>5. ASSUME NEW lost \in BOOLEAN, SendHeartbeat(lost) PROVE pump' = pump
      BY <3>5 DEF SendHeartbeat
    <3>6. CASE Executes /\ ~DiscardManifest
      <4>1. CASE DrainRechecked
        BY <4>1, ShowIs DEF DrainRechecked, Reported
      <4>2. CASE pump' = [pump EXCEPT !.rev = cmd.rev]
        <5>1. pump'.lease = pump.lease /\ pump'.result = pump.result /\ pump'.receipt = pump.receipt
          BY <4>2 DEF TypeOK, PumpFile
        <5>. QED
          BY <5>1 DEF Reported
      <4>. QED
        BY <1>3, <3>6, <4>1, <4>2, ExecutesFile DEF NoPump, Reported
    <3>. QED
      BY <3>1, <3>2, <3>3, <3>4, <3>5, <3>6, NextSteps DEF Reported, Elsewhere, DiscardAt
  <2>2. pump'.lease # NoLease => pump'.lease = pump.lease /\ pump.lease \in Leases
    <3>1. pump'.lease # NoLease => pump'.lease = pump.lease
      BY <1>3, FileStep
    <3>. QED
      BY <3>1 DEF TypeOK, PumpFile, LeaseRef
  <2>3. pump'.result => got'[pump'.lease] # {}
    <3>1. CASE ~pump'.result
      BY <3>1
    <3>2. CASE pump'.result /\ pump.result
      BY <2>1, <2>2, <3>2, StepKeeps DEF Reported
    <3>3. CASE pump'.result /\ ~pump.result
      <4>1. Elsewhere
        BY <1>3, <2>1, <3>3, FileStep
      <4>. QED
        BY <2>1, <2>2, <3>3, <4>1, ElsewhereIs
    <3>. QED
      BY <3>1, <3>2, <3>3
  <2>4. pump'.receipt => results'[pump'.lease] = "settled"
    <3>1. CASE ~pump'.receipt
      BY <3>1
    <3>2. CASE pump'.receipt /\ pump.receipt
      BY <2>1, <2>2, <3>2, StepKeeps DEF Reported
    <3>3. CASE pump'.receipt /\ ~pump.receipt
      <4>1. Elsewhere
        BY <1>3, <2>1, <3>3, FileStep
      <4>. QED
        BY <2>1, <2>2, <3>3, <4>1, ElsewhereIs
    <3>. QED
      BY <3>1, <3>2, <3>3
  <2>. QED
    BY <1>1, <1>4, <2>1, <2>3, <2>4 DEF Reported
<1>. QED
  BY <1>2, <1>3

\* Every step keeps SettledIsReleased.
LEMMA SettledStays ==
  ASSUME TypeOK, TypeOK', Plane, SettledIsReleased, [Next]_vars
  PROVE  SettledIsReleased'
<1> SUFFICES ASSUME NEW l \in Leases, results'[l] = "settled", Active(l)' PROVE FALSE
  BY DEF SettledIsReleased
<1>1. results[l] = "settled"
  BY SettledNow
<1>2. ~Active(l)
  BY <1>1 DEF SettledIsReleased
<1>3. l \in Nat /\ l <= Len(leases) /\ Len(leases) \in Nat
  BY <1>1, Types DEF Plane, Known, Leases
<1>. QED
  BY <1>2, <1>3, StaysOver

\* Every step keeps Released.
LEMMA ReleasedStays ==
  ASSUME TypeOK, TypeOK', Plane, Canonical, Released, [Next]_vars
  PROVE  Released'
<1> SUFFICES ASSUME NEW l \in DOMAIN leases'
             PROVE  /\ leases'[l] = "released" => /\ results'[l] = "settled" \/ Cancelled(l)' \/ Displaced(l)'
                                                  /\ \E c \in DOMAIN queue' : DrainOf(c, l)'
                    /\ \A c \in DOMAIN queue' : DrainOf(c, l)' => leases'[l] # "active"
  BY DEF Released
<1>1. l \in Leases /\ l \in Nat /\ Len(leases) \in Nat
  <2>1. leases' \in Seq(LeaseStatus) /\ Len(leases') <= MaxLeases
    BY DEF TypeOK
  <2>. QED
    BY <2>1, Types, AgentAssumption DEF Leases
<1>2. \A c \in DOMAIN queue : DrainOf(c, l) => DrainOf(c, l)'
  BY StepKeeps DEF DrainOf
<1>3. CASE l \in DOMAIN leases
  <2>1. leases'[l] = "released" => results'[l] = "settled" \/ Cancelled(l)' \/ Displaced(l)'
    <3>1. CASE leases[l] = "released"
      BY <1>1, <1>3, <3>1, StepKeeps, CancelledStays, EvidenceGrows DEF Released, Displaced
    <3>2. CASE leases[l] # "released" /\ leases'[l] = "released"
      <4>1. Active(l)
        BY <1>3, <3>2, StepKeeps DEF Active
      <4>. QED
        BY <1>1, <3>2, <4>1, HandedBack, EvidenceGrows DEF Displaced
    <3>. QED
      BY <3>1, <3>2
  <2>2. leases'[l] = "released" => \E c \in DOMAIN queue' : DrainOf(c, l)'
    <3>1. CASE leases[l] = "released"
      BY <1>2, <1>3, <3>1, StepKeeps DEF Released
    <3>2. CASE leases[l] # "released" /\ leases'[l] = "released"
      <4>1. Active(l)
        BY <1>3, <3>2, StepKeeps DEF Active
      <4>2. PICK b \in BOOLEAN : queue' = Append(queue, NewCommand("drain", l, 0, b))
        BY <1>1, <3>2, <4>1, HandedBack
      <4> DEFINE r == NewCommand("drain", l, 0, b)
      <4>3. r.type = "drain" /\ r.lease = l /\ queue' = Append(queue, r)
        BY <4>2 DEF NewCommand
      <4> HIDE DEF r
      <4>4. Len(queue) + 1 \in DOMAIN queue' /\ queue'[Len(queue) + 1] = r
        BY <4>3, Types
      <4>. QED
        BY <4>3, <4>4 DEF DrainOf
    <3>. QED
      BY <3>1, <3>2
  <2>3. ASSUME NEW c \in DOMAIN queue', DrainOf(c, l)' PROVE leases'[l] # "active"
    <3>1. CASE c \in DOMAIN queue
      <4>1. DrainOf(c, l)
        BY <2>3, <3>1, StepKeeps DEF DrainOf
      <4>. QED
        BY <1>3, <3>1, <4>1, StepKeeps DEF Released
    <3>2. CASE c \notin DOMAIN queue
      BY <2>3, <3>2, NewRow DEF DrainOf
    <3>. QED
      BY <3>1, <3>2
  <2>. QED
    BY <2>1, <2>2, <2>3
<1>4. CASE l \notin DOMAIN leases
  <2>1. l > Len(leases)
    BY <1>1, <1>4, Types
  <2>2. leases'[l] # "released"
    <3>1. GrantLease
      <4>1. leases' # leases
        BY <1>4
      <4>2. DOMAIN leases' # DOMAIN leases
        BY <1>4
      <4>3. ASSUME NEW k, NEW b, Release(k, b) PROVE FALSE
        BY <4>2, <4>3 DEF Release
      <4>4. ~\E k \in Leases : CloseLease(k) \/ ExpireLease(k) \/ CancelMatch(k) \/ SettleLater(k)
        BY <4>2, <4>3 DEF CloseLease, ExpireLease, CancelMatch, SettleLater
      <4>5. ~Flush
        BY <4>1, <4>3 DEF Flush, Upload, SubmitResult
      <4>6. Elsewhere
        BY <4>1, NextSteps, BeginIs, ReconcileIs, DiscardFile, ExecutesIs DEF SendHeartbeat, controlVars, DiscardAt
      <4>. QED
        BY <4>1, <4>4, <4>5, <4>6 DEF Elsewhere, Control, WakeServer, OperatorReturns, SynchronizeRoster, CommandDue,
          ServerUp, ServerDies, PluginWrites, AgentRestarts, pluginKeeps, controlVars, vars
    <3>2. leases' = Append(leases, "active")
      BY <3>1 DEF GrantLease
    <3>. QED
      BY <1>4, <3>2, Types
  <2>3. ASSUME NEW c \in DOMAIN queue', DrainOf(c, l)' PROVE FALSE
    <3>1. CASE c \in DOMAIN queue
      <4>1. queue[c].lease = l
        BY <2>3, <3>1, StepKeeps DEF DrainOf
      <4>. QED
        BY <1>1, <2>1, <3>1, <4>1 DEF Plane, Known
    <3>2. CASE c \notin DOMAIN queue
      <4>1. Active(l)
        BY <2>3, <3>2, NewRow DEF DrainOf
      <4>. QED
        BY <1>4, <4>1 DEF Active
    <3>. QED
      BY <3>1, <3>2
  <2>. QED
    BY <2>2, <2>3
<1>. QED
  BY <1>3, <1>4

\* The file a preparation begins is of a match of which nothing is known yet.
LEMMA NothingOwed ==
  ASSUME TypeOK, TypeOK', Plane, Reported, PrepareManifest
  PROVE  pump'.lease \in Leases /\ (results'[pump'.lease] = "none" \/ Displaced(pump.lease)')
<1>1. pump'.lease = cmd.lease /\ results' = results
  BY ManifestIs DEF controlVars
<1>2. cmd.lease \in Leases
  BY ManifestIs, InHand DEF cmd, Command, Plane, Known
<1>3. CASE got[cmd.lease] = {}
  BY <1>1, <1>2, <1>3 DEF Reported
<1>4. CASE got[cmd.lease] # {}
  <2>1. cmd.lease \in evidence'.anew
    BY <1>4, ManifestIs
  <2>. QED
    BY <1>1, <1>2, <2>1 DEF Displaced
<1>. QED
  BY <1>1, <1>2, <1>3, <1>4

\* Every step keeps OnFile: a result on file becomes a receipt, a receipt is shown.
LEMMA OnFileStays ==
  ASSUME TypeOK, TypeOK', Plane, Undisputed', Reported, OnFile, [Next]_vars
  PROVE  OnFile'
<1> SUFFICES ASSUME pump'.lease # NoLease, ~Displaced(pump.lease)', results'[pump'.lease] # "none"
             PROVE  pump'.result \/ pump'.receipt \/ pump'.lease \in evidence'.shown
  BY DEF OnFile
<1>1. ~PrepareManifest
  BY NothingOwed
<1>2. pump'.lease = pump.lease /\ pump.lease \in Leases
  <2>1. pump'.lease = pump.lease
    BY <1>1, FileStep
  <2>. QED
    BY <2>1 DEF TypeOK, PumpFile, LeaseRef
<1>3. ~Displaced(pump.lease)
  BY <1>2, EvidenceGrows DEF Displaced
<1>4. CASE results[pump.lease] = "none"
  <2>1. results'[pump.lease] # "disputed"
    BY <1>2 DEF Undisputed, Displaced
  <2>. QED
    BY <1>2, <1>4, <2>1, ReportedNow
<1>5. CASE results[pump.lease] # "none"
  <2>1. pump.result \/ pump.receipt \/ pump.lease \in evidence.shown
    BY <1>2, <1>3, <1>5 DEF OnFile
  <2>. QED
    BY <1>1, <1>2, <2>1, FileStep, EvidenceGrows
<1>. QED
  BY <1>4, <1>5

\* A match becomes owed only when its lease is given back, with a drain.
LEMMA OwedStep ==
  ASSUME TypeOK, TypeOK', Plane, Canonical, CompletedIsHeld, Released, [Next]_vars, NEW l \in Leases, Owed(l)', l <= Len(leases)
  PROVE  Owed(l) \/ (Active(l) /\ Elsewhere /\ \E b \in BOOLEAN : queue' = Append(queue, NewCommand("drain", l, 0, b)))
<1>1. l \in DOMAIN leases /\ leases'[l] = "released" /\ results'[l] = "settled"
  BY Types DEF Owed, Leases
<1>2. ~Displaced(l) /\ l \notin evidence.shown
  BY EvidenceGrows DEF Owed, Displaced
<1>3. leases[l] \in {"released", "active"}
  BY <1>1, StepKeeps
<1>4. CASE leases[l] = "active"
  BY <1>1, <1>4, HandedBack DEF Active
<1>5. CASE leases[l] = "released"
  <2>1. (results[l] = "settled" \/ Cancelled(l)) /\ results[l] # "completed"
    BY <1>1, <1>2, <1>5 DEF Released, CompletedIsHeld
  <2>2. results[l] = "settled"
    BY <1>1, <2>1, SettledNow
  <2>. QED
    BY <1>1, <1>2, <1>5, <2>2 DEF Owed
<1>. QED
  BY <1>3, <1>4, <1>5

\* The same for the match on file.
LEMMA FileOwed ==
  ASSUME TypeOK, TypeOK', Plane, Canonical, Reported, CompletedIsHeld, Released, [Next]_vars, Owed(pump.lease)'
  PROVE  /\ ~PrepareManifest /\ pump'.lease = pump.lease /\ pump.lease \in Leases
         /\ \/ Owed(pump.lease)
            \/ Active(pump.lease) /\ Elsewhere
               /\ \E b \in BOOLEAN : queue' = Append(queue, NewCommand("drain", pump.lease, 0, b))
<1>1. pump'.lease \in Leases /\ results'[pump'.lease] = "settled" /\ ~Displaced(pump.lease)'
  <2>1. pump'.lease \in DOMAIN leases' /\ results'[pump'.lease] = "settled" /\ ~Displaced(pump.lease)'
    BY DEF Owed
  <2>2. DOMAIN leases' \subseteq Leases
    <3>1. leases' \in Seq(LeaseStatus) /\ Len(leases') <= MaxLeases
      BY DEF TypeOK
    <3>2. Len(leases') \in Nat /\ DOMAIN leases' = 1..Len(leases')
      BY <3>1, LenProperties
    <3>. QED
      BY <3>1, <3>2, AgentAssumption DEF Leases
  <2>. QED
    BY <2>1, <2>2
<1>2. ~PrepareManifest
  BY <1>1, NothingOwed
<1>3. pump'.lease # NoLease
  BY <1>1 DEF Leases, NoLease
<1>4. pump'.lease = pump.lease
  BY <1>2, <1>3, FileStep
<1>5. PICK l \in Leases : l = pump.lease
  BY <1>1, <1>4
<1>6. Owed(l)'
  BY <1>4, <1>5 DEF Owed, Displaced
<1>7. l <= Len(leases)
  BY <1>5, OnFileTypes
<1>. QED
  BY <1>2, <1>4, <1>5, <1>6, <1>7, OwedStep

\* Every step keeps Finished: a drain is finished only where AtDrain holds.
LEMMA FinishedStays ==
  ASSUME TypeOK, TypeOK', Plane, Canonical, Reported, CompletedIsHeld, Released, Finished, AtDrain, [Next]_vars
  PROVE  Finished'
<1> SUFFICES ASSUME NEW c \in DOMAIN queue', queue'[c].type = "drain", ~Unfinished(c)',
                    queue'[c].lease = pump'.lease, Owed(pump.lease)'
             PROVE  FALSE
  BY DEF Finished
<1>1. c \in DOMAIN queue /\ queue[c].type = "drain" /\ queue[c].lease = pump.lease
  BY NewRow, StepKeeps, FileOwed DEF Unfinished
<1>2. ~Active(pump.lease)
  BY <1>1, FileOwed DEF Released, DrainOf, Active
<1>3. Owed(pump.lease)
  BY <1>2, FileOwed
<1>4. Unfinished(c)
  BY <1>1, <1>3 DEF Finished
<1>. QED
  BY <1>1, <1>3, <1>4, DrainFinishedNow DEF AtDrain

\* When the file has been carried and shown, nothing is owed.
LEMMA ShownIsNotOwed ==
  ASSUME TypeOK, TypeOK', Plane, OnFile, ~pump.result \/ pump.lease = NoLease, ShowReceipt, UNCHANGED <<leases, results>>
  PROVE  ~Owed(pump.lease)'
<1>1. pump'.lease = pump.lease /\ evidence'.anew = evidence.anew /\ evidence'.dropped = evidence.dropped
      /\ (pump.receipt => pump.lease \in evidence'.shown) /\ evidence.shown \subseteq evidence'.shown
  BY ShowIs
<1> SUFFICES ASSUME Owed(pump.lease)' PROVE FALSE
  OBVIOUS
<1>2. results[pump.lease] = "settled" /\ ~Displaced(pump.lease) /\ pump.lease \notin evidence'.shown
      /\ pump.lease \in DOMAIN leases
  BY <1>1 DEF Owed, Displaced
<1>3. pump.lease # NoLease
  BY <1>2, Types DEF NoLease
<1>. QED
  BY <1>1, <1>2, <1>3 DEF OnFile

\* Every step keeps AtDrain: the drain looks at the file again before it goes on.
LEMMA AtDrainStays ==
  ASSUME TypeOK, TypeOK', Plane, Canonical, Reported, CompletedIsHeld, Released, OnFile, AtDrain, [Next]_vars
  PROVE  AtDrain'
<1> SUFFICES ASSUME work'.pc \in {"drain", "await"}, cmd'.type = "drain", Owed(pump.lease)' PROVE FALSE
  BY DEF AtDrain
<1>1. CASE Elsewhere
  <2>1. work' = work
    BY <1>1, ElsewhereIs DEF Idle
  <2>2. work.hand # {}
    BY <2>1 DEF Plane, HandShape
  <2>3. cmd.type = "drain"
    BY <2>1, <2>2, SameCommand
  <2>4. ~Active(pump.lease)
    BY <2>2, <2>3, NoLeaseWhileDraining, OnFileTypes
  <2>. QED
    BY <2>1, <2>3, <2>4, FileOwed DEF AtDrain
<1>2. CASE BeginHeartbeat \/ Reconcile \/ DiscardAt("reconcile")
  BY <1>2, BeginIs, ReconcileIs, DiscardFile DEF DiscardAt
<1>3. ASSUME NEW lost \in BOOLEAN, SendHeartbeat(lost) PROVE FALSE
  BY <1>3 DEF SendHeartbeat, Idle, TypeOK, Heartbeat
<1>4. CASE Executes
  <2>1. (DrainRechecked \/ PrepareServer \/ SyncServer \/ DrainAborts) /\ cmd' = cmd
    BY <1>4, ExecutesWork
  <2>2. CASE DrainRechecked
    <3>1. ShowReceipt /\ (~pump.result \/ pump.lease = NoLease) /\ UNCHANGED <<leases, results>>
      BY <2>2 DEF DrainRechecked, Flushed, controlVars
    <3>. QED
      BY <3>1, ShownIsNotOwed
  <2>3. CASE DrainAborts
    <3>1. work.pc = "drain" /\ cmd.type = "drain"
      BY <2>3 DEF DrainAborts, At
    <3>2. ~Active(pump.lease)
      BY <1>4, <3>1, NoLeaseWhileDraining, OnFileTypes, ExecutesIs
    <3>. QED
      BY <3>1, <3>2, FileOwed DEF AtDrain
  <2>4. ~PrepareServer /\ ~SyncServer
    BY <2>1 DEF PrepareServer, SyncServer, At
  <2>. QED
    BY <2>1, <2>2, <2>3, <2>4
<1>. QED
  BY <1>1, <1>2, <1>3, <1>4, NextSteps

\* Every step keeps Window: a heartbeat that has shown what was due owes nothing, and a
\* lease that is given back later is given back with a drain.
LEMMA WindowStays ==
  ASSUME TypeOK, TypeOK', Plane, Canonical, Gives, Reported, CompletedIsHeld, Released, OnFile,
         SettledIsReleased, Timely, Window, [Next]_vars
  PROVE  Window'
<1> DEFINE Waiting == \E c \in DOMAIN queue : DrainOf(c, pump.lease) /\ queue[c].status = "pending" /\ ~queue[c].resting
<1>1. ASSUME work'.pc = "send", ~work'.defer, Owed(pump.lease)' PROVE Waiting'
  <2>1. CASE Elsewhere
    <3>1. work' = work
      BY <1>1, <2>1, ElsewhereIs DEF Idle
    <3>2. CASE Owed(pump.lease)
      <4>1. PICK c \in DOMAIN queue : DrainOf(c, pump.lease) /\ queue[c].status = "pending" /\ ~queue[c].resting
        BY <1>1, <3>1, <3>2 DEF Window
      <4>2. queue'[c].status = "pending" /\ ~queue'[c].resting
        BY <2>1, <4>1, WaitingStays
      <4>3. c \in DOMAIN queue' /\ queue'[c].type = "drain" /\ queue'[c].lease = pump'.lease
        BY <1>1, <4>1, StepKeeps, FileOwed DEF DrainOf
      <4>. QED
        BY <4>2, <4>3 DEF DrainOf
    <3>3. CASE ~Owed(pump.lease)
      <4>1. PICK b \in BOOLEAN : queue' = Append(queue, NewCommand("drain", pump.lease, 0, b))
        BY <1>1, <3>3, FileOwed
      <4> DEFINE r == NewCommand("drain", pump.lease, 0, b)
      <4>2. r.type = "drain" /\ r.lease = pump.lease /\ r.status = "pending" /\ ~r.resting /\ queue' = Append(queue, r)
        BY <4>1 DEF NewCommand
      <4> HIDE DEF r
      <4>3. Len(queue) + 1 \in DOMAIN queue' /\ queue'[Len(queue) + 1] = r /\ pump'.lease = pump.lease
        BY <1>1, <4>2, Types, FileOwed
      <4>. QED
        BY <4>2, <4>3 DEF DrainOf
    <3>. QED
      BY <3>2, <3>3
  <2>2. CASE BeginHeartbeat
    <3>1. ShowReceipt /\ ~pump.result /\ UNCHANGED <<leases, results>>
      BY <1>1, <2>2, BeginIs DEF controlVars
    <3>. QED
      BY <1>1, <3>1, ShownIsNotOwed
  <2>3. CASE Reconcile \/ DiscardAt("reconcile") \/ Executes
    BY <1>1, <2>3, ReconcileIs, DiscardFile, ExecutesWork DEF DiscardAt
  <2>4. ASSUME NEW lost \in BOOLEAN, SendHeartbeat(lost) PROVE FALSE
    BY <1>1, <2>4 DEF SendHeartbeat, Idle, TypeOK, Heartbeat
  <2>. QED
    BY <2>1, <2>2, <2>3, <2>4, NextSteps
<1>2. ASSUME work'.pc = "reconcile", ~work'.alive, ~work'.early, ~work'.defer, Owed(pump.lease)'
      PROVE  MatchingDrain'
  <2>1. CASE Elsewhere
    <3>1. work' = work
      BY <1>2, <2>1, ElsewhereIs DEF Idle
    <3>2. ~Active(pump.lease)
      <4>1. PICK l \in Leases : l = pump.lease
        BY <1>2, FileOwed
      <4>2. SUFFICES ASSUME Active(l) PROVE FALSE
        BY <4>1
      <4>3. results[l] # "settled" /\ results[l] # "completed"
        BY <1>2, <3>1, <4>1, <4>2 DEF SettledIsReleased, Timely, Early
      <4>4. Cancelled(l)
        BY <1>2, <3>1, <4>1, <4>2, <4>3 DEF Gives, InPlay, Over, Cancelled
      <4>5. results'[l] = "settled"
        BY <1>2, <4>1, FileOwed DEF Owed
      <4>. QED
        BY <4>3, <4>4, <4>5, SettledNow
    <3>3. MatchingDrain
      BY <1>2, <3>1, <3>2, FileOwed DEF Window
    <3>4. PICK c \in work.hand : queue[c].type = "drain" /\ queue[c].lease = pump.lease
      BY <3>3 DEF MatchingDrain
    <3>5. c \in DOMAIN queue
      BY DEF TypeOK
    <3>. QED
      BY <1>2, <3>1, <3>4, <3>5, StepKeeps, FileOwed DEF MatchingDrain
  <2>2. CASE BeginHeartbeat \/ Reconcile \/ DiscardAt("reconcile") \/ Executes
    BY <1>2, <2>2, BeginIs, ReconcileIs, DiscardFile, ExecutesWork DEF DiscardAt
  <2>3. ASSUME NEW lost \in BOOLEAN, SendHeartbeat(lost) PROVE MatchingDrain'
    <3> DEFINE due == {c \in DOMAIN queue : queue[c].status = "pending" /\ ~queue[c].resting
                         /\ (work.defer => queue[c].type # "drain")}
    <3>1. work' = [work EXCEPT !.pc = "reconcile", !.hand = due, !.alive = Alive, !.early = Early] /\ pump' = pump
          /\ work.pc = "send" /\ UNCHANGED <<leases, results, evidence>>
      BY <1>2, <2>3 DEF SendHeartbeat, Idle, Early
    <3>2. work'.hand = due /\ ~work.defer
      BY <1>2, <3>1 DEF TypeOK, Heartbeat
    <3>3. Owed(pump.lease)
      BY <1>2, <3>1 DEF Owed, Displaced
    <3>4. PICK c \in DOMAIN queue : DrainOf(c, pump.lease) /\ queue[c].status = "pending" /\ ~queue[c].resting
      BY <3>1, <3>2, <3>3 DEF Window
    <3>5. c \in due /\ queue'[c].type = "drain" /\ queue'[c].lease = pump'.lease
      BY <3>1, <3>2, <3>4, StepKeeps DEF DrainOf
    <3>. QED
      BY <3>2, <3>5 DEF MatchingDrain
  <2>. QED
    BY <2>1, <2>2, <2>3, NextSteps
<1>. QED
  BY <1>1, <1>2 DEF Window

\* Every step keeps CompletedIsHeld: the file of a match that is completed has its result,
\* so no event can come to give the lease back.
LEMMA CompletedStays ==
  ASSUME TypeOK, TypeOK', Plane, Canonical, Reported, Released, OnFile, CompletedIsHeld, [Next]_vars
  PROVE  CompletedIsHeld'
<1> SUFFICES ASSUME NEW l \in Leases, results'[l] = "completed", l \in DOMAIN leases', leases'[l] = "released",
                    ~Displaced(l)'
             PROVE  FALSE
  BY DEF CompletedIsHeld
<1>1. ~Displaced(l)
  BY EvidenceGrows DEF Displaced
<1>2. CASE results[l] = "completed"
  <2>1. l \in DOMAIN leases
    <3>1. l \in Nat /\ l <= Len(leases) /\ Len(leases) \in Nat
      BY <1>2, Types DEF Plane, Known, Leases
    <3>. QED
      BY <3>1, Types DEF Leases
  <2>2. leases[l] = "active"
    BY <1>1, <1>2, <2>1, StepKeeps DEF CompletedIsHeld
  <2>3. ~InPlay(l) /\ Active(l)
    BY <1>2, <2>1, <2>2 DEF InPlay, Over, Active
  <2>4. pump.lease = l /\ ~pump.result
    BY <2>3, HandedBack
  <2>5. pump.receipt \/ l \in evidence.shown
    BY <1>1, <1>2, <2>4 DEF OnFile, Leases, NoLease
  <2>. QED
    BY <1>2, <2>4, <2>5 DEF Reported
<1>3. CASE results[l] # "completed"
  BY <1>1, <1>3, MatchCompletedNow DEF Released, Cancelled
<1>. QED
  BY <1>2, <1>3

\* Every step keeps Timely.
LEMMA TimelyStays ==
  ASSUME TypeOK, TypeOK', Plane, Gives, Timely, [Next]_vars
  PROVE  Timely'
<1> SUFFICES ASSUME work'.pc = "reconcile", ~work'.alive, ~work'.early, Early' PROVE FALSE
  BY DEF Timely
<1>1. CASE Elsewhere
  <2>1. work' = work /\ pump'.lease = pump.lease
    BY <1>1, ElsewhereIs DEF Idle
  <2>2. PICK l \in Leases : l = pump.lease
    <3>1. pump.lease \in Leases
      BY <2>1, OnFileTypes, StaysOver DEF Early, Active
    <3>. QED
      BY <3>1
  <2>3. results'[l] = "completed" /\ Active(l)'
    BY <2>1, <2>2 DEF Early, Active
  <2>4. Active(l)
    BY <2>2, <2>3, OnFileTypes, StaysOver
  <2>5. results[l] # "completed"
    BY <2>1, <2>2, <2>4 DEF Timely, Early
  <2>6. results[l] = "pending" /\ ~Cancelled(l)
    BY <2>3, <2>5, MatchCompletedNow
  <2>. QED
    BY <2>1, <2>2, <2>4, <2>6 DEF Gives, InPlay, Over, Cancelled
<1>2. CASE BeginHeartbeat \/ Reconcile \/ DiscardAt("reconcile") \/ Executes
  BY <1>2, BeginIs, ReconcileIs, DiscardFile, ExecutesWork DEF DiscardAt
<1>3. ASSUME NEW lost \in BOOLEAN, SendHeartbeat(lost) PROVE FALSE
  <2>1. UNCHANGED <<leases, pump, results>>
    BY <1>3 DEF SendHeartbeat
  <2>2. ~lost /\ work' = [work EXCEPT !.pc = "reconcile", !.hand = work'.hand, !.alive = Alive, !.early = Early]
    BY <1>3 DEF SendHeartbeat, Early, Idle, TypeOK, Heartbeat
  <2>3. Early => work'.early
    BY <2>2 DEF TypeOK, Heartbeat
  <2>. QED
    BY <2>1, <2>3 DEF Early, Active
<1>. QED
  BY <1>1, <1>2, <1>3, NextSteps

\* Every step keeps them all.
LEMMA ReceiptsStay ==
  ASSUME TypeOK, TypeOK', Plane, Gives, Canonical, Undisputed', Receipts, [Next]_vars
  PROVE  Receipts'
<1>1. /\ Reported /\ SettledIsReleased /\ CompletedIsHeld /\ Released /\ OnFile
      /\ Finished /\ AtDrain /\ Timely /\ Window
  BY DEF Receipts
<1>2. Reported' /\ SettledIsReleased' /\ CompletedIsHeld' /\ Released' /\ OnFile'
  BY <1>1, ReportedStays, SettledStays, CompletedStays, ReleasedStays, OnFileStays
<1>3. Finished' /\ AtDrain' /\ Timely' /\ Window'
  BY <1>1, FinishedStays, AtDrainStays, TimelyStays, WindowStays
<1>. QED
  BY <1>2, <1>3 DEF Receipts

\* A receipt leaves the file only by being shown, unless the file was displaced,
\* the lease was closed, or the reply came before the lease was given back.
LEMMA ReceiptStep ==
  ASSUME TypeOK, TypeOK', Plane, Gives, Receipts, [Next]_vars, pump.receipt,
         ~(pump'.lease = pump.lease /\ pump'.receipt)
  PROVE  pump.lease \in evidence'.shown \/ pump.lease \in evidence'.anew \cup evidence'.dropped
         \/ leases[pump.lease] = "closed" \/ (work.pc = "reconcile" /\ work.early)
<1>1. Reported /\ SettledIsReleased /\ Released /\ Finished /\ AtDrain /\ Window
  BY DEF Receipts
<1> SUFFICES ASSUME pump.lease \notin evidence'.shown, pump.lease \notin evidence'.anew \cup evidence'.dropped,
                    leases[pump.lease] # "closed", ~(work.pc = "reconcile" /\ work.early)
             PROVE  FALSE
  OBVIOUS
<1>2. pump.lease # NoLease /\ results[pump.lease] = "settled"
  BY <1>1 DEF Reported
<1>3. pump.lease \in DOMAIN leases /\ pump.lease \in Leases
  <2>1. pump.lease \in Leases /\ pump.lease <= Len(leases)
    BY <1>2 DEF TypeOK, PumpFile, LeaseRef, Plane, Known
  <2>. QED
    BY <2>1, Types DEF Leases
<1>4. leases[pump.lease] = "released"
  <2>1. ~Active(pump.lease)
    BY <1>1, <1>2, <1>3 DEF SettledIsReleased
  <2>. QED
    BY <1>3, <2>1, Types DEF Active, LeaseStatus
<1>5. Owed(pump.lease)
  BY <1>2, <1>3, <1>4, EvidenceGrows DEF Owed, Displaced
<1>6. CASE Elsewhere
  BY <1>6, ElsewhereIs
<1>7. CASE BeginHeartbeat
  BY <1>7, BeginIs, ShowIs
<1>8. ASSUME NEW lost \in BOOLEAN, SendHeartbeat(lost) PROVE pump' = pump
  BY <1>8 DEF SendHeartbeat
<1>9. CASE Reconcile
  <2>1. work.pc = "reconcile" /\ ~work.alive /\ ~ReconcileWaits
    BY <1>9, ReconcileIs
  <2>. QED
    BY <1>1, <1>5, <2>1 DEF Window, ReconcileWaits
<1>10. CASE PrepareManifest
  <2>1. cmd.lease \in Nat /\ cmd.lease <= Len(leases) /\ pump.lease \in Nat
    BY <1>10, ManifestIs, InHand, OnFileTypes DEF cmd
  <2>2. cmd.lease > pump.lease
    BY <1>10, <2>1, ManifestIs
  <2>3. PICK c \in DOMAIN queue : DrainOf(c, pump.lease)
    BY <1>1, <1>3, <1>4 DEF Released
  <2>4. ~Unfinished(c)
    <3>1. ASSUME Unfinished(c) PROVE FALSE
      <4>1. pump.lease = Len(leases)
        BY <2>3, <3>1 DEF Plane, Clears, Clearing, DrainOf
      <4>. QED
        BY <2>1, <2>2, <4>1
    <3>. QED
      BY <3>1
  <2>. QED
    BY <1>1, <1>5, <2>3, <2>4 DEF Finished, DrainOf
<1>12. CASE DiscardManifest
  BY <1>12, DiscardFile
<1>11. CASE Executes /\ ~PrepareManifest /\ ~DiscardManifest
  <2>1. CASE DrainRechecked
    BY <2>1, ShowIs DEF DrainRechecked
  <2>2. CASE pump' = [pump EXCEPT !.rev = cmd.rev]
    BY <2>2 DEF TypeOK, PumpFile
  <2>3. CASE work.pc \in {"drain", "await"} /\ cmd.type = "drain"
    BY <1>1, <1>5, <2>3 DEF AtDrain
  <2>. QED
    BY <1>11, <2>1, <2>2, <2>3, ExecutesFile
<1>. QED
  BY <1>6, <1>7, <1>8, <1>9, <1>10, <1>11, <1>12, NextSteps DEF DiscardAt

-----------------------------------------------------------------------------
(* The theorems.                                                           *)

\* The inductive invariant: the types, the leases and the commands, what stays on file,
\* the order of the events, and the receipts.
AgentIInv == TypeOK /\ Plane /\ Gives /\ SyncShape /\ SyncedIsWritten /\ Canonical /\ Undisputed /\ Receipts

\* It holds initially, ...
LEMMA InitIInv == Init => AgentIInv
<1> SUFFICES ASSUME Init PROVE AgentIInv
  OBVIOUS
<1>1. work.pc = "idle" /\ DOMAIN queue = {}
  BY DEF Init, Idle
<1>2. Gives /\ SyncShape /\ SyncedIsWritten /\ Undisputed
  BY <1>1 DEF Gives, SyncShape, SyncedIsWritten, Undisputed, Init
<1>. QED
  BY <1>2, InitTypes, InitPlane, InitCanonical, InitReceipts DEF AgentIInv

\* ... and every step keeps it.
LEMMA NextIInv == AgentIInv /\ [Next]_vars => AgentIInv'
<1> SUFFICES ASSUME AgentIInv, [Next]_vars PROVE AgentIInv'
  OBVIOUS
<1>1. TypeOK /\ Plane /\ Gives /\ SyncShape /\ SyncedIsWritten /\ Canonical /\ Undisputed /\ Receipts
  BY DEF AgentIInv
<1>2. TypeOK'
  BY <1>1, NextTypes
<1>3. Plane'
  BY <1>1, NextPlane
<1>4. Gives' /\ SyncShape' /\ SyncedIsWritten'
  BY <1>1, <1>2, GivesStays, SyncShapeStays, SyncedStays
<1>5. Canonical' /\ Undisputed'
  BY <1>1, <1>2, CanonicalStays, UndisputedStays
<1>6. Receipts'
  BY <1>1, <1>2, <1>5, ReceiptsStay
<1>. QED
  BY <1>2, <1>3, <1>4, <1>5, <1>6 DEF AgentIInv

\* The inductive invariant holds in every reachable state.
THEOREM AgentInvariant == Spec => []AgentIInv
BY InitIInv, NextIInv, PTL DEF Spec

\* Events are accepted in the order the plugin wrote them, none twice, none skipped and
\* none under the number of another, and no match is disputed for them, whatever is lost
\* (event-pump.ts).
THEOREM EventsAccepted == Spec => []EventsInOrder
<1>1. AgentIInv => EventsInOrder
  BY CanonicalOrder DEF AgentIInv
<1>. QED
  BY <1>1, AgentInvariant, PTL

\* A roster that was reported synchronized is on file or written while its match is in
\* play, unless the file was displaced (agent.ts, syncRoster).
THEOREM RosterWritten == Spec => []SyncedIsWritten
<1>1. AgentIInv => SyncedIsWritten
  BY DEF AgentIInv
<1>. QED
  BY <1>1, AgentInvariant, PTL

\* While its lease is active and it is pending or live, a match stays on file and moves
\* on: neither a drain of an earlier match nor a restart nor a lost heartbeat drops it
\* (agent.ts, reconcilePersistedAuthority).  What does is the preparation of an earlier
\* lease or the discard of an expired manifest.
THEOREM MatchStaysOnFile == Spec => ActiveMatchKept
<1> DEFINE Keeps == \A l \in Leases : pump.lease = l /\ InPlay(l) /\ InPlay(l)'
       => \/ /\ pump'.lease = l /\ pump'.cursor >= pump.cursor
             /\ pump'.rev >= pump.rev \/ l \in evidence'.anew
          \/ pump'.lease \in 1..(l - 1)
          \/ pump'.lease = NoLease /\ l \in evidence'.dropped
<1>1. AgentIInv /\ [Next]_vars => Keeps
  BY NextIInv, KeptStep DEF AgentIInv
<1>2. AgentIInv /\ [Next]_vars => [Keeps]_vars
  BY <1>1
<1>. QED
  BY <1>2, AgentInvariant, PTL DEF Spec, ActiveMatchKept

\* A result leaves the file only when the API has settled it or its lease or its match is
\* over, unless the file was displaced (event-pump.ts, submitResult).
THEOREM ResultStaysOnFile == Spec => ResultKept
<1> DEFINE Keeps == \A l \in Leases : pump.lease = l /\ pump.result /\ ~(pump'.lease = l /\ pump'.result)
       => ~InPlay(l)' \/ Displaced(l)'
<1>1. AgentIInv /\ [Next]_vars => Keeps
  BY NextIInv, ResultStep DEF AgentIInv
<1>2. AgentIInv /\ [Next]_vars => [Keeps]_vars
  BY <1>1
<1>. QED
  BY <1>2, AgentInvariant, PTL DEF Spec, ResultKept

\* A receipt leaves the file only by being shown, unless the file was displaced, the lease
\* was closed, or the last reply came between the completion of the match and the release of
\* its lease: a drain that was claimed before the receipt came does not clear it (agent.ts,
\* execute).
THEOREM ReceiptIsShown == Spec => ReceiptShown
<1> DEFINE Shows == \A l \in Leases : pump.lease = l /\ pump.receipt /\ ~(pump'.lease = l /\ pump'.receipt)
       => \/ l \in evidence'.shown \/ Displaced(l)' \/ leases[l] = "closed"
          \/ work.pc = "reconcile" /\ work.early
<1>1. AgentIInv /\ [Next]_vars => Shows
  BY NextIInv, ReceiptStep DEF AgentIInv, Displaced
<1>2. AgentIInv /\ [Next]_vars => [Shows]_vars
  BY <1>1
<1>. QED
  BY <1>2, AgentInvariant, PTL DEF Spec, ReceiptShown

=============================================================================
