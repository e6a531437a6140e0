-------------------------- MODULE NodeControlProofs --------------------------
(***************************************************************************)
(* IInv is an inductive invariant of NodeControl, and NodeControl is a     *)
(* lease service for matches and for instances, for every set of instances *)
(* and matches and every bound.                                            *)
(***************************************************************************)
EXTENDS NodeControl, SequenceTheorems, TLAPS

\* A row appended to a table of rows, and a row replaced in it.
LEMMA AppendRow ==
  ASSUME NEW S, NEW s \in Seq(S), NEW e \in S
  PROVE  /\ Append(s, e) \in Seq(S)
         /\ Len(Append(s, e)) = Len(s) + 1
         /\ DOMAIN Append(s, e) = DOMAIN s \cup {Len(s) + 1}
         /\ Append(s, e)[Len(s) + 1] = e
         /\ \A k \in DOMAIN s : k # Len(s) + 1 /\ Append(s, e)[k] = s[k]
OBVIOUS

LEMMA MapRows ==
  ASSUME NEW S, NEW s \in Seq(S), NEW f, f = [k \in DOMAIN s |-> f[k]],
         \A k \in DOMAIN s : f[k] \in S
  PROVE  f \in Seq(S) /\ Len(f) = Len(s) /\ DOMAIN f = DOMAIN s
<1>1. DOMAIN s = 1..Len(s) /\ Len(s) \in Nat
  OBVIOUS
<1>2. f \in [1..Len(s) -> S]
  BY <1>1
<1>. QED
  BY <1>1, <1>2

\* What the type invariant says of the rows.
LEMMA RowTypes ==
  ASSUME IInv
  PROVE  /\ lease \in Seq(Lease) /\ Len(lease) \in Nat /\ Len(lease) <= MaxLeases
         /\ DOMAIN lease = 1..Len(lease)
         /\ \A l \in DOMAIN lease : lease[l] \in Lease
         /\ \A l \in DOMAIN lease : lease[l].inst \in Instance /\ lease[l].match \in Match
         /\ command \in Seq(Command) /\ Len(command) \in Nat /\ Len(command) <= MaxCommands
         /\ DOMAIN command = 1..Len(command)
         /\ \A c \in DOMAIN command : command[c] \in Command
         /\ \A c \in DOMAIN command : command[c].inst \in Instance
         /\ inst \in [Instance -> [state : InstanceState, lease : LeaseRef]]
<1>1. /\ lease \in Seq(Lease) /\ command \in Seq(Command)
      /\ Len(lease) <= MaxLeases /\ Len(command) <= MaxCommands
      /\ inst \in [Instance -> [state : InstanceState, lease : LeaseRef]]
  BY DEF IInv, TypeOK
<1>2. /\ \A l \in DOMAIN lease : lease[l] \in Lease
      /\ \A c \in DOMAIN command : command[c] \in Command
      /\ DOMAIN lease = 1..Len(lease) /\ DOMAIN command = 1..Len(command)
      /\ Len(lease) \in Nat /\ Len(command) \in Nat
  BY <1>1
<1>3. /\ \A l \in DOMAIN lease : lease[l].inst \in Instance /\ lease[l].match \in Match
      /\ \A c \in DOMAIN command : command[c].inst \in Instance
  BY <1>2 DEF Lease, Command
<1>. QED
  BY <1>1, <1>2, <1>3

LEMMA InitIInv == Init => IInv
<1> SUFFICES ASSUME Init PROVE IInv
  OBVIOUS
<1>1. TypeOK
  BY ControlAssumption DEF Init, TypeOK, Reported, InstanceState, LeaseRef, NoLease, controlVars
<1>2. OneLease /\ PointerShape /\ LeaseShape /\ CommandShape /\ MessageShape
  BY DEF Init, OneLease, PointerShape, LeaseShape, CommandShape, MessageShape, Reported
<1>. QED
  BY <1>1, <1>2 DEF IInv

-----------------------------------------------------------------------------
(* The actions that lease.                                                 *)

LEMMA LeaseReadyServerIInv ==
  ASSUME IInv, NEW m \in Match, NEW i \in Instance, LeaseReadyServer(m, i)
  PROVE  IInv'
<1> DEFINE n == Len(lease) + 1
           k == Len(command) + 1
           row == [match |-> m, inst |-> i, status |-> "active"]
<1> USE DEF NoLease
<1>1. /\ lease \in Seq(Lease) /\ Len(lease) \in Nat /\ command \in Seq(Command) /\ Len(command) \in Nat
      /\ inst \in [Instance -> [state : InstanceState, lease : LeaseRef]]
      /\ n \in 1..MaxLeases /\ k \in 1..MaxCommands
  BY ControlAssumption DEF IInv, TypeOK, LeaseReadyServer
<1>2. row \in Lease
  BY DEF Lease
<1>3. /\ lease' = Append(lease, row)
      /\ lease' \in Seq(Lease) /\ Len(lease') = n
      /\ DOMAIN lease' = DOMAIN lease \cup {n}
      /\ lease'[n] = row /\ \A l \in DOMAIN lease : l # n /\ lease'[l] = lease[l]
  <2>1. lease' = Append(lease, row)
    BY DEF LeaseReadyServer
  <2>. QED
    BY <1>1, <1>2, <2>1, AppendRow
<1>4. NewCommand("prepare", i, n) \in Command
  BY <1>1, ControlAssumption DEF NewCommand, Command, CommandType, LeaseRef
<1>5. /\ command' \in Seq(Command) /\ Len(command') = k
      /\ DOMAIN command' = DOMAIN command \cup {k}
      /\ command'[k] = NewCommand("prepare", i, n)
      /\ \A c \in DOMAIN command : c # k /\ command'[c] = command[c]
  <2>1. command' = Append(command, NewCommand("prepare", i, n))
    BY <1>3 DEF LeaseReadyServer
  <2>. QED
    BY <1>1, <1>4, <2>1, AppendRow
<1>6. /\ inst' = [inst EXCEPT ![i] = [state |-> "leased", lease |-> n]]
      /\ UNCHANGED <<open, inbox, acks, operator>>
      /\ \A l \in DOMAIN lease : Active(l) => lease[l].match # m /\ lease[l].inst # i
      /\ inst[i].state = "ready"
  BY <1>3 DEF LeaseReadyServer, agentVars, ActiveOf, ActiveOn
<1>7. TypeOK'
  BY <1>1, <1>3, <1>5, <1>6 DEF IInv, TypeOK, InstanceState, LeaseRef
<1>8. OneLease'
  BY <1>3, <1>6 DEF IInv, OneLease, Active
<1>9. PointerShape'
  BY <1>1, <1>3, <1>6 DEF IInv, PointerShape, Active
<1>10. LeaseShape'
  BY <1>1, <1>3, <1>6 DEF IInv, LeaseShape, Active, TypeOK, Lease
<1>11. \A c \in DOMAIN command' : Clearing(c)' => c \in DOMAIN command /\ Clearing(c)
  BY <1>5 DEF Clearing, Unfinished, NewCommand
<1>12. \A c \in DOMAIN command : Clearing(c) => command[c].inst # i
  BY <1>6 DEF IInv, CommandShape
<1>13. CommandShape'
  <2> SUFFICES ASSUME NEW c \in DOMAIN command, Clearing(c)
      PROVE  /\ \A l \in DOMAIN lease' : lease'[l].inst = command'[c].inst => ~Active(l)'
             /\ inst'[command'[c].inst].state \in
                  IF command'[c].type = "drain" THEN {"draining", "quarantined"} ELSE {"quarantined"}
             /\ \A d \in DOMAIN command' :
                  /\ d # c /\ Clearing(d)' /\ command'[d].inst = command'[c].inst
                  => command'[c].type # "unquarantine" /\ ~(command'[c].type = "drain" /\ command'[d].type = "drain")
    BY <1>11 DEF CommandShape
  <2>1. command'[c] = command[c] /\ command[c].inst \in Instance /\ command[c].inst # i
    BY <1>5, <1>12, RowTypes
  <2>2. \A l \in DOMAIN lease' : lease'[l].inst = command'[c].inst => ~Active(l)'
    BY <1>3, <2>1 DEF IInv, CommandShape, Active
  <2>3. inst'[command'[c].inst] = inst[command[c].inst]
    BY <1>1, <1>6, <2>1
  <2>4. inst[command[c].inst].state \in
          IF command[c].type = "drain" THEN {"draining", "quarantined"} ELSE {"quarantined"}
    BY DEF IInv, CommandShape
  <2>5. ASSUME NEW d \in DOMAIN command', d # c, Clearing(d)', command'[d].inst = command'[c].inst
        PROVE  command'[c].type # "unquarantine" /\ ~(command'[c].type = "drain" /\ command'[d].type = "drain")
    <3>1. d \in DOMAIN command /\ Clearing(d) /\ command'[d] = command[d]
      BY <1>5, <1>11, <2>5
    <3>. QED
      BY <2>1, <2>5, <3>1 DEF IInv, CommandShape
  <2>. QED
    BY <2>1, <2>2, <2>3, <2>4, <2>5
<1>14. MessageShape'
  BY <1>5, <1>6 DEF IInv, MessageShape
<1>. QED
  BY <1>7, <1>8, <1>9, <1>10, <1>13, <1>14 DEF IInv

-----------------------------------------------------------------------------
(* Steps of two kinds, by what they do to the tables.                      *)

\* A step that leaves the leases and the pointers to them, moves no instance
\* that is leased, draining or quarantined, and adds no clearing command.
LEMMA QuietStep ==
  ASSUME IInv, lease' = lease,
         command' \in Seq(Command), DOMAIN command \subseteq DOMAIN command',
         \A c \in DOMAIN command :
           /\ command'[c].type = command[c].type
           /\ command'[c].inst = command[c].inst
           /\ command'[c].lease = command[c].lease
           /\ Unfinished(c)' => Unfinished(c),
         \A c \in DOMAIN command' \ DOMAIN command : ~Clearing(c)',
         inst' \in [Instance -> [state : InstanceState, lease : LeaseRef]],
         \A j \in Instance : inst'[j].lease = inst[j].lease,
         \A j \in Instance : inst'[j].state # inst[j].state =>
           inst[j].state \notin Kept /\ inst'[j].state # "leased"
  PROVE  OneLease' /\ PointerShape' /\ LeaseShape' /\ CommandShape'
<1> USE DEF Kept
<1>1. OneLease' /\ LeaseShape'
  BY RowTypes DEF IInv, OneLease, LeaseShape, Active
<1>4. PointerShape'
  BY RowTypes DEF IInv, PointerShape, Active
<1>2. \A c \in DOMAIN command' : Clearing(c)' => c \in DOMAIN command /\ Clearing(c)
  BY DEF Clearing
<1>3. CommandShape'
  <2> SUFFICES ASSUME NEW c \in DOMAIN command, Clearing(c), Clearing(c)'
      PROVE  /\ \A l \in DOMAIN lease' : lease'[l].inst = command'[c].inst => ~Active(l)'
             /\ inst'[command'[c].inst].state \in
                  IF command'[c].type = "drain" THEN {"draining", "quarantined"} ELSE {"quarantined"}
             /\ \A d \in DOMAIN command' :
                  /\ d # c /\ Clearing(d)' /\ command'[d].inst = command'[c].inst
                  => command'[c].type # "unquarantine" /\ ~(command'[c].type = "drain" /\ command'[d].type = "drain")
    BY <1>2 DEF CommandShape
  <2>1. /\ \A l \in DOMAIN lease : lease[l].inst = command[c].inst => ~Active(l)
        /\ inst[command[c].inst].state \in
             IF command[c].type = "drain" THEN {"draining", "quarantined"} ELSE {"quarantined"}
    BY DEF IInv, CommandShape
  <2>2. inst'[command[c].inst].state = inst[command[c].inst].state
    BY <2>1, RowTypes
  <2>3. ASSUME NEW d \in DOMAIN command', d # c, Clearing(d)', command'[d].inst = command'[c].inst
        PROVE  command'[c].type # "unquarantine" /\ ~(command'[c].type = "drain" /\ command'[d].type = "drain")
    <3>1. d \in DOMAIN command /\ Clearing(d)
      BY <1>2, <2>3
    <3>. QED
      BY <2>3, <3>1 DEF IInv, CommandShape
  <2>. QED
    BY <2>1, <2>2, <2>3 DEF Active
<1>. QED
  BY <1>1, <1>3, <1>4

\* A step that ends an active lease, takes its instance out of service and
\* tells the agent so.
LEMMA EndingStep ==
  ASSUME IInv, NEW l \in DOMAIN lease, Active(l),
         NEW status \in {"released", "expired"}, NEW state \in {"draining", "quarantined"},
         lease' = [lease EXCEPT ![l].status = status],
         inst' = [inst EXCEPT ![lease[l].inst] = [state |-> state, lease |-> NoLease]],
         command' \in Seq(Command),
         DOMAIN command' = DOMAIN command \cup {Len(command) + 1},
         \A c \in DOMAIN command :
           /\ command'[c].type = command[c].type
           /\ command'[c].inst = command[c].inst
           /\ command'[c].lease = command[c].lease
           /\ Unfinished(c)' => Unfinished(c),
         command'[Len(command) + 1].inst = lease[l].inst,
         command'[Len(command) + 1].type = IF state = "draining" THEN "drain" ELSE "quarantine"
  PROVE  /\ lease' \in Seq(Lease) /\ Len(lease') = Len(lease)
         /\ inst' \in [Instance -> [state : InstanceState, lease : LeaseRef]]
         /\ OneLease' /\ PointerShape' /\ LeaseShape' /\ CommandShape'
<1> DEFINE i == lease[l].inst
           k == Len(command) + 1
<1> USE DEF NoLease
<1>1. /\ lease[l] \in Lease /\ i \in Instance /\ l \in 1..Len(lease)
  BY RowTypes
<1>2. /\ lease' \in Seq(Lease) /\ Len(lease') = Len(lease) /\ DOMAIN lease' = DOMAIN lease
      /\ \A j \in DOMAIN lease : lease'[j].inst = lease[j].inst /\ lease'[j].match = lease[j].match
      /\ \A j \in DOMAIN lease : j # l => lease'[j] = lease[j]
      /\ lease'[l].status = status
  <2>1. [lease[l] EXCEPT !.status = status] \in Lease
    BY <1>1 DEF Lease
  <2>2. lease' = [lease EXCEPT ![l] = [lease[l] EXCEPT !.status = status]]
    OBVIOUS
  <2>3. lease' \in Seq(Lease) /\ Len(lease') = Len(lease) /\ DOMAIN lease' = DOMAIN lease
    BY <2>1, <2>2, RowTypes
  <2>. QED
    BY <2>3, <1>1, RowTypes DEF Lease
<1>3. \A j \in DOMAIN lease : Active(j)' <=> Active(j) /\ j # l
  BY <1>2 DEF Active
<1>4. /\ inst' \in [Instance -> [state : InstanceState, lease : LeaseRef]]
      /\ inst'[i].state = state /\ inst'[i].lease = 0
      /\ \A j \in Instance : j # i => inst'[j] = inst[j]
  BY <1>1, RowTypes, ControlAssumption DEF InstanceState, LeaseRef
<1>5. OneLease'
  BY <1>2, <1>3 DEF IInv, OneLease
<1>6. \A j \in DOMAIN lease : Active(j) /\ j # l => lease[j].inst # i
  BY DEF IInv, OneLease
<1>7. PointerShape'
  BY <1>2, <1>3, <1>4 DEF IInv, PointerShape
<1>8. LeaseShape'
  BY <1>2, <1>3, <1>4, <1>6, RowTypes DEF IInv, LeaseShape
<1>9. \A c \in DOMAIN command : Clearing(c)' => Clearing(c)
  BY DEF Clearing
<1>10. \A c \in DOMAIN command : Clearing(c) => command[c].inst # i
  BY DEF IInv, CommandShape
<1>11. CommandShape'
  <2> SUFFICES ASSUME NEW c \in DOMAIN command', Clearing(c)'
      PROVE  /\ \A j \in DOMAIN lease' : lease'[j].inst = command'[c].inst => ~Active(j)'
             /\ inst'[command'[c].inst].state \in
                  IF command'[c].type = "drain" THEN {"draining", "quarantined"} ELSE {"quarantined"}
             /\ \A d \in DOMAIN command' :
                  /\ d # c /\ Clearing(d)' /\ command'[d].inst = command'[c].inst
                  => command'[c].type # "unquarantine" /\ ~(command'[c].type = "drain" /\ command'[d].type = "drain")
    BY DEF CommandShape
  <2>1. CASE c = k
    <3>1. \A d \in DOMAIN command' : d # k /\ Clearing(d)' => command'[d].inst # i
      BY <1>9, <1>10
    <3>. QED
      BY <2>1, <3>1, <1>2, <1>3, <1>4, <1>6
  <2>2. CASE c # k
    <3>1. c \in DOMAIN command /\ Clearing(c) /\ command[c].inst # i /\ command[c].inst \in Instance
      BY <2>2, <1>9, <1>10, RowTypes
    <3>2. /\ \A j \in DOMAIN lease : lease[j].inst = command[c].inst => ~Active(j)
          /\ inst[command[c].inst].state \in
               IF command[c].type = "drain" THEN {"draining", "quarantined"} ELSE {"quarantined"}
      BY <3>1 DEF IInv, CommandShape
    <3>3. ASSUME NEW d \in DOMAIN command', d # c, Clearing(d)', command'[d].inst = command'[c].inst
          PROVE  command'[c].type # "unquarantine" /\ ~(command'[c].type = "drain" /\ command'[d].type = "drain")
      <4>1. d # k
        BY <3>1, <3>3
      <4>2. d \in DOMAIN command /\ Clearing(d)
        BY <4>1, <3>3, <1>9
      <4>. QED
        BY <3>1, <3>3, <4>2 DEF IInv, CommandShape
    <3>. QED
      BY <3>1, <3>2, <3>3, <1>2, <1>3, <1>4
  <2>. QED
    BY <2>1, <2>2
<1>. QED
  BY <1>2, <1>4, <1>5, <1>7, <1>8, <1>11

\* What a new row of node_commands changes.
LEMMA NewRow ==
  ASSUME IInv, NEW i \in Instance, NEW type \in CommandType, NEW l \in LeaseRef,
         Len(command) < MaxCommands,
         command' = Append(command, NewCommand(type, i, l))
  PROVE  /\ command' \in Seq(Command) /\ Len(command') = Len(command) + 1
         /\ Len(command') <= MaxCommands
         /\ DOMAIN command' = DOMAIN command \cup {Len(command) + 1}
         /\ command'[Len(command) + 1] = NewCommand(type, i, l)
         /\ \A c \in DOMAIN command : c # Len(command) + 1 /\ command'[c] = command[c]
         /\ UNCHANGED <<inbox, acks>> => MessageShape'
<1>1. NewCommand(type, i, l) \in Command
  BY ControlAssumption DEF NewCommand, Command
<1>2. /\ command' \in Seq(Command) /\ Len(command') = Len(command) + 1
      /\ DOMAIN command' = DOMAIN command \cup {Len(command) + 1}
      /\ command'[Len(command) + 1] = NewCommand(type, i, l)
      /\ \A c \in DOMAIN command : c # Len(command) + 1 /\ command'[c] = command[c]
  BY <1>1, RowTypes, AppendRow
<1>3. Len(command') <= MaxCommands
  BY <1>2, RowTypes, ControlAssumption
<1>4. UNCHANGED <<inbox, acks>> => MessageShape'
  BY <1>2 DEF IInv, MessageShape
<1>. QED
  BY <1>2, <1>3, <1>4

-----------------------------------------------------------------------------
(* The other actions.                                                      *)

LEMMA WakeServerIInv ==
  ASSUME IInv, NEW i \in Instance, WakeServer(i)
  PROVE  IInv'
<1>1. /\ lease' = lease /\ open' = open /\ operator' = operator /\ UNCHANGED <<inbox, acks>>
      /\ inst' = [inst EXCEPT ![i].state = "starting"] /\ inst[i].state = "offline"
      /\ Len(command) < MaxCommands
      /\ command' = Append(command, NewCommand("start", i, NoLease))
  BY DEF WakeServer, agentVars
<1>2. "start" \in CommandType /\ NoLease \in LeaseRef
  BY ControlAssumption DEF CommandType, NoLease, LeaseRef
<1>3. /\ command' \in Seq(Command) /\ Len(command') <= MaxCommands
      /\ DOMAIN command' = DOMAIN command \cup {Len(command) + 1}
      /\ command'[Len(command) + 1] = NewCommand("start", i, NoLease)
      /\ \A c \in DOMAIN command : command'[c] = command[c]
      /\ MessageShape'
  BY <1>1, <1>2, NewRow
<1>4. /\ inst' \in [Instance -> [state : InstanceState, lease : LeaseRef]]
      /\ \A j \in Instance : inst'[j].lease = inst[j].lease
      /\ \A j \in Instance : inst'[j].state # inst[j].state =>
           inst[j].state \notin Kept /\ inst'[j].state # "leased"
  BY <1>1, RowTypes DEF InstanceState, Kept
<1>5. TypeOK'
  BY <1>1, <1>3, <1>4 DEF IInv, TypeOK
<1>6. /\ \A c \in DOMAIN command' \ DOMAIN command : ~Clearing(c)'
      /\ \A c \in DOMAIN command : Unfinished(c)' => Unfinished(c)
  BY <1>3 DEF Clearing, Unfinished, NewCommand
<1>7. OneLease' /\ PointerShape' /\ LeaseShape' /\ CommandShape'
  BY <1>1, <1>3, <1>4, <1>6, QuietStep
<1>. QED
  BY <1>3, <1>5, <1>7 DEF IInv

LEMMA SynchronizeRosterIInv ==
  ASSUME IInv, NEW l \in DOMAIN lease, SynchronizeRoster(l)
  PROVE  IInv'
<1>1. /\ lease' = lease /\ open' = open /\ operator' = operator /\ UNCHANGED <<inbox, acks>>
      /\ inst' = inst /\ Len(command) < MaxCommands
      /\ command' = Append(command, NewCommand("sync-roster", lease[l].inst, l))
  BY DEF SynchronizeRoster, agentVars
<1>2. "sync-roster" \in CommandType /\ l \in LeaseRef /\ lease[l].inst \in Instance
  BY ControlAssumption, RowTypes DEF CommandType, LeaseRef
<1>3. /\ command' \in Seq(Command) /\ Len(command') <= MaxCommands
      /\ DOMAIN command' = DOMAIN command \cup {Len(command) + 1}
      /\ command'[Len(command) + 1] = NewCommand("sync-roster", lease[l].inst, l)
      /\ \A c \in DOMAIN command : command'[c] = command[c]
      /\ MessageShape'
  BY <1>1, <1>2, NewRow
<1>4. TypeOK'
  BY <1>1, <1>3 DEF IInv, TypeOK
<1>5. /\ \A c \in DOMAIN command' \ DOMAIN command : ~Clearing(c)'
      /\ \A c \in DOMAIN command : Unfinished(c)' => Unfinished(c)
  BY <1>3 DEF Clearing, Unfinished, NewCommand
<1>6. OneLease' /\ PointerShape' /\ LeaseShape' /\ CommandShape'
  BY <1>1, <1>3, <1>5, RowTypes, QuietStep
<1>. QED
  BY <1>3, <1>4, <1>6 DEF IInv

LEMMA OperatorQuarantinesIInv ==
  ASSUME IInv, NEW i \in Instance, OperatorQuarantines(i)
  PROVE  IInv'
<1>1. /\ lease' = lease /\ open' = open /\ UNCHANGED <<inbox, acks>>
      /\ operator < MaxOperator /\ operator' = operator + 1
      /\ inst' = inst /\ Len(command) < MaxCommands
      /\ command' = Append(command, NewCommand("quarantine", i, NoLease))
  BY DEF OperatorQuarantines, agentVars
<1>2. "quarantine" \in CommandType /\ NoLease \in LeaseRef
  BY ControlAssumption DEF CommandType, NoLease, LeaseRef
<1>3. /\ command' \in Seq(Command) /\ Len(command') <= MaxCommands
      /\ DOMAIN command' = DOMAIN command \cup {Len(command) + 1}
      /\ command'[Len(command) + 1] = NewCommand("quarantine", i, NoLease)
      /\ \A c \in DOMAIN command : command'[c] = command[c]
      /\ MessageShape'
  BY <1>1, <1>2, NewRow
<1>4. TypeOK'
  BY <1>1, <1>3, ControlAssumption DEF IInv, TypeOK
<1>5. /\ \A c \in DOMAIN command' \ DOMAIN command : ~Clearing(c)'
      /\ \A c \in DOMAIN command : Unfinished(c)' => Unfinished(c)
  BY <1>3 DEF Clearing, Unfinished, NewCommand
<1>6. OneLease' /\ PointerShape' /\ LeaseShape' /\ CommandShape'
  BY <1>1, <1>3, <1>5, RowTypes, QuietStep
<1>. QED
  BY <1>3, <1>4, <1>6 DEF IInv

LEMMA OperatorReturnsIInv ==
  ASSUME IInv, NEW i \in Instance, OperatorReturns(i)
  PROVE  IInv'
<1>1. /\ lease' = lease /\ open' = open /\ UNCHANGED <<inbox, acks>>
      /\ operator < MaxOperator /\ operator' = operator + 1
      /\ inst' = inst /\ Len(command) < MaxCommands
      /\ command' = Append(command, NewCommand("unquarantine", i, NoLease))
      /\ inst[i].state = "quarantined"
      /\ \A c \in DOMAIN command : Unfinished(c) => command[c].inst # i
      /\ \A l \in DOMAIN lease : Active(l) => lease[l].inst # i
  BY DEF OperatorReturns, agentVars, UnfinishedOf, ActiveOn
<1>2. "unquarantine" \in CommandType /\ NoLease \in LeaseRef
  BY ControlAssumption DEF CommandType, NoLease, LeaseRef
<1>3. /\ command' \in Seq(Command) /\ Len(command') <= MaxCommands
      /\ DOMAIN command' = DOMAIN command \cup {Len(command) + 1}
      /\ command'[Len(command) + 1] = NewCommand("unquarantine", i, NoLease)
      /\ \A c \in DOMAIN command : command'[c] = command[c] /\ c # Len(command) + 1
      /\ MessageShape'
  BY <1>1, <1>2, NewRow
<1>4. TypeOK'
  BY <1>1, <1>3, ControlAssumption DEF IInv, TypeOK
<1>5. OneLease' /\ PointerShape' /\ LeaseShape'
  BY <1>1 DEF IInv, OneLease, PointerShape, LeaseShape, Active
<1>6. /\ \A c \in DOMAIN command : Clearing(c)' => Clearing(c) /\ command[c].inst # i
      /\ command'[Len(command) + 1].inst = i
      /\ command'[Len(command) + 1].type = "unquarantine"
  BY <1>1, <1>3 DEF Clearing, Unfinished, NewCommand
<1>7. CommandShape'
  BY <1>1, <1>3, <1>6 DEF IInv, CommandShape, Active
<1>. QED
  BY <1>3, <1>4, <1>5, <1>7 DEF IInv

LEMMA ReleaseLeaseIInv ==
  ASSUME IInv, NEW l \in DOMAIN lease, ReleaseLease(l)
  PROVE  IInv'
<1>1. /\ Active(l) /\ open' = open /\ operator' = operator /\ UNCHANGED <<inbox, acks>>
      /\ lease' = [lease EXCEPT ![l].status = "released"]
      /\ inst' = [inst EXCEPT ![lease[l].inst] = [state |-> "draining", lease |-> NoLease]]
      /\ Len(command) < MaxCommands
      /\ command' = Append(command, NewCommand("drain", lease[l].inst, l))
  BY DEF ReleaseLease, agentVars
<1>2. "drain" \in CommandType /\ l \in LeaseRef /\ lease[l].inst \in Instance
  BY ControlAssumption, RowTypes DEF CommandType, LeaseRef
<1>3. /\ command' \in Seq(Command) /\ Len(command') <= MaxCommands
      /\ DOMAIN command' = DOMAIN command \cup {Len(command) + 1}
      /\ command'[Len(command) + 1] = NewCommand("drain", lease[l].inst, l)
      /\ \A c \in DOMAIN command : command'[c] = command[c]
      /\ MessageShape'
  BY <1>1, <1>2, NewRow
<1>4. /\ command'[Len(command) + 1].inst = lease[l].inst
      /\ command'[Len(command) + 1].type = "drain"
      /\ \A c \in DOMAIN command : Unfinished(c)' => Unfinished(c)
  BY <1>3 DEF NewCommand, Unfinished
<1>5. /\ lease' \in Seq(Lease) /\ Len(lease') = Len(lease)
      /\ inst' \in [Instance -> [state : InstanceState, lease : LeaseRef]]
      /\ OneLease' /\ PointerShape' /\ LeaseShape' /\ CommandShape'
  BY <1>1, <1>3, <1>4, EndingStep
<1>6. TypeOK'
  BY <1>1, <1>3, <1>5, RowTypes DEF IInv, TypeOK
<1>. QED
  BY <1>3, <1>5, <1>6 DEF IInv

LEMMA ExpireLeaseIInv ==
  ASSUME IInv, NEW l \in DOMAIN lease, ExpireLease(l)
  PROVE  IInv'
<1>1. /\ Active(l) /\ operator' = operator /\ UNCHANGED <<inbox, acks>>
      /\ lease' = [lease EXCEPT ![l].status = "expired"]
      /\ inst' = [inst EXCEPT ![lease[l].inst] = [state |-> "quarantined", lease |-> NoLease]]
      /\ open' \subseteq open
      /\ Len(command) < MaxCommands
      /\ command' = Append(command, NewCommand("quarantine", lease[l].inst, l))
  BY DEF ExpireLease, LeaseFails, agentVars
<1>2. "quarantine" \in CommandType /\ l \in LeaseRef /\ lease[l].inst \in Instance
  BY ControlAssumption, RowTypes DEF CommandType, LeaseRef
<1>3. /\ command' \in Seq(Command) /\ Len(command') <= MaxCommands
      /\ DOMAIN command' = DOMAIN command \cup {Len(command) + 1}
      /\ command'[Len(command) + 1] = NewCommand("quarantine", lease[l].inst, l)
      /\ \A c \in DOMAIN command : command'[c] = command[c]
      /\ MessageShape'
  BY <1>1, <1>2, NewRow
<1>4. /\ command'[Len(command) + 1].inst = lease[l].inst
      /\ command'[Len(command) + 1].type = "quarantine"
      /\ \A c \in DOMAIN command : Unfinished(c)' => Unfinished(c)
  BY <1>3 DEF NewCommand, Unfinished
<1>5. /\ lease' \in Seq(Lease) /\ Len(lease') = Len(lease)
      /\ inst' \in [Instance -> [state : InstanceState, lease : LeaseRef]]
      /\ OneLease' /\ PointerShape' /\ LeaseShape' /\ CommandShape'
  BY <1>1, <1>3, <1>4, EndingStep
<1>6. TypeOK'
  BY <1>1, <1>3, <1>5, RowTypes DEF IInv, TypeOK
<1>. QED
  BY <1>3, <1>5, <1>6 DEF IInv

LEMMA HeartbeatIInv ==
  ASSUME IInv, NEW i \in Instance, NEW report \in Reported,
         NEW failing \in BOOLEAN, NEW defer \in BOOLEAN, NEW changed \in BOOLEAN,
         NEW lapsed, NEW due, Heartbeat(i, report, failing, defer, changed, lapsed, due)
  PROVE  IInv'
<1> DEFINE queue == QueueOf(i, report, failing, defer, changed)
           k == Len(command) + 1
           taken == {c \in DOMAIN queue :
                       /\ queue[c].inst = i
                       /\ queue[c].status = "pending" \/ c \in lapsed
                       /\ queue[c].resting => c \in due
                       /\ defer => queue[c].type # "drain"}
<1>1. /\ inbox[i] = {} /\ acks' = acks /\ operator' = operator
      /\ \A c \in lapsed : c \in DOMAIN command /\ command[c].inst = i /\ command[c].status = "claimed"
      /\ Len(queue) <= MaxCommands /\ \A c \in taken : queue[c].attempts < MaxClaims
      /\ command' = [c \in DOMAIN queue |->
            IF c \in taken
            THEN [queue[c] EXCEPT !.status = "claimed", !.attempts = @ + 1, !.resting = FALSE]
            ELSE IF c \in lapsed THEN [queue[c] EXCEPT !.status = "pending"] ELSE queue[c]]
      /\ inbox' = [inbox EXCEPT ![i] = {[cmd |-> c, token |-> queue[c].attempts + 1] : c \in taken}]
      /\ taken \subseteq DOMAIN queue
      /\ \A c \in taken : queue[c].inst = i /\ (queue[c].status = "pending" \/ c \in lapsed)
  BY DEF Heartbeat
<1> DEFINE extra == IF Unreachable(i, report, failing)
                      \/ InventoryChanged(i, report, defer, changed) THEN {k} ELSE {}
<1>2. /\ queue \in Seq(Command)
      /\ DOMAIN queue = DOMAIN command \cup extra
      /\ \A c \in DOMAIN command : c # k /\ queue[c] = command[c]
      /\ Unreachable(i, report, failing) => queue[k] = NewCommand("quarantine", i, inst[i].lease)
      /\ ~Unreachable(i, report, failing) /\ k \in extra =>
           queue[k] = NewCommand("sync-inventory", i, inst[i].lease)
  <2>1. inst[i].lease \in LeaseRef
    BY RowTypes
  <2>2. \A type \in CommandType : NewCommand(type, i, inst[i].lease) \in Command
    BY <2>1, ControlAssumption DEF NewCommand, Command
  <2>3. {"quarantine", "sync-inventory"} \subseteq CommandType
    BY DEF CommandType
  <2>4. CASE Unreachable(i, report, failing)
    <3>1. queue = Append(command, NewCommand("quarantine", i, inst[i].lease))
      BY <2>4 DEF QueueOf
    <3>. QED
      BY <2>2, <2>3, <2>4, <3>1, RowTypes, AppendRow
  <2>5. CASE ~Unreachable(i, report, failing) /\ InventoryChanged(i, report, defer, changed)
    <3>1. queue = Append(command, NewCommand("sync-inventory", i, inst[i].lease))
      BY <2>5 DEF QueueOf
    <3>. QED
      BY <2>2, <2>3, <2>5, <3>1, RowTypes, AppendRow
  <2>6. CASE ~Unreachable(i, report, failing) /\ ~InventoryChanged(i, report, defer, changed)
    <3>1. queue = command
      BY <2>6 DEF QueueOf
    <3>. QED
      BY <2>6, <3>1, RowTypes
  <2>. QED
    BY <2>4, <2>5, <2>6
<1> HIDE DEF queue, taken
<1>a. /\ inbox[i] = {} /\ acks' = acks /\ operator' = operator
      /\ Len(queue) <= MaxCommands /\ taken \subseteq DOMAIN queue
  BY <1>1
<1>b. \A c \in taken : queue[c].attempts < MaxClaims /\ queue[c].inst = i
  BY <1>1
<1>c. \A c \in lapsed : c \in DOMAIN command /\ command[c].inst = i /\ command[c].status = "claimed"
  BY <1>1
<1>e. \A c \in taken : queue[c].status = "pending" \/ c \in lapsed
  BY <1>1
<1>d. inbox' = [inbox EXCEPT ![i] = {[cmd |-> c, token |-> queue[c].attempts + 1] : c \in taken}]
  BY <1>1
<1>3. \A c \in DOMAIN queue :
        /\ command'[c].type = queue[c].type /\ command'[c].inst = queue[c].inst
        /\ command'[c].lease = queue[c].lease
        /\ c \in taken => command'[c].status = "claimed" /\ command'[c].attempts = queue[c].attempts + 1
        /\ c \notin taken /\ c \notin lapsed => command'[c] = queue[c]
        /\ c \notin taken => command'[c].attempts = queue[c].attempts
        /\ queue[c] \in Command /\ command'[c] \in Command
  <2> SUFFICES ASSUME NEW c \in DOMAIN queue
      PROVE  /\ command'[c].type = queue[c].type /\ command'[c].inst = queue[c].inst
             /\ command'[c].lease = queue[c].lease
             /\ c \in taken => command'[c].status = "claimed" /\ command'[c].attempts = queue[c].attempts + 1
             /\ c \notin taken /\ c \notin lapsed => command'[c] = queue[c]
             /\ c \notin taken => command'[c].attempts = queue[c].attempts
             /\ queue[c] \in Command /\ command'[c] \in Command
    OBVIOUS
  <2>1. queue[c] \in Command
    BY <1>2
  <2>2. CASE c \in taken
    <3>1. command'[c] = [queue[c] EXCEPT !.status = "claimed", !.attempts = @ + 1, !.resting = FALSE]
      BY <1>1, <2>2
    <3>2. queue[c].attempts + 1 \in 0..MaxClaims
      BY <1>b, <2>1, <2>2, ControlAssumption DEF Command
    <3>. QED
      BY <2>1, <2>2, <3>1, <3>2 DEF Command
  <2>3. CASE c \notin taken
    BY <1>1, <2>1, <2>3 DEF Command
  <2>. QED
    BY <2>1, <2>2, <2>3
<1>4. command' \in Seq(Command) /\ Len(command') <= MaxCommands /\ DOMAIN command' = DOMAIN queue
  <2>1. command' = [c \in DOMAIN queue |-> command'[c]]
    BY <1>1
  <2>2. \A c \in DOMAIN queue : command'[c] \in Command
    BY <1>3
  <2>3. /\ command' \in Seq(Command) /\ Len(command') = Len(queue)
        /\ DOMAIN command' = DOMAIN queue
    BY <1>2, <2>1, <2>2, MapRows
  <2>. QED
    BY <1>a, <2>3
<1>5. \A c \in DOMAIN command : Unfinished(c)' => Unfinished(c)
  <2> SUFFICES ASSUME NEW c \in DOMAIN command, command'[c].status \in {"pending", "claimed"}
               PROVE  command[c].status \in {"pending", "claimed"}
    BY DEF Unfinished
  <2>1. c \in DOMAIN queue /\ queue[c] = command[c]
    BY <1>2
  <2>2. CASE c \in taken
    BY <1>c, <1>e, <2>1, <2>2
  <2>3. CASE c \notin taken
    BY <1>3, <1>c, <2>1, <2>3
  <2>. QED
    BY <2>2, <2>3
<1>6. inbox' \in [Instance -> SUBSET [cmd : 1..MaxCommands, token : 1..MaxClaims]]
  <2>1. \A c \in taken : [cmd |-> c, token |-> queue[c].attempts + 1] \in [cmd : 1..MaxCommands, token : 1..MaxClaims]
    <3> SUFFICES ASSUME NEW c \in taken
        PROVE  c \in 1..MaxCommands /\ queue[c].attempts + 1 \in 1..MaxClaims
      OBVIOUS
    <3>1. c \in 1..Len(queue) /\ Len(queue) \in Nat
      <4>1. queue \in Seq(Command)
        BY <1>2
      <4>. QED
        BY <4>1, <1>a
    <3>2. queue[c].attempts \in 0..MaxClaims
      BY <1>3, <1>a DEF Command
    <3>. QED
      BY <1>a, <1>b, <3>1, <3>2, ControlAssumption
  <2>. QED
    BY <1>d, <2>1 DEF IInv, TypeOK
<1>7. MessageShape'
  <2>1. ASSUME NEW a \in acks
        PROVE  a.cmd \in DOMAIN command /\ a.cmd \in DOMAIN command'
               /\ a.token <= command[a.cmd].attempts /\ a.token <= command'[a.cmd].attempts
    <3>1. a.cmd \in DOMAIN command /\ a.token <= command[a.cmd].attempts /\ a.token \in Nat
      BY DEF IInv, MessageShape, TypeOK, Ack
    <3>2. command[a.cmd].attempts \in Nat
      BY <3>1, RowTypes, ControlAssumption DEF Command
    <3>. QED
      BY <3>1, <3>2, <1>2, <1>3, <1>4
  <2>2. ASSUME NEW c \in taken, NEW a \in acks
        PROVE  ~(a.cmd = c /\ a.token = queue[c].attempts + 1)
    <3>1. queue[c].attempts \in Nat /\ a.token \in Nat
      BY <1>3, <1>a, ControlAssumption DEF Command, IInv, TypeOK, Ack
    <3>. QED
      BY <2>1, <3>1, <1>2
  <2>3. ASSUME NEW j \in Instance, j # i, NEW x \in inbox[j]
        PROVE  /\ x.cmd \in DOMAIN command' /\ command'[x.cmd] = command[x.cmd]
    <3>1. x.cmd \in DOMAIN command /\ command[x.cmd].inst = j
      BY DEF IInv, MessageShape
    <3>2. x.cmd \notin taken /\ x.cmd \notin lapsed
      BY <2>3, <3>1, <1>b, <1>c, <1>2
    <3>. QED
      BY <3>1, <3>2, <1>2, <1>3, <1>4
  <2>4. ASSUME NEW j \in Instance, NEW x \in inbox'[j]
        PROVE  /\ x.cmd \in DOMAIN command' /\ command'[x.cmd].inst = j
               /\ command'[x.cmd].status = "claimed" /\ command'[x.cmd].attempts = x.token
               /\ \A a \in acks : ~(a.cmd = x.cmd /\ a.token = x.token)
    <3>0. inbox \in [Instance -> SUBSET [cmd : 1..MaxCommands, token : 1..MaxClaims]]
      BY DEF IInv, TypeOK
    <3>1. CASE j = i
      <4>1. PICK c \in taken : x = [cmd |-> c, token |-> queue[c].attempts + 1]
        BY <1>d, <2>4, <3>0, <3>1
      <4>. QED
        BY <4>1, <1>3, <1>4, <1>a, <1>b, <2>2, <3>1
    <3>2. CASE j # i
      <4>1. x \in inbox[j]
        BY <1>d, <2>4, <3>0, <3>2
      <4>. QED
        BY <4>1, <2>3, <3>2 DEF IInv, MessageShape
    <3>. QED
      BY <3>1, <3>2
  <2>. QED
    BY <1>a, <2>1, <2>4 DEF MessageShape
<1>8. CASE Unreachable(i, report, failing)
  <2> DEFINE l == inst[i].lease
  <2>1. /\ l # NoLease /\ Active(l) /\ l \in DOMAIN lease /\ lease[l].inst = i
    BY <1>8 DEF Unreachable, IInv, PointerShape
  <2>2. /\ lease' = [lease EXCEPT ![l].status = "expired"]
        /\ inst' = [inst EXCEPT ![lease[l].inst] = [state |-> "quarantined", lease |-> NoLease]]
        /\ open' \subseteq open
    BY <1>8 DEF Heartbeat, LeaseFails
  <2>3. /\ DOMAIN command' = DOMAIN command \cup {Len(command) + 1}
        /\ command'[Len(command) + 1].inst = lease[l].inst
        /\ command'[Len(command) + 1].type = "quarantine"
    BY <1>2, <1>3, <1>4, <1>8, <2>1 DEF NewCommand
  <2>4. \A c \in DOMAIN command :
          /\ command'[c].type = command[c].type /\ command'[c].inst = command[c].inst
          /\ command'[c].lease = command[c].lease
    BY <1>2, <1>3
  <2>5. /\ lease' \in Seq(Lease) /\ Len(lease') = Len(lease)
        /\ inst' \in [Instance -> [state : InstanceState, lease : LeaseRef]]
        /\ OneLease' /\ PointerShape' /\ LeaseShape' /\ CommandShape'
    BY <1>4, <1>5, <2>1, <2>2, <2>3, <2>4, EndingStep
  <2>6. TypeOK'
    BY <1>1, <1>4, <1>6, <2>2, <2>5, RowTypes DEF IInv, TypeOK
  <2>. QED
    BY <1>7, <2>5, <2>6 DEF IInv
<1>9. CASE ~Unreachable(i, report, failing)
  <2>1. /\ inst' = [inst EXCEPT ![i].state = IF @ \in Kept THEN @ ELSE report]
        /\ UNCHANGED <<open, lease>>
    BY <1>9 DEF Heartbeat
  <2>2. /\ inst' \in [Instance -> [state : InstanceState, lease : LeaseRef]]
        /\ \A j \in Instance : inst'[j].lease = inst[j].lease
        /\ \A j \in Instance : inst'[j].state # inst[j].state =>
             inst[j].state \notin Kept /\ inst'[j].state # "leased"
    BY <2>1, RowTypes DEF InstanceState, Reported
  <2>3. \A c \in DOMAIN command' \ DOMAIN command : ~Clearing(c)'
    BY <1>2, <1>3, <1>4, <1>9 DEF Clearing, NewCommand
  <2>4. \A c \in DOMAIN command :
          /\ command'[c].type = command[c].type /\ command'[c].inst = command[c].inst
          /\ command'[c].lease = command[c].lease
    BY <1>2, <1>3
  <2>5. OneLease' /\ PointerShape' /\ LeaseShape' /\ CommandShape'
    BY <1>2, <1>4, <1>5, <2>1, <2>2, <2>3, <2>4, QuietStep
  <2>6. TypeOK'
    BY <1>1, <1>4, <1>6, <2>1, <2>2 DEF IInv, TypeOK
  <2>. QED
    BY <1>7, <2>5, <2>6 DEF IInv
<1>. QED
  BY <1>8, <1>9

LEMMA ExecuteIInv ==
  ASSUME IInv, NEW i \in Instance, NEW x \in inbox[i], Execute(i, x)
  PROVE  IInv'
<1>1. PICK ok \in BOOLEAN, state \in {"ready", "offline"} :
        acks' = acks \cup {[cmd |-> x.cmd, token |-> x.token, ok |-> ok, state |-> state]}
  BY DEF Execute
<1>2. /\ inbox' = [inbox EXCEPT ![i] = @ \ {x}]
      /\ UNCHANGED <<open, inst, lease, command, operator>>
  BY DEF Execute, controlVars
<1>3. /\ x \in [cmd : 1..MaxCommands, token : 1..MaxClaims]
      /\ inbox \in [Instance -> SUBSET [cmd : 1..MaxCommands, token : 1..MaxClaims]]
  BY DEF IInv, TypeOK
<1>4. TypeOK'
  BY <1>1, <1>2, <1>3 DEF IInv, TypeOK, Ack
<1>5. MessageShape'
  <2>1. \A a \in acks' : a \in acks \/ (a.cmd = x.cmd /\ a.token = x.token)
    BY <1>1
  <2>2. /\ x.cmd \in DOMAIN command /\ command[x.cmd].inst = i
        /\ command[x.cmd].attempts = x.token
    BY DEF IInv, MessageShape
  <2>3. x.token \in Nat
    BY <1>3, ControlAssumption
  <2>4. ASSUME NEW j \in Instance, NEW y \in inbox'[j]
        PROVE  y \in inbox[j] /\ ~(y.cmd = x.cmd /\ y.token = x.token)
    <3>1. y \in inbox[j] /\ (j = i => y # x)
      BY <1>2, <1>3, <2>4
    <3>2. CASE j = i
      <4>1. y \in [cmd : 1..MaxCommands, token : 1..MaxClaims]
        BY <1>3, <3>1
      <4>. QED
        BY <1>3, <3>1, <3>2, <4>1
    <3>3. CASE j # i
      BY <2>2, <3>1, <3>3 DEF IInv, MessageShape
    <3>. QED
      BY <3>2, <3>3
  <2>. QED
    BY <1>2, <2>1, <2>2, <2>3, <2>4 DEF IInv, MessageShape
<1>6. OneLease' /\ PointerShape' /\ LeaseShape' /\ CommandShape'
  BY <1>2 DEF IInv, OneLease, PointerShape, LeaseShape, CommandShape, Clearing, Unfinished, Active
<1>. QED
  BY <1>4, <1>5, <1>6 DEF IInv

\* The steps that change no table.
LEMMA TablesKept ==
  ASSUME IInv, UNCHANGED <<inst, lease, command, operator>>, open' \subseteq open,
         acks' \subseteq acks, inbox' \in [Instance -> SUBSET [cmd : 1..MaxCommands, token : 1..MaxClaims]],
         \A i \in Instance : inbox'[i] \subseteq inbox[i]
  PROVE  IInv'
<1>1. TypeOK'
  BY DEF IInv, TypeOK
<1>2. MessageShape'
  BY DEF IInv, MessageShape
<1>3. OneLease' /\ PointerShape' /\ LeaseShape' /\ CommandShape'
  BY DEF IInv, OneLease, PointerShape, LeaseShape, CommandShape, Clearing, Unfinished, Active
<1>. QED
  BY <1>1, <1>2, <1>3 DEF IInv


LEMMA AgentStopsIInv ==
  ASSUME IInv, NEW i \in Instance, AgentStops(i)
  PROVE  IInv'
<1>1. /\ inbox' = [inbox EXCEPT ![i] = {}] /\ UNCHANGED <<inst, lease, command, acks, operator, open>>
      /\ inbox \in [Instance -> SUBSET [cmd : 1..MaxCommands, token : 1..MaxClaims]]
  BY DEF AgentStops, controlVars, IInv, TypeOK
<1>2. /\ inbox' \in [Instance -> SUBSET [cmd : 1..MaxCommands, token : 1..MaxClaims]]
      /\ \A j \in Instance : inbox'[j] \subseteq inbox[j]
  BY <1>1
<1>. QED
  BY <1>1, <1>2, TablesKept

\* A refused acknowledgement, and a match that ends by itself.
LEMMA OutsideIInv ==
  ASSUME IInv, UNCHANGED <<inst, lease, command, inbox, operator>>, open' \subseteq open, acks' \subseteq acks
  PROVE  IInv'
<1>1. /\ inbox' \in [Instance -> SUBSET [cmd : 1..MaxCommands, token : 1..MaxClaims]]
      /\ \A j \in Instance : inbox'[j] \subseteq inbox[j]
  BY DEF IInv, TypeOK
<1>. QED
  BY <1>1, TablesKept

-----------------------------------------------------------------------------
(* The acknowledgements.                                                   *)

LEMMA AckAcceptedIInv ==
  ASSUME IInv, NEW a \in acks, AckAccepted(a)
  PROVE  IInv'
<1> DEFINE c == a.cmd
           i == command[c].inst
           row == Answered(c, a.ok)
           after == InstanceAfter(c, a.ok, a.state)
<1>1. /\ a \in Ack /\ c \in DOMAIN command /\ command[c] \in Command /\ i \in Instance
      /\ command[c].status = "claimed"
  BY RowTypes DEF IInv, TypeOK, MessageShape, AckAccepted
<1>2. /\ command' = [command EXCEPT ![c] = row] /\ inst' = [inst EXCEPT ![i] = after]
      /\ acks' = acks \ {a} /\ UNCHANGED <<open, lease, inbox, operator>>
      /\ command[c].attempts = a.token
  BY DEF AckAccepted
<1>3. /\ row \in Command /\ row.type = command[c].type /\ row.inst = i
      /\ row.lease = command[c].lease /\ row.attempts = command[c].attempts
      /\ row.status \in {"completed", "failed", "pending"}
      /\ a.ok => row.status = "completed"
      /\ ~a.ok => row.status = IF command[c].attempts >= MaxAttempts THEN "failed" ELSE "pending"
  BY <1>1 DEF Answered, Command, Ack
<1>4. /\ after \in [state : InstanceState, lease : LeaseRef]
      /\ inst[i] \in [state : InstanceState, lease : LeaseRef]
  <2>1. inst[i] \in [state : InstanceState, lease : LeaseRef]
    BY <1>1, RowTypes
  <2>2. a.state \in {"ready", "offline"} /\ 0 \in LeaseRef
    BY <1>1, ControlAssumption DEF Ack, LeaseRef
  <2>. QED
    BY <2>1, <2>2 DEF InstanceAfter, InstanceState, NoLease
<1> HIDE DEF row, after
<1>5. /\ command' \in Seq(Command) /\ Len(command') = Len(command)
      /\ DOMAIN command' = DOMAIN command
      /\ command'[c] = row /\ \A d \in DOMAIN command : d # c => command'[d] = command[d]
  BY <1>1, <1>2, <1>3, RowTypes
<1>6. \A d \in DOMAIN command :
        /\ command'[d].type = command[d].type /\ command'[d].inst = command[d].inst
        /\ command'[d].lease = command[d].lease /\ command'[d].attempts = command[d].attempts
        /\ Unfinished(d)' => Unfinished(d)
        /\ Clearing(d)' => Clearing(d)
  BY <1>1, <1>3, <1>5 DEF Unfinished, Clearing
<1>7. /\ inst'[i] = after /\ inst' \in [Instance -> [state : InstanceState, lease : LeaseRef]]
      /\ \A j \in Instance : j # i => inst'[j] = inst[j]
  BY <1>1, <1>2, <1>4, RowTypes
<1>8. TypeOK'
  BY <1>2, <1>5, <1>7 DEF IInv, TypeOK
<1>9. OneLease'
  BY <1>2 DEF IInv, OneLease, Active
<1>10. MessageShape'
  <2>1. ASSUME NEW j \in Instance, NEW x \in inbox[j]
        PROVE  x.cmd # c
    BY <1>1, <1>2 DEF IInv, MessageShape
  <2>. QED
    BY <1>2, <1>5, <1>6, <2>1 DEF IInv, MessageShape
\* What the step may do to the instance.
<1>11. \/ after = inst[i]
       \/ after.state = "quarantined" /\ (after.lease = NoLease \/ after.lease = inst[i].lease)
       \/ /\ a.ok /\ command[c].type \in {"drain", "unquarantine"}
          /\ command[c].type = "drain" => inst[i].state = "draining"
          /\ after.lease = inst[i].lease /\ after.state \in {"ready", "offline"}
  BY <1>1, <1>4 DEF InstanceAfter, after, Ack
<1>12. CASE after = inst[i]
  <2>1. inst' = inst
    BY <1>1, <1>2, <1>12, RowTypes
  <2>2. PointerShape' /\ LeaseShape'
    BY <1>2, <2>1 DEF IInv, PointerShape, LeaseShape, Active
  <2>3. CommandShape'
    BY <1>2, <1>5, <1>6, <2>1 DEF IInv, CommandShape, Active
  <2>. QED
    BY <1>8, <1>9, <1>10, <2>2, <2>3 DEF IInv
<1>13. CASE after.state = "quarantined" /\ (after.lease = NoLease \/ after.lease = inst[i].lease)
  <2>1. \A j \in Instance :
          \/ inst'[j] = inst[j]
          \/ /\ inst'[j].state = "quarantined"
             /\ inst'[j].lease = NoLease \/ inst'[j].lease = inst[j].lease
    BY <1>7, <1>13
  <2>2. PointerShape'
    BY <1>2, <2>1 DEF IInv, PointerShape, Active
  <2>3. LeaseShape'
    BY <1>2, <2>1, RowTypes DEF IInv, LeaseShape, Active
  <2>4. CommandShape'
    BY <1>2, <1>5, <1>6, <2>1, RowTypes DEF IInv, CommandShape, Active
  <2>. QED
    BY <1>8, <1>9, <1>10, <2>2, <2>3, <2>4 DEF IInv
<1>14. CASE /\ a.ok /\ command[c].type \in {"drain", "unquarantine"}
            /\ command[c].type = "drain" => inst[i].state = "draining"
            /\ after.lease = inst[i].lease /\ after.state \in {"ready", "offline"}
  <2>1. Clearing(c) /\ \A l \in DOMAIN lease : lease[l].inst = i => ~Active(l)
    BY <1>1, <1>14 DEF IInv, CommandShape, Clearing, Unfinished
  <2>2. PointerShape'
    BY <1>2, <1>7, <1>14 DEF IInv, PointerShape, Active
  <2>3. LeaseShape'
    BY <1>2, <1>7, <2>1, RowTypes DEF IInv, LeaseShape, Active
  <2>4. ~Clearing(c)'
    BY <1>3, <1>5, <1>14 DEF Clearing, Unfinished
  <2>5. ASSUME NEW d \in DOMAIN command, Clearing(d)'
        PROVE  d # c /\ command[d].inst # i
    <3>1. d # c /\ Clearing(d)
      BY <1>6, <2>4, <2>5
    <3>2. ASSUME command[d].inst = i PROVE FALSE
      <4>1. command[c].type = "drain" /\ command[d].type = "quarantine"
        BY <1>1, <1>14, <2>1, <3>1, <3>2 DEF IInv, CommandShape, Clearing
      <4>2. inst[i].state = "quarantined"
        BY <3>1, <3>2, <4>1 DEF IInv, CommandShape
      <4>. QED
        BY <1>14, <4>1, <4>2
    <3>. QED
      BY <3>1, <3>2
  <2>6. CommandShape'
    BY <1>2, <1>5, <1>6, <1>7, <2>5, RowTypes DEF IInv, CommandShape, Active
  <2>. QED
    BY <1>8, <1>9, <1>10, <2>2, <2>3, <2>6 DEF IInv
<1>. QED
  BY <1>11, <1>12, <1>13, <1>14

-----------------------------------------------------------------------------
(* The theorems.                                                           *)

\* Every step keeps the invariant.
LEMMA NextIInv == IInv /\ [Next]_vars => IInv'
<1> SUFFICES ASSUME IInv, [Next]_vars PROVE IInv'
  OBVIOUS
<1>1. ASSUME NEW m \in Match, MatchEnds(m) PROVE IInv'
  BY <1>1, OutsideIInv DEF MatchEnds, agentVars
<1>2. ASSUME NEW m \in Match, NEW i \in Instance, LeaseReadyServer(m, i) PROVE IInv'
  BY <1>2, LeaseReadyServerIInv
<1>3. ASSUME NEW l \in DOMAIN lease, SynchronizeRoster(l) PROVE IInv'
  BY <1>3, SynchronizeRosterIInv
<1>4. ASSUME NEW l \in DOMAIN lease, ReleaseLease(l) PROVE IInv'
  BY <1>4, ReleaseLeaseIInv
<1>5. ASSUME NEW l \in DOMAIN lease, ExpireLease(l) PROVE IInv'
  BY <1>5, ExpireLeaseIInv
<1>6. ASSUME NEW i \in Instance, WakeServer(i) PROVE IInv'
  BY <1>6, WakeServerIInv
<1>7. ASSUME NEW i \in Instance, AnyHeartbeat(i) PROVE IInv'
  <2>1. PICK report \in Reported, defer \in BOOLEAN :
          \E failing \in {FALSE, Unreachable(i, report, TRUE)} :
          \E changed \in {FALSE, InventoryChanged(i, report, defer, TRUE)} :
          \E lapsed, due : Heartbeat(i, report, failing, defer, changed, lapsed, due)
    BY <1>7 DEF AnyHeartbeat
  <2>2. PICK failing \in {FALSE, Unreachable(i, report, TRUE)},
             changed \in {FALSE, InventoryChanged(i, report, defer, TRUE)} :
          \E lapsed, due : Heartbeat(i, report, failing, defer, changed, lapsed, due)
    BY <2>1
  <2>5. PICK lapsed, due : Heartbeat(i, report, failing, defer, changed, lapsed, due)
    BY <2>2
  <2>3. failing \in BOOLEAN
    BY Zenon DEF Unreachable
  <2>4. changed \in BOOLEAN
    BY Zenon DEF InventoryChanged
  <2>. QED
    BY <2>3, <2>4, <2>5, HeartbeatIInv
<1>8. ASSUME NEW i \in Instance, AgentStops(i) PROVE IInv'
  BY <1>8, AgentStopsIInv
<1>9. ASSUME NEW i \in Instance, OperatorQuarantines(i) PROVE IInv'
  BY <1>9, OperatorQuarantinesIInv
<1>10. ASSUME NEW i \in Instance, OperatorReturns(i) PROVE IInv'
  BY <1>10, OperatorReturnsIInv
<1>11. ASSUME NEW i \in Instance, NEW x \in inbox[i], Execute(i, x) PROVE IInv'
  BY <1>11, ExecuteIInv
<1>12. ASSUME NEW a \in acks, AckAccepted(a) PROVE IInv'
  BY <1>12, AckAcceptedIInv
<1>13. ASSUME NEW a \in acks, AckRefused(a) PROVE IInv'
  BY <1>13, OutsideIInv DEF AckRefused, controlVars
<1>14. CASE UNCHANGED vars
  BY <1>14, OutsideIInv DEF vars, controlVars, agentVars
<1>. QED
  BY <1>1, <1>2, <1>3, <1>4, <1>5, <1>6, <1>7, <1>8, <1>9, <1>10, <1>11, <1>12, <1>13, <1>14 DEF Next

THEOREM Invariant == Spec => []IInv
<1>. QED
  BY InitIInv, NextIInv, PTL DEF Spec

\* The rows, the queue and the messages have their types.
THEOREM TypeCorrect == Spec => []TypeOK
<1>1. IInv => TypeOK
  BY DEF IInv
<1>. QED
  BY <1>1, Invariant, PTL

\* An instance is leased only once its last match has been drained.
THEOREM Drained == Spec => []DrainedBeforeLease
<1>1. IInv => DrainedBeforeLease
  <2> SUFFICES ASSUME IInv, NEW i \in Instance, inst[i].state = "leased"
               PROVE  /\ \A c \in UnfinishedOf(i) : command[c].type # "drain"
                      /\ \A x \in inbox[i] : command[x.cmd].type # "drain"
    BY DEF DrainedBeforeLease
  <2>1. ASSUME NEW c \in UnfinishedOf(i) PROVE command[c].type # "drain"
    BY <2>1 DEF UnfinishedOf, IInv, CommandShape, Clearing
  <2>2. \A x \in inbox[i] : x.cmd \in UnfinishedOf(i)
    BY DEF UnfinishedOf, Unfinished, IInv, MessageShape
  <2>. QED
    BY <2>1, <2>2
<1>. QED
  BY <1>1, Invariant, PTL

\* An instance whose lease failed is out of service until the answer.
THEOREM FailuresStayOut == Spec => []FailureStaysOut
<1>1. IInv => FailureStaysOut
  BY DEF FailureStaysOut, UnfinishedOf, IInv, CommandShape, Clearing
<1>. QED
  BY <1>1, Invariant, PTL

\* The pool holds only instances without a lease.
THEOREM PoolIsFree == Spec => []ReadyIsFree
<1>1. IInv => ReadyIsFree
  <2> SUFFICES ASSUME IInv, NEW i \in Instance
               PROVE  /\ inst[i].state \notin {"leased", "quarantined"} => ActiveOn(i) = {}
                      /\ inst[i].state = "leased" => ActiveOn(i) = {inst[i].lease}
    BY DEF ReadyIsFree
  <2>1. inst[i].state \notin {"leased", "quarantined"} => ActiveOn(i) = {}
    BY DEF IInv, LeaseShape, ActiveOn
  <2>2. inst[i].state = "leased" => ActiveOn(i) = {inst[i].lease}
    BY DEF IInv, PointerShape, OneLease, ActiveOn
  <2>. QED
    BY <2>1, <2>2
<1>. QED
  BY <1>1, Invariant, PTL

\* A quarantined instance without a lease comes back by an operator's command.
THEOREM QuarantineIsHeld == Spec => QuarantineHolds
<1> DEFINE Returned(i) ==
      inst[i].state = "quarantined" /\ ActiveOn(i) = {} /\ inst'[i].state # "quarantined"
        => \E c \in UnfinishedOf(i) :
             command[c].type = "unquarantine" /\ command'[c].status = "completed"
<1>1. IInv /\ [Next]_vars => \A i \in Instance : Returned(i)
  <2> SUFFICES ASSUME IInv, [Next]_vars, NEW j \in Instance,
                      inst[j].state = "quarantined", ActiveOn(j) = {}, inst'[j].state # "quarantined"
               PROVE  \E c \in UnfinishedOf(j) :
                        command[c].type = "unquarantine" /\ command'[c].status = "completed"
    OBVIOUS
  <2> USE RowTypes
  <2>1. ASSUME NEW l \in DOMAIN lease, Active(l) PROVE lease[l].inst # j
    BY <2>1 DEF ActiveOn
  <2>2. inst[j].lease = NoLease
    BY DEF IInv, PointerShape, ActiveOn
  <2>3. ASSUME NEW m \in Match, NEW i \in Instance, LeaseReadyServer(m, i) PROVE FALSE
    BY <2>3 DEF LeaseReadyServer
  <2>4. ASSUME NEW l \in DOMAIN lease, ReleaseLease(l) \/ ExpireLease(l) \/ SynchronizeRoster(l) PROVE FALSE
    BY <2>1, <2>4 DEF ReleaseLease, ExpireLease, SynchronizeRoster, LeaseFails
  <2>5. ASSUME NEW i \in Instance, WakeServer(i) PROVE FALSE
    BY <2>5 DEF WakeServer
  <2>6. ASSUME NEW i \in Instance, AnyHeartbeat(i) PROVE FALSE
    <3>0. PICK report \in Reported, defer \in BOOLEAN :
            \E failing, changed, lapsed, due : Heartbeat(i, report, failing, defer, changed, lapsed, due)
      BY <2>6 DEF AnyHeartbeat
    <3>1. PICK failing, changed, lapsed, due : Heartbeat(i, report, failing, defer, changed, lapsed, due)
      BY <3>0
    <3>2. CASE Unreachable(i, report, failing)
      <4>1. \E pendingResult \in BOOLEAN : LeaseFails(inst[i].lease, pendingResult)
        BY <3>1, <3>2 DEF Heartbeat
      <4>. QED
        BY <4>1 DEF LeaseFails
    <3>3. CASE ~Unreachable(i, report, failing)
      <4>1. inst' = [inst EXCEPT ![i].state = IF @ \in Kept THEN @ ELSE report]
        BY <3>1, <3>3 DEF Heartbeat
      <4>. QED
        BY <4>1 DEF Kept
    <3>. QED
      BY <3>2, <3>3
  <2>7. ASSUME NEW a \in acks, AckAccepted(a)
        PROVE  \E c \in UnfinishedOf(j) :
                 command[c].type = "unquarantine" /\ command'[c].status = "completed"
    <3>1. /\ a.cmd \in DOMAIN command /\ command[a.cmd].inst \in Instance /\ a \in Ack
      BY DEF IInv, MessageShape, TypeOK
    <3>2. command[a.cmd].inst = j /\ InstanceAfter(a.cmd, a.ok, a.state).state # "quarantined"
      BY <2>7, <3>1 DEF AckAccepted
    <3>3. a.ok /\ command[a.cmd].type = "unquarantine"
      BY <3>1, <3>2 DEF InstanceAfter, Ack
    <3>4. command'[a.cmd].status = "completed" /\ command[a.cmd].status = "claimed"
      BY <2>7, <3>1, <3>3 DEF AckAccepted, Answered, Command
    <3>. QED
      BY <3>1, <3>2, <3>3, <3>4 DEF UnfinishedOf, Unfinished
  <2>8. ASSUME inst' = inst PROVE FALSE
    BY <2>8
  <2>. QED
    BY <2>3, <2>4, <2>5, <2>6, <2>7, <2>8
    DEF Next, MatchEnds, AgentStops, OperatorQuarantines, OperatorReturns, Execute, AckRefused,
        vars, controlVars
<1>2. (\A i \in Instance : Returned(i)) => [\A i \in Instance : Returned(i)]_vars
  OBVIOUS
<1>. QED
  BY <1>1, Invariant, PTL DEF Spec, QuarantineHolds

-----------------------------------------------------------------------------
(* NodeControl implements LeaseService, for matches and for instances.     *)

\* What a step may do to the table of leases.
Granted(m, i) ==
  /\ ActiveOf(m) = {} /\ ActiveOn(i) = {}
  /\ lease' = Append(lease, [match |-> m, inst |-> i, status |-> "active"])
Ended(l) ==
  /\ Active(l)
  /\ \E s \in {"released", "expired"} : lease' = [lease EXCEPT ![l].status = s]

LEMMA LeaseSteps ==
  ASSUME IInv, [Next]_vars
  PROVE  \/ lease' = lease
         \/ \E m \in Match, i \in Instance : Granted(m, i)
         \/ \E l \in DOMAIN lease : Ended(l)
<1>1. ASSUME NEW m \in Match, NEW i \in Instance, LeaseReadyServer(m, i) PROVE Granted(m, i)
  BY <1>1 DEF LeaseReadyServer, Granted
<1>2. ASSUME NEW l \in DOMAIN lease, ReleaseLease(l) PROVE Ended(l)
  BY <1>2 DEF ReleaseLease, Ended
<1>3. ASSUME NEW l \in DOMAIN lease, ExpireLease(l) PROVE Ended(l)
  BY <1>3 DEF ExpireLease, LeaseFails, Ended
<1>4. ASSUME NEW i \in Instance, AnyHeartbeat(i)
      PROVE  lease' = lease \/ \E l \in DOMAIN lease : Ended(l)
  <2>0. PICK report \in Reported, defer \in BOOLEAN :
          \E failing, changed, lapsed, due : Heartbeat(i, report, failing, defer, changed, lapsed, due)
    BY <1>4 DEF AnyHeartbeat
  <2>1. PICK failing, changed, lapsed, due : Heartbeat(i, report, failing, defer, changed, lapsed, due)
    BY <2>0
  <2>2. CASE Unreachable(i, report, failing)
    <3>1. \E pendingResult \in BOOLEAN : LeaseFails(inst[i].lease, pendingResult)
      BY <2>1, <2>2 DEF Heartbeat
    <3>2. inst[i].lease \in DOMAIN lease /\ Active(inst[i].lease)
      BY <2>2 DEF Unreachable, IInv, PointerShape
    <3>. QED
      BY <3>1, <3>2 DEF LeaseFails, Ended
  <2>3. CASE ~Unreachable(i, report, failing)
    BY <2>1, <2>3 DEF Heartbeat
  <2>. QED
    BY <2>2, <2>3
<1>. QED
  BY <1>1, <1>2, <1>3, <1>4
  DEF Next, MatchEnds, SynchronizeRoster, WakeServer, AgentStops, OperatorQuarantines,
      OperatorReturns, Execute, AckAccepted, AckRefused, vars, controlVars

LEMMA TokenOfOne == TokenOf({}) = 0 /\ \A n : TokenOf({n}) = n
BY DEF TokenOf

\* A new lease and the end of one, in terms of the active leases.
LEMMA GrantedSets ==
  ASSUME IInv, NEW m \in Match, NEW i \in Instance, Granted(m, i)
  PROVE  /\ Len(lease') = Len(lease) + 1 /\ Len(lease) \in Nat
         /\ ActiveOf(m)' = {Len(lease')} /\ ActiveOn(i)' = {Len(lease')}
         /\ \A k \in Match : k # m => ActiveOf(k)' = ActiveOf(k)
         /\ \A k \in Instance : k # i => ActiveOn(k)' = ActiveOn(k)
<1> DEFINE row == [match |-> m, inst |-> i, status |-> "active"]
<1>1. row \in Lease /\ lease \in Seq(Lease) /\ lease' = Append(lease, row)
  BY RowTypes DEF Lease, Granted
<1>2. /\ Len(lease') = Len(lease) + 1 /\ Len(lease) \in Nat
      /\ DOMAIN lease' = DOMAIN lease \cup {Len(lease) + 1}
      /\ lease'[Len(lease) + 1] = row
      /\ \A k \in DOMAIN lease : k # Len(lease) + 1 /\ lease'[k] = lease[k]
  BY <1>1, AppendRow, RowTypes
<1>. QED
  BY <1>2 DEF Granted, ActiveOf, ActiveOn, Active

LEMMA EndedSets ==
  ASSUME IInv, NEW l \in DOMAIN lease, Ended(l)
  PROVE  /\ Len(lease') = Len(lease)
         /\ lease'[l].match = lease[l].match /\ lease'[l].inst = lease[l].inst
         /\ ActiveOf(lease[l].match) = {l} /\ ActiveOn(lease[l].inst) = {l} /\ l # 0
         /\ ActiveOf(lease[l].match)' = {} /\ ActiveOn(lease[l].inst)' = {}
         /\ \A k \in Match : k # lease[l].match => ActiveOf(k)' = ActiveOf(k)
         /\ \A k \in Instance : k # lease[l].inst => ActiveOn(k)' = ActiveOn(k)
<1>1. PICK s \in {"released", "expired"} : lease' = [lease EXCEPT ![l].status = s]
  BY DEF Ended
<1>2. /\ Len(lease') = Len(lease) /\ DOMAIN lease' = DOMAIN lease /\ l # 0
      /\ lease'[l].status = s /\ \A k \in DOMAIN lease : k # l => lease'[k] = lease[k]
      /\ \A k \in DOMAIN lease :
           lease'[k].match = lease[k].match /\ lease'[k].inst = lease[k].inst
  BY <1>1, RowTypes DEF Lease
<1>3. /\ Active(l)
      /\ \A k \in DOMAIN lease : k # l /\ Active(k) =>
           lease[k].match # lease[l].match /\ lease[k].inst # lease[l].inst
  BY DEF IInv, OneLease, Ended
<1>4. \A k \in DOMAIN lease : Active(k)' <=> Active(k) /\ k # l
  BY <1>2 DEF Active
<1>. QED
  BY <1>2, <1>3, <1>4 DEF ActiveOf, ActiveOn, Active

\* A match has one lease at a time, under a token higher than all before.
THEOREM MatchesLeaseOnce == Spec => LeasesPerMatch
<1> DEFINE held == [m \in Match |-> TokenOf(ActiveOf(m))]
<1>1. Init => MatchLeases!Init
  BY DEF Init, MatchLeases!Init, ActiveOf, TokenOf
<1>2. IInv /\ [Next]_vars => [MatchLeases!Next]_(MatchLeases!leaseVars)
  <2> SUFFICES ASSUME IInv, [Next]_vars, ~UNCHANGED MatchLeases!leaseVars PROVE MatchLeases!Next
    OBVIOUS
  <2>1. lease' # lease
    BY DEF MatchLeases!leaseVars, ActiveOf, Active
  <2>2. ASSUME NEW m \in Match, NEW i \in Instance, Granted(m, i) PROVE MatchLeases!Grant(m)
    <3>1. held' = [held EXCEPT ![m] = Len(lease')]
      BY <2>2, GrantedSets, TokenOfOne
    <3>2. held[m] = 0
      BY <2>2 DEF Granted, TokenOf
    <3>. QED
      BY <2>2, <3>1, <3>2, GrantedSets DEF MatchLeases!Grant
  <2>3. ASSUME NEW l \in DOMAIN lease, Ended(l) PROVE MatchLeases!End(lease[l].match)
    <3>1. held' = [held EXCEPT ![lease[l].match] = 0]
      BY <2>3, EndedSets, TokenOfOne, RowTypes
    <3>2. held[lease[l].match] = l /\ l # 0
      BY <2>3, EndedSets, TokenOfOne, RowTypes
    <3>. QED
      BY <2>3, <3>1, <3>2, EndedSets DEF MatchLeases!End
  <2>. QED
    BY <2>1, <2>2, <2>3, LeaseSteps, RowTypes DEF MatchLeases!Next
<1>. QED
  BY <1>1, <1>2, Invariant, PTL DEF Spec, LeasesPerMatch, MatchLeases!Spec

\* An instance has one lease at a time, under a token higher than all before.
THEOREM InstancesLeaseOnce == Spec => LeasesPerInstance
<1> DEFINE held == [i \in Instance |-> TokenOf(ActiveOn(i))]
<1>1. Init => InstanceLeases!Init
  BY DEF Init, InstanceLeases!Init, ActiveOn, TokenOf
<1>2. IInv /\ [Next]_vars => [InstanceLeases!Next]_(InstanceLeases!leaseVars)
  <2> SUFFICES ASSUME IInv, [Next]_vars, ~UNCHANGED InstanceLeases!leaseVars PROVE InstanceLeases!Next
    OBVIOUS
  <2>1. lease' # lease
    BY DEF InstanceLeases!leaseVars, ActiveOn, Active
  <2>2. ASSUME NEW m \in Match, NEW i \in Instance, Granted(m, i) PROVE InstanceLeases!Grant(i)
    <3>1. held' = [held EXCEPT ![i] = Len(lease')]
      BY <2>2, GrantedSets, TokenOfOne
    <3>2. held[i] = 0
      BY <2>2 DEF Granted, TokenOf
    <3>. QED
      BY <2>2, <3>1, <3>2, GrantedSets DEF InstanceLeases!Grant
  <2>3. ASSUME NEW l \in DOMAIN lease, Ended(l) PROVE InstanceLeases!End(lease[l].inst)
    <3>1. held' = [held EXCEPT ![lease[l].inst] = 0]
      BY <2>3, EndedSets, TokenOfOne, RowTypes
    <3>2. held[lease[l].inst] = l /\ l # 0
      BY <2>3, EndedSets, TokenOfOne, RowTypes
    <3>. QED
      BY <2>3, <3>1, <3>2, EndedSets DEF InstanceLeases!End
  <2>. QED
    BY <2>1, <2>2, <2>3, LeaseSteps, RowTypes DEF InstanceLeases!Next
<1>. QED
  BY <1>1, <1>2, Invariant, PTL DEF Spec, LeasesPerInstance, InstanceLeases!Spec
=============================================================================
