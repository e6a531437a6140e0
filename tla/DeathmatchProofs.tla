--------------------------- MODULE DeathmatchProofs ---------------------------
(***************************************************************************)
(* Players are assigned to a deathmatch only when its server has them, and *)
(* a failed call undoes nothing of another's, for every number of players, *)
(* tickets, calls, sessions and seats.                                     *)
(***************************************************************************)
EXTENDS Deathmatch, TLAPS

Placed == {"read", "lease", "prepare", "sync", "wait", "grant", "assign"}
Hosting == {"prepare", "sync", "wait", "grant", "assign"}
OpenStates == {"pending", "live"}

\* What a server has is in the manifest, and what is in the manifest in the session.
Rosters == \A s \in Session : served[s] \subseteq manifest[s] /\ manifest[s] \subseteq roster[s]

\* What a call has achieved by the step it is at.
Underway(c) ==
  LET k == call[c] IN
  /\ k.pc = "find" => k.player \in Player
  /\ k.pc \in Placed \cup {"place"} => k.ticket \in Ticket /\ entry[k.ticket].phase # "none"
  /\ k.pc \in Placed => /\ k.session \in Session /\ session[k.session] # "none"
                        /\ entry[k.ticket].members \subseteq roster[k.session]
  /\ k.pc = "lease" => k.need \subseteq roster[k.session]
  /\ k.pc \in Hosting /\ session[k.session] \in OpenStates => k.session \in hosted
  /\ k.pc = "wait" => entry[k.ticket].members \subseteq k.need
  /\ k.pc \in {"grant", "assign"} /\ ~k.blind /\ session[k.session] \in OpenStates =>
       entry[k.ticket].members \subseteq served[k.session]
  /\ k.pc \in {"refresh", "set"} => k.session \in Session
  /\ k.pc = "set" => k.ticket \in Ticket /\ entry[k.ticket].phase \in {"assigned", "gone"}

DropInIInv == DeathmatchTypeOK /\ Rosters /\ \A c \in Call : Underway(c)

PC == {"idle", "find", "place", "read", "lease", "prepare", "sync",
       "wait", "grant", "assign", "refresh", "set", "undo"}
CallRow == [pc : PC, player : Player \cup {"none"}, ticket : Ticket \cup {"none"},
            session : Session \cup {"none"}, need : SUBSET Player, blind : BOOLEAN]

LEMMA InitDropIn == DeathmatchInit => DropInIInv
<1> SUFFICES ASSUME DeathmatchInit PROVE DropInIInv
  OBVIOUS
<1>1. DeathmatchTypeOK
  BY DeathmatchAssumption DEF DeathmatchInit, DeathmatchTypeOK, Blank, Asleep
<1>2. Rosters /\ \A c \in Call : Underway(c)
  BY DEF DeathmatchInit, Rosters, Underway, Asleep, Placed, Hosting
<1>. QED
  BY <1>1, <1>2 DEF DropInIInv

\* What every step does to the others' calls: tickets advance, rosters grow,
\* and a session that is played keeps its server and what the server has.
Advance ==
  /\ \A t \in Ticket : entry[t].phase # "none" =>
       /\ entry'[t].phase # "none" /\ entry'[t].members = entry[t].members
       /\ entry[t].phase \in {"assigned", "gone"} => entry'[t].phase \in {"assigned", "gone"}
  /\ \A s \in Session :
       /\ roster[s] \subseteq roster'[s]
       /\ session[s] # "none" => /\ session'[s] # "none"
                                 /\ session'[s] \in OpenStates => session[s] \in OpenStates
       /\ session'[s] \in OpenStates /\ s \in hosted => s \in hosted' /\ served[s] \subseteq served'[s]

LEMMA OthersStay ==
  ASSUME DropInIInv, Advance, NEW c \in Call, call'[c] = call[c]
  PROVE  Underway(c)'
<1>. DEFINE k == call[c]
<1>1. Underway(c)
  BY DEF DropInIInv
<1>2. k.pc \in Placed \cup {"place", "set"} =>
        /\ k.ticket \in Ticket /\ entry[k.ticket].phase # "none"
        /\ entry'[k.ticket].phase # "none" /\ entry'[k.ticket].members = entry[k.ticket].members
  BY <1>1 DEF Underway, Advance
<1>3. k.pc \in Placed =>
        /\ k.session \in Session /\ session[k.session] # "none" /\ session'[k.session] # "none"
        /\ session'[k.session] \in OpenStates => session[k.session] \in OpenStates
        /\ roster[k.session] \subseteq roster'[k.session]
  BY <1>1 DEF Underway, Advance
<1>4. k.pc \in Hosting /\ session'[k.session] \in OpenStates =>
        k.session \in hosted' /\ served[k.session] \subseteq served'[k.session]
  BY <1>1, <1>3 DEF Underway, Advance, Hosting, Placed
<1>5. k.pc = "set" => entry'[k.ticket].phase \in {"assigned", "gone"}
  BY <1>1, <1>2 DEF Underway, Advance
<1>. QED
  BY <1>1, <1>2, <1>3, <1>4, <1>5 DEF Underway, Placed, Hosting

\* A step of a call that changes nothing but the call.
LEMMA NothingElse ==
  ASSUME DropInIInv, NEW c \in Call, NEW k \in CallRow, call' = [call EXCEPT ![c] = k],
         UNCHANGED <<queueVars, matchVars, leaseVars, mishaps>>, Underway(c)'
  PROVE  DropInIInv'
<1>1. DeathmatchTypeOK'
  BY DEF DropInIInv, DeathmatchTypeOK, CallRow, PC, queueVars, matchVars, leaseVars
<1>2. Rosters'
  BY DEF DropInIInv, Rosters, matchVars, leaseVars
<1>3. Advance
  BY DEF Advance, queueVars, matchVars, leaseVars
<1>4. \A d \in Call \ {c} : Underway(d)'
  BY <1>3, OthersStay DEF DropInIInv, DeathmatchTypeOK
<1>. QED
  BY <1>1, <1>2, <1>4 DEF DropInIInv

LEMMA CallTypes ==
  ASSUME DropInIInv, NEW c \in Call
  PROVE  /\ call[c] \in CallRow /\ Underway(c)
         /\ \A pc \in PC : Goto(c, pc) =>
              /\ call' = [call EXCEPT ![c] = [call[c] EXCEPT !.pc = pc]]
              /\ [call[c] EXCEPT !.pc = pc] \in CallRow
         /\ Fail(c) => /\ call' = [call EXCEPT ![c] = [Asleep EXCEPT !.pc = "undo", !.ticket = call[c].ticket]]
                       /\ [Asleep EXCEPT !.pc = "undo", !.ticket = call[c].ticket] \in CallRow
         /\ Asleep \in CallRow
<1>1. call[c] \in CallRow /\ Underway(c)
  BY DEF DropInIInv, DeathmatchTypeOK, CallRow, PC
<1>2. ASSUME NEW pc \in PC, Goto(c, pc)
      PROVE  /\ call' = [call EXCEPT ![c] = [call[c] EXCEPT !.pc = pc]]
             /\ [call[c] EXCEPT !.pc = pc] \in CallRow
  BY <1>1, <1>2 DEF Goto, DropInIInv, DeathmatchTypeOK, CallRow, PC
<1>3. Asleep \in CallRow /\ [Asleep EXCEPT !.pc = "undo", !.ticket = call[c].ticket] \in CallRow
  BY <1>1 DEF Asleep, CallRow, PC
<1>. QED
  BY <1>1, <1>2, <1>3 DEF Fail

\* The types of everything but the calls.
WorldTypeOK ==
  /\ entry \in [Ticket -> [phase : {"none", "searching", "assigned", "gone"},
                           members : SUBSET Player, leader : Player \cup {"none"},
                           session : Session \cup {"none"}]]
  /\ pointer \in [Player -> Ticket \cup {"none"}]
  /\ population \in [Session -> SUBSET Player]
  /\ session \in [Session -> {"none", "pending", "live", "ended"}]
  /\ roster \in [Session -> SUBSET Player]
  /\ manifest \in [Session -> SUBSET Player]
  /\ served \in [Session -> SUBSET Player]
  /\ hosted \subseteq Session /\ overtaken \subseteq Session
  /\ mishaps \in 0..DropInFaults

LEMMA TwoTypes ==
  /\ DeathmatchTypeOK <=> WorldTypeOK /\ call \in [Call -> CallRow]
  /\ DeathmatchTypeOK' <=> WorldTypeOK' /\ call' \in [Call -> CallRow]
BY DEF DeathmatchTypeOK, WorldTypeOK, CallRow, PC

\* A step of call c, and a step of nobody's call.
LEMMA CallStep ==
  ASSUME DropInIInv, NEW c \in Call, NEW k \in CallRow, call' = [call EXCEPT ![c] = k],
         WorldTypeOK', Rosters', Advance, Underway(c)'
  PROVE  DropInIInv'
<1>1. call \in [Call -> CallRow]
  BY TwoTypes DEF DropInIInv
<1>2. \A d \in Call \ {c} : Underway(d)'
  BY <1>1, OthersStay
<1>. QED
  BY <1>1, <1>2, TwoTypes DEF DropInIInv

LEMMA WorldStep ==
  ASSUME DropInIInv, UNCHANGED call, WorldTypeOK', Rosters', Advance
  PROVE  DropInIInv'
<1>1. \A d \in Call : Underway(d)'
  BY OthersStay
<1>. QED
  BY <1>1, TwoTypes DEF DropInIInv

LEMMA Resting ==
  ASSUME NEW c \in Call, call'[c].pc \in {"idle", "undo"}
  PROVE  Underway(c)'
BY DEF Underway, Placed, Hosting

\* The tickets that are removed are gone, and nothing else happens to a ticket.
LEMMA RemoveAdvances ==
  ASSUME DropInIInv, NEW ts, Remove(ts), UNCHANGED <<session, roster, hosted, served>>
  PROVE  /\ entry' \in [Ticket -> [phase : {"none", "searching", "assigned", "gone"},
                                   members : SUBSET Player, leader : Player \cup {"none"},
                                   session : Session \cup {"none"}]]
         /\ pointer' \in [Player -> Ticket \cup {"none"}]
         /\ Advance
<1>1. WorldTypeOK
  BY TwoTypes DEF DropInIInv
<1>2. \A t \in Ticket : entry'[t] = IF t \in ts THEN [entry[t] EXCEPT !.phase = "gone"] ELSE entry[t]
  BY DEF Remove
<1>3. \A t \in Ticket :
        /\ [entry[t] EXCEPT !.phase = "gone"] \in
             [phase : {"none", "searching", "assigned", "gone"},
              members : SUBSET Player, leader : Player \cup {"none"}, session : Session \cup {"none"}]
        /\ [entry[t] EXCEPT !.phase = "gone"].phase = "gone"
        /\ [entry[t] EXCEPT !.phase = "gone"].members = entry[t].members
  BY <1>1 DEF WorldTypeOK
<1>4. entry' \in [Ticket -> [phase : {"none", "searching", "assigned", "gone"},
                             members : SUBSET Player, leader : Player \cup {"none"},
                             session : Session \cup {"none"}]]
  BY <1>1, <1>3 DEF Remove, WorldTypeOK
<1>5. pointer' \in [Player -> Ticket \cup {"none"}]
  BY <1>1 DEF Remove, WorldTypeOK
<1>6. Advance
  BY <1>2, <1>3 DEF Advance
<1>. QED
  BY <1>4, <1>5, <1>6

LEMMA EnterQueueKeeps ==
  ASSUME DropInIInv, NEW c \in Call, NEW p \in Player, NEW g \in SUBSET Player, EnterQueue(c, p, g)
  PROVE  DropInIInv'
<1>. DEFINE k == [Asleep EXCEPT !.pc = "find", !.player = p]
<1>1. /\ k \in CallRow /\ k.pc = "find" /\ k.player = p /\ call' = [call EXCEPT ![c] = k]
      /\ UNCHANGED <<population, session, roster, hosted, manifest, served, overtaken, mishaps>>
  BY DEF EnterQueue, Asleep, CallRow, PC, matchVars, leaseVars
<1>2. WorldTypeOK /\ call \in [Call -> CallRow] /\ Rosters
  BY TwoTypes DEF DropInIInv
<1>3. call'[c] = k
  BY <1>1, <1>2
<1>. HIDE DEF k
<1>. DEFINE Queued ==
       /\ entry' \in [Ticket -> [phase : {"none", "searching", "assigned", "gone"},
                                 members : SUBSET Player, leader : Player \cup {"none"},
                                 session : Session \cup {"none"}]]
       /\ pointer' \in [Player -> Ticket \cup {"none"}]
       /\ \A t \in Ticket : entry[t].phase # "none" => entry'[t] = entry[t]
<1>4. Queued
  <2>1. CASE UNCHANGED <<entry, pointer>>
    BY <2>1, <1>2 DEF WorldTypeOK
  <2>2. ASSUME NEW t \in Ticket, entry[t].phase = "none",
               entry' = [entry EXCEPT ![t] = [phase |-> "searching", members |-> g,
                                              leader |-> p, session |-> "none"]],
               pointer' = [q \in Player |-> IF q \in g THEN t ELSE pointer[q]]
        PROVE  Queued
    BY <2>2, <1>2 DEF WorldTypeOK
  <2>. QED
    BY <2>1, <2>2 DEF EnterQueue
<1>5. WorldTypeOK'
  BY <1>1, <1>2, <1>4 DEF WorldTypeOK
<1>6. Advance /\ Rosters'
  BY <1>1, <1>2, <1>4 DEF Advance, Rosters
<1>7. Underway(c)'
  BY <1>1, <1>3 DEF Underway, Placed, Hosting
<1>. QED
  BY <1>1, <1>5, <1>6, <1>7, CallStep

LEMMA FindTicketKeeps ==
  ASSUME DropInIInv, NEW c \in Call, FindTicket(c)
  PROVE  DropInIInv'
<1>. DEFINE t == pointer[call[c].player]  k == [Asleep EXCEPT !.pc = "place", !.ticket = t]
<1>1. WorldTypeOK /\ call \in [Call -> CallRow] /\ Asleep \in CallRow
  BY TwoTypes, CallTypes DEF DropInIInv
<1>2. t \in Ticket \cup {"none"}
  BY <1>1 DEF FindTicket, At, DropInIInv, Underway, WorldTypeOK
<1>3. /\ k \in CallRow /\ k.pc = "place" /\ k.ticket = t
      /\ UNCHANGED <<queueVars, matchVars, leaseVars, mishaps>>
      /\ Asleep.pc = "idle"
  BY <1>2 DEF FindTicket, Asleep, CallRow, PC
<1>. HIDE DEF k, t
<1>4. CASE call' = [call EXCEPT ![c] = Asleep]
  <2>1. Underway(c)'
    BY <1>1, <1>3, <1>4, Resting
  <2>. QED
    BY <1>1, <1>3, <1>4, <2>1, NothingElse
<1>5. CASE call' = [call EXCEPT ![c] = k] /\ t # "none" /\ entry[t].phase = "searching"
  <2>1. call'[c] = k /\ t \in Ticket /\ entry' = entry
    BY <1>1, <1>2, <1>3, <1>5 DEF queueVars
  <2>2. Underway(c)'
    BY <1>3, <1>5, <2>1 DEF Underway, Placed, Hosting
  <2>. QED
    BY <1>3, <1>5, <2>2, NothingElse
<1>. QED
  BY <1>4, <1>5 DEF FindTicket, k, t

\* A call that fails keeps its ticket to undo it.
LEMMA FailKeeps ==
  ASSUME DropInIInv, NEW c \in Call, Fail(c),
         UNCHANGED <<queueVars, matchVars, leaseVars, mishaps>>
  PROVE  DropInIInv'
<1>. DEFINE k == [Asleep EXCEPT !.pc = "undo", !.ticket = call[c].ticket]
<1>1. k \in CallRow /\ call' = [call EXCEPT ![c] = k] /\ k.pc = "undo" /\ call \in [Call -> CallRow]
  BY CallTypes, TwoTypes DEF Asleep, DropInIInv
<1>. HIDE DEF k
<1>2. Underway(c)'
  BY <1>1, Resting
<1>. QED
  BY <1>1, <1>2, NothingElse

\* The call goes on to another step and nothing else happens.
LEMMA GotoKeeps ==
  ASSUME DropInIInv, NEW c \in Call, NEW pc \in Placed, Goto(c, pc), call[c].pc \in Placed,
         UNCHANGED <<queueVars, matchVars, leaseVars, mishaps>>,
         pc \in Hosting /\ session[call[c].session] \in OpenStates => call[c].session \in hosted,
         pc # "wait", pc # "lease",
         pc \in {"grant", "assign"} /\ ~call[c].blind /\ session[call[c].session] \in OpenStates =>
           entry[call[c].ticket].members \subseteq served[call[c].session]
  PROVE  DropInIInv'
<1>. DEFINE k == [call[c] EXCEPT !.pc = pc]
<1>0. pc \in PC /\ call[c] \in CallRow /\ Underway(c) /\ call \in [Call -> CallRow]
  BY CallTypes, TwoTypes DEF Placed, PC, DropInIInv
<1>1. k \in CallRow /\ call' = [call EXCEPT ![c] = k]
  BY <1>0, CallTypes
<1>2. /\ k.pc = pc /\ k.ticket = call[c].ticket /\ k.session = call[c].session
      /\ k.blind = call[c].blind
  BY <1>0 DEF CallRow
<1>. HIDE DEF k
<1>3. call'[c] = k
  BY <1>0, <1>1
<1>4. Underway(c)'
  BY <1>0, <1>2, <1>3 DEF Underway, Placed, Hosting, queueVars, matchVars, leaseVars
<1>. QED
  BY <1>1, <1>4, NothingElse

LEMMA PlaceInSessionKeeps ==
  ASSUME DropInIInv, NEW c \in Call, PlaceInSession(c)
  PROVE  DropInIInv'
<1>. DEFINE t == call[c].ticket  g == entry[t].members
<1>1. /\ WorldTypeOK /\ call \in [Call -> CallRow] /\ call[c] \in CallRow /\ Rosters /\ Underway(c)
      /\ call[c].pc = "place"
  BY TwoTypes, CallTypes DEF DropInIInv, PlaceInSession, At
<1>2. t \in Ticket /\ g \subseteq Player /\ entry[t].phase # "none"
  BY <1>1 DEF Underway, WorldTypeOK
<1>3. CASE Fail(c) /\ UNCHANGED matchVars
  BY <1>3, FailKeeps DEF PlaceInSession
<1>4. ASSUME NEW s \in Session, Sit(c, s, g),
             \/ session' = session /\ session[s] # "none"
             \/ session' = [session EXCEPT ![s] = "pending"] /\ session[s] = "none"
      PROVE  DropInIInv'
  <2>. DEFINE k == [call[c] EXCEPT !.pc = "read", !.session = s]
  <2>1. k \in CallRow /\ k.pc = "read" /\ k.ticket = t /\ k.session = s
    BY <1>1 DEF CallRow, PC
  <2>2. call' = [call EXCEPT ![c] = k]
    BY <1>1, <1>4 DEF Sit, CallRow
  <2>3. /\ roster' = [roster EXCEPT ![s] = roster[s] \cup g]
        /\ UNCHANGED <<queueVars, leaseVars, mishaps>>
    BY <1>4 DEF Sit, PlaceInSession
  <2>. HIDE DEF k
  <2>4. /\ roster'[s] = roster[s] \cup g /\ \A r \in Session \ {s} : roster'[r] = roster[r]
        /\ session'[s] # "none" /\ \A r \in Session \ {s} : session'[r] = session[r]
    BY <1>1, <1>4, <2>3 DEF WorldTypeOK
  <2>5. WorldTypeOK'
    BY <1>1, <1>2, <1>4, <2>3 DEF WorldTypeOK, queueVars, leaseVars
  <2>6. Rosters'
    BY <1>1, <2>3, <2>4 DEF Rosters, leaseVars
  <2>7. Advance
    BY <1>1, <1>4, <2>3, <2>4 DEF Advance, queueVars, leaseVars
  <2>8. Underway(c)'
    BY <1>1, <1>2, <2>1, <2>2, <2>3, <2>4 DEF Underway, Placed, Hosting, queueVars
  <2>. QED
    BY <2>1, <2>2, <2>5, <2>6, <2>7, <2>8, CallStep
<1>5. \A s \in Open : s \in Session /\ session[s] # "none"
  BY DEF Open
<1>6. Joinable(g) \subseteq Open
  BY DEF Joinable
<1>. QED
  BY <1>3, <1>4, <1>5, <1>6 DEF PlaceInSession

\* The call goes on with another set of players to wait for.
LEMMA NeedKeeps ==
  ASSUME DropInIInv, NEW c \in Call, NEW pc \in {"lease", "sync"}, NEW need \in SUBSET Player,
         call' = [call EXCEPT ![c].pc = pc, ![c].need = need],
         call[c].pc \in Placed, UNCHANGED <<queueVars, matchVars, leaseVars, mishaps>>,
         need \subseteq roster[call[c].session],
         pc = "sync" => call[c].session \in hosted
  PROVE  DropInIInv'
<1>. DEFINE k == [call[c] EXCEPT !.pc = pc, !.need = need]
<1>0. call[c] \in CallRow /\ Underway(c) /\ call \in [Call -> CallRow]
  BY CallTypes, TwoTypes DEF DropInIInv
<1>1. k \in CallRow /\ call' = [call EXCEPT ![c] = k]
  BY <1>0 DEF CallRow, PC
<1>2. /\ k.pc = pc /\ k.ticket = call[c].ticket /\ k.session = call[c].session
      /\ k.need = need
  BY <1>0 DEF CallRow
<1>. HIDE DEF k
<1>3. call'[c] = k
  BY <1>0, <1>1
<1>4. Underway(c)'
  BY <1>0, <1>2, <1>3 DEF Underway, Placed, Hosting, queueVars, matchVars, leaseVars
<1>. QED
  BY <1>1, <1>4, NothingElse

LEMMA ReadSessionKeeps ==
  ASSUME DropInIInv, NEW c \in Call, ReadSession(c)
  PROVE  DropInIInv'
<1>. DEFINE s == call[c].session
<1>1. call[c].pc = "read" /\ UNCHANGED <<queueVars, matchVars, leaseVars, mishaps>>
  BY DEF ReadSession, At
<1>2. s \in Session /\ roster[s] \in SUBSET Player
  BY <1>1, CallTypes, TwoTypes DEF Underway, Placed, DropInIInv, WorldTypeOK
<1>3. CASE Fail(c)
  BY <1>1, <1>3, FailKeeps
<1>4. CASE call' = [call EXCEPT ![c].pc = "lease", ![c].need = roster[s]]
  BY <1>1, <1>2, <1>4, NeedKeeps DEF Placed
<1>. QED
  BY <1>3, <1>4 DEF ReadSession

LEMMA LeaseHostKeeps ==
  ASSUME DropInIInv, NEW c \in Call, LeaseHost(c)
  PROVE  DropInIInv'
<1>. DEFINE s == call[c].session  need == call[c].need
<1>1. /\ WorldTypeOK /\ call \in [Call -> CallRow] /\ call[c] \in CallRow /\ Rosters /\ Underway(c)
      /\ call[c].pc = "lease" /\ UNCHANGED <<queueVars, matchVars, mishaps>>
  BY TwoTypes, CallTypes DEF DropInIInv, LeaseHost, At
<1>2. s \in Session /\ session[s] # "none" /\ need \subseteq roster[s] /\ need \in SUBSET Player
  BY <1>1 DEF Underway, Placed, CallRow
<1>3. CASE /\ s \in hosted /\ UNCHANGED leaseVars
           /\ call' = [call EXCEPT ![c].pc = "sync", ![c].need = {}]
  <2>1. {} \in SUBSET Player /\ {} \subseteq roster[s] /\ "lease" \in Placed /\ "sync" \in {"lease", "sync"}
    BY DEF Placed
  <2>. QED
    BY <1>1, <1>3, <2>1, NeedKeeps
<1>4. CASE s \notin hosted /\ Fail(c) /\ UNCHANGED leaseVars
  BY <1>1, <1>4, FailKeeps
<1>5. CASE /\ s \notin hosted
           /\ hosted' = hosted \cup {s}
           /\ manifest' = [manifest EXCEPT ![s] = need]
           /\ served' = [served EXCEPT ![s] = {}]
           /\ overtaken' = overtaken \ {s}
           /\ Goto(c, "prepare")
  <2>. DEFINE k == [call[c] EXCEPT !.pc = "prepare"]
  <2>1. k \in CallRow /\ k.pc = "prepare" /\ k.ticket = call[c].ticket /\ k.session = s
    BY <1>1, <1>2 DEF CallRow, PC, WorldTypeOK
  <2>2. call' = [call EXCEPT ![c] = k]
    BY <1>5, CallTypes DEF PC
  <2>. HIDE DEF k
  <2>3. WorldTypeOK'
    BY <1>1, <1>2, <1>5 DEF WorldTypeOK, queueVars, matchVars
  <2>4. Rosters'
    BY <1>1, <1>2, <1>5 DEF Rosters, WorldTypeOK, matchVars
  <2>5. Advance
    BY <1>1, <1>2, <1>5 DEF Advance, WorldTypeOK, queueVars, matchVars
  <2>6. Underway(c)'
    BY <1>1, <1>2, <1>5, <2>1, <2>2 DEF Underway, Placed, Hosting, queueVars, matchVars
  <2>. QED
    BY <2>1, <2>2, <2>3, <2>4, <2>5, <2>6, CallStep
<1>. QED
  BY <1>3, <1>4, <1>5 DEF LeaseHost

LEMMA AwaitServerKeeps ==
  ASSUME DropInIInv, NEW c \in Call, AwaitServer(c)
  PROVE  DropInIInv'
<1>. DEFINE s == call[c].session  pc == IF call[c].pc = "prepare" THEN "sync" ELSE "grant"
<1>1. /\ call \in [Call -> CallRow] /\ call[c] \in CallRow /\ Underway(c)
      /\ call[c].pc \in {"prepare", "wait"}
      /\ UNCHANGED <<queueVars, matchVars, leaseVars, mishaps>>
  BY TwoTypes, CallTypes DEF DropInIInv, AwaitServer, At
<1>2. CASE Fail(c)
  BY <1>1, <1>2, FailKeeps
<1>3. CASE /\ call[c].need \subseteq served[s]
           /\ call' = [call EXCEPT ![c].pc = pc, ![c].need = {}]
  <2>. DEFINE k == [call[c] EXCEPT !.pc = pc, !.need = {}]
  <2>1. /\ k \in CallRow /\ k.pc = pc /\ k.ticket = call[c].ticket /\ k.session = s
        /\ pc \in {"sync", "grant"} /\ (pc = "grant" => call[c].pc = "wait")
    BY <1>1 DEF CallRow, PC
  <2>2. call' = [call EXCEPT ![c] = k]
    BY <1>1, <1>3 DEF CallRow
  <2>. HIDE DEF k, pc
  <2>3. call'[c] = k
    BY <1>1, <2>2
  <2>4. Underway(c)'
    BY <1>1, <1>3, <2>1, <2>3 DEF Underway, Placed, Hosting, queueVars, matchVars, leaseVars
  <2>. QED
    BY <1>1, <2>1, <2>2, <2>4, NothingElse
<1>. QED
  BY <1>2, <1>3 DEF AwaitServer

LEMMA SynchronizeRosterKeeps ==
  ASSUME DropInIInv, NEW c \in Call, SynchronizeRoster(c)
  PROVE  DropInIInv'
<1>. DEFINE s == call[c].session  blind == s \in overtaken
<1>1. /\ WorldTypeOK /\ call \in [Call -> CallRow] /\ call[c] \in CallRow /\ Rosters /\ Underway(c)
      /\ call[c].pc = "sync" /\ UNCHANGED <<queueVars, matchVars, mishaps>>
  BY TwoTypes, CallTypes DEF DropInIInv, SynchronizeRoster, At
<1>2. s \in Session /\ entry[call[c].ticket].members \subseteq roster[s]
  BY <1>1 DEF Underway, Placed
<1>3. CASE Fail(c) /\ UNCHANGED leaseVars
  BY <1>1, <1>3, FailKeeps
<1>4. CASE /\ s \in hosted /\ UNCHANGED leaseVars
           /\ call' = [call EXCEPT ![c].pc = IF blind THEN "grant" ELSE "wait", ![c].blind = blind,
                                   ![c].need = IF blind THEN {} ELSE roster[s]]
  <2>1. CASE blind
    <3>. DEFINE k == [call[c] EXCEPT !.pc = "grant", !.blind = TRUE, !.need = {}]
    <3>1. k \in CallRow /\ k.pc = "grant" /\ k.ticket = call[c].ticket /\ k.session = s /\ k.blind
      BY <1>1 DEF CallRow, PC
    <3>2. blind = TRUE
      BY <2>1, Zenon
    <3>3. call' = [call EXCEPT ![c] = k]
      BY <1>1, <1>4, <3>2 DEF CallRow
    <3>. HIDE DEF k
    <3>4. Underway(c)'
      BY <1>1, <1>4, <3>1, <3>3 DEF Underway, Placed, Hosting, queueVars, matchVars, leaseVars
    <3>. QED
      BY <1>1, <1>4, <3>1, <3>3, <3>4, NothingElse
  <2>2. CASE ~blind
    <3>. DEFINE k == [call[c] EXCEPT !.pc = "wait", !.blind = FALSE, !.need = roster[s]]
    <3>1. k \in CallRow /\ k.pc = "wait" /\ k.ticket = call[c].ticket /\ k.session = s
          /\ k.need = roster[s]
      BY <1>1, <1>2 DEF CallRow, PC, WorldTypeOK
    <3>2. blind = FALSE
      BY <2>2
    <3>3. call' = [call EXCEPT ![c] = k]
      BY <1>1, <1>4, <3>2 DEF CallRow
    <3>. HIDE DEF k
    <3>4. Underway(c)'
      BY <1>1, <1>2, <1>4, <3>1, <3>3 DEF Underway, Placed, Hosting, queueVars, matchVars, leaseVars
    <3>. QED
      BY <1>1, <1>4, <3>1, <3>3, <3>4, NothingElse
  <2>. QED
    BY <2>1, <2>2
<1>5. CASE /\ s \in hosted /\ manifest' = [manifest EXCEPT ![s] = roster[s]]
           /\ overtaken' = overtaken \ {s}
           /\ call' = [call EXCEPT ![c].pc = "wait", ![c].need = roster[s]]
           /\ UNCHANGED <<hosted, served>>
  <2>. DEFINE k == [call[c] EXCEPT !.pc = "wait", !.need = roster[s]]
  <2>1. /\ k \in CallRow /\ k.pc = "wait" /\ k.ticket = call[c].ticket /\ k.session = s
        /\ k.need = roster[s]
    BY <1>1, <1>2 DEF CallRow, PC, WorldTypeOK
  <2>2. call' = [call EXCEPT ![c] = k]
    BY <1>1, <1>5 DEF CallRow
  <2>. HIDE DEF k
  <2>3. WorldTypeOK'
    BY <1>1, <1>2, <1>5 DEF WorldTypeOK, queueVars, matchVars
  <2>4. Rosters'
    BY <1>1, <1>2, <1>5 DEF Rosters, WorldTypeOK, matchVars
  <2>5. Advance
    BY <1>1, <1>5 DEF Advance, queueVars, matchVars
  <2>6. Underway(c)'
    BY <1>1, <1>2, <1>5, <2>1, <2>2 DEF Underway, Placed, Hosting, queueVars, matchVars
  <2>. QED
    BY <2>1, <2>2, <2>3, <2>4, <2>5, <2>6, CallStep
<1>. QED
  BY <1>3, <1>4, <1>5 DEF SynchronizeRoster

LEMMA IssueGrantKeeps ==
  ASSUME DropInIInv, NEW c \in Call, IssueGrant(c)
  PROVE  DropInIInv'
<1>1. /\ Goto(c, "assign") \/ Fail(c)
      /\ call[c].pc = "grant" /\ UNCHANGED <<queueVars, matchVars, leaseVars, mishaps>>
  BY DEF IssueGrant, Proceed, At
<1>2. Underway(c)
  BY CallTypes
<1>3. CASE Goto(c, "assign")
  BY <1>1, <1>2, <1>3, GotoKeeps DEF Underway, Placed, Hosting
<1>4. CASE Fail(c)
  BY <1>1, <1>4, FailKeeps
<1>. QED
  BY <1>1, <1>3, <1>4

\* A ticket that searches is assigned to the session of the call.
LEMMA AssignEffect ==
  ASSUME DropInIInv, NEW c \in Call, AssignTicket(c), entry[call[c].ticket].phase = "searching"
  PROVE  LET t == call[c].ticket  s == call[c].session IN
         /\ t \in Ticket /\ s \in Session /\ WorldTypeOK
         /\ entry' \in [Ticket -> [phase : {"none", "searching", "assigned", "gone"},
                                   members : SUBSET Player, leader : Player \cup {"none"},
                                   session : Session \cup {"none"}]]
         /\ entry'[t].phase = "assigned" /\ entry'[t].members = entry[t].members
         /\ entry'[t].session = s
         /\ \A u \in Ticket \ {t} : entry'[u] = entry[u]
<1>. DEFINE t == call[c].ticket  s == call[c].session
            new == [entry[t] EXCEPT !.phase = "assigned", !.session = s]
<1>1. WorldTypeOK /\ call[c] \in CallRow /\ Underway(c) /\ call[c].pc = "assign"
  BY TwoTypes, CallTypes DEF DropInIInv, AssignTicket, At
<1>2. t \in Ticket /\ s \in Session
  BY <1>1 DEF Underway, Placed
<1>3. /\ new \in [phase : {"none", "searching", "assigned", "gone"},
                  members : SUBSET Player, leader : Player \cup {"none"}, session : Session \cup {"none"}]
      /\ new.phase = "assigned" /\ new.members = entry[t].members /\ new.session = s
  <2>1. entry[t] \in [phase : {"none", "searching", "assigned", "gone"},
                      members : SUBSET Player, leader : Player \cup {"none"}, session : Session \cup {"none"}]
    BY <1>1, <1>2 DEF WorldTypeOK
  <2>. QED
    BY <1>2, <2>1
<1>4. entry' = [entry EXCEPT ![t] = new]
  BY <1>1, <1>2 DEF AssignTicket, WorldTypeOK
<1>. HIDE DEF new
<1>. QED
  BY <1>1, <1>2, <1>3, <1>4 DEF WorldTypeOK

LEMMA AssignTicketKeeps ==
  ASSUME DropInIInv, NEW c \in Call, AssignTicket(c)
  PROVE  DropInIInv'
<1>. DEFINE t == call[c].ticket  s == call[c].session
            k == [Asleep EXCEPT !.pc = "refresh", !.session = s]
<1>1. CASE entry[t].phase # "searching"
  <2>1. Fail(c) /\ UNCHANGED <<queueVars, matchVars, leaseVars, mishaps>>
    BY <1>1 DEF AssignTicket, queueVars
  <2>. QED
    BY <2>1, FailKeeps
<1>2. CASE entry[t].phase = "searching"
  <2>1. /\ t \in Ticket /\ s \in Session /\ WorldTypeOK /\ entry'[t].phase = "assigned"
        /\ entry'[t].members = entry[t].members
        /\ \A u \in Ticket \ {t} : entry'[u] = entry[u]
        /\ entry' \in [Ticket -> [phase : {"none", "searching", "assigned", "gone"},
                                  members : SUBSET Player, leader : Player \cup {"none"},
                                  session : Session \cup {"none"}]]
    BY <1>2, AssignEffect
  <2>2. /\ population' = [population EXCEPT ![s] = @ \cup entry[t].members]
        /\ call' = [call EXCEPT ![c] = k] /\ UNCHANGED <<pointer, matchVars, leaseVars, mishaps>>
    BY <1>2 DEF AssignTicket
  <2>3. k \in CallRow /\ k.pc = "refresh" /\ k.session = s /\ call \in [Call -> CallRow] /\ Rosters
    BY <2>1, TwoTypes DEF CallRow, PC, Asleep, DropInIInv
  <2>. HIDE DEF k
  <2>4. entry[t].members \subseteq Player
    BY <2>1 DEF WorldTypeOK
  <2>5. WorldTypeOK'
    BY <2>1, <2>2, <2>4 DEF WorldTypeOK, matchVars, leaseVars
  <2>6. Rosters' /\ Advance
    BY <1>2, <2>1, <2>2, <2>3 DEF Rosters, Advance, matchVars, leaseVars
  <2>7. Underway(c)'
    BY <2>1, <2>2, <2>3 DEF Underway, Placed, Hosting
  <2>. QED
    BY <2>2, <2>3, <2>5, <2>6, <2>7, CallStep
<1>. QED
  BY <1>1, <1>2

LEMMA RefreshPopulationKeeps ==
  ASSUME DropInIInv, NEW c \in Call, RefreshPopulation(c)
  PROVE  DropInIInv'
<1>. DEFINE s == call[c].session
<1>1. /\ WorldTypeOK /\ call \in [Call -> CallRow] /\ call[c] \in CallRow /\ Rosters /\ Underway(c)
      /\ UNCHANGED <<pointer, population, matchVars, leaseVars, mishaps>>
      /\ Asleep \in CallRow /\ Asleep.pc = "idle"
  BY TwoTypes, CallTypes DEF DropInIInv, RefreshPopulation, Asleep
<1>2. CASE call[c].pc = "refresh" /\ call' = [call EXCEPT ![c] = Asleep] /\ UNCHANGED entry
  <2>1. Underway(c)'
    BY <1>1, <1>2, Resting
  <2>. QED
    BY <1>1, <1>2, <2>1, NothingElse DEF queueVars
<1>3. ASSUME NEW t \in {pointer[p] : p \in population[s]} \ {"none"}, call[c].pc = "refresh",
             Assigned(t, s), call' = [call EXCEPT ![c].pc = "set", ![c].ticket = t], UNCHANGED entry
      PROVE  DropInIInv'
  <2>. DEFINE k == [call[c] EXCEPT !.pc = "set", !.ticket = t]
  <2>1. s \in Session
    BY <1>1, <1>3 DEF Underway
  <2>2. t \in Ticket
    BY <1>1, <1>3, <2>1 DEF WorldTypeOK
  <2>3. k \in CallRow /\ k.pc = "set" /\ k.ticket = t /\ k.session = s
    BY <1>1, <2>2 DEF CallRow, PC
  <2>4. call' = [call EXCEPT ![c] = k]
    BY <1>1, <1>3 DEF CallRow
  <2>. HIDE DEF k
  <2>5. Underway(c)'
    BY <1>1, <1>3, <2>1, <2>2, <2>3, <2>4 DEF Underway, Placed, Hosting, Assigned
  <2>. QED
    BY <1>1, <1>3, <2>3, <2>4, <2>5, NothingElse DEF queueVars
<1>4. CASE /\ call[c].pc = "set"
           /\ entry' = [entry EXCEPT ![call[c].ticket].phase = "assigned"]
           /\ call' = [call EXCEPT ![c].pc = "refresh", ![c].ticket = "none"]
  <2>. DEFINE t == call[c].ticket  k == [call[c] EXCEPT !.pc = "refresh", !.ticket = "none"]
              new == [entry[t] EXCEPT !.phase = "assigned"]
  <2>1. t \in Ticket /\ entry[t].phase \in {"assigned", "gone"} /\ s \in Session
    BY <1>1, <1>4 DEF Underway
  <2>2. k \in CallRow /\ k.pc = "refresh" /\ k.session = s
    BY <1>1 DEF CallRow, PC
  <2>3. call' = [call EXCEPT ![c] = k]
    BY <1>1, <1>4 DEF CallRow
  <2>4. /\ new \in [phase : {"none", "searching", "assigned", "gone"}, members : SUBSET Player,
                    leader : Player \cup {"none"}, session : Session \cup {"none"}]
        /\ new.phase = "assigned" /\ new.members = entry[t].members
        /\ entry' = [entry EXCEPT ![t] = new]
    <3>1. entry[t] \in [phase : {"none", "searching", "assigned", "gone"}, members : SUBSET Player,
                        leader : Player \cup {"none"}, session : Session \cup {"none"}]
      BY <1>1, <2>1 DEF WorldTypeOK
    <3>2. new \in [phase : {"none", "searching", "assigned", "gone"}, members : SUBSET Player,
                   leader : Player \cup {"none"}, session : Session \cup {"none"}]
      BY <3>1
    <3>3. new.phase = "assigned" /\ new.members = entry[t].members
      BY <3>1
    <3>4. entry' = [entry EXCEPT ![t] = new]
      BY <1>1, <1>4, <2>1 DEF WorldTypeOK
    <3>. QED
      BY <3>2, <3>3, <3>4
  <2>. HIDE DEF k, new
  <2>5. WorldTypeOK'
    BY <1>1, <2>1, <2>4 DEF WorldTypeOK, matchVars, leaseVars
  <2>6. Rosters' /\ Advance
    BY <1>1, <2>1, <2>4 DEF Rosters, Advance, WorldTypeOK, matchVars, leaseVars
  <2>7. Underway(c)'
    BY <1>1, <2>1, <2>2, <2>3 DEF Underway, Placed, Hosting
  <2>. QED
    BY <2>2, <2>3, <2>5, <2>6, <2>7, CallStep
<1>. QED
  BY <1>2, <1>3, <1>4 DEF RefreshPopulation, At

\* What ends a call: the undoing of its ticket, or its process.
LEMMA EndCallKeeps ==
  ASSUME DropInIInv, NEW c \in Call, CancelCaptured(c) \/ CallStops(c)
  PROVE  DropInIInv'
<1>1. /\ WorldTypeOK /\ call \in [Call -> CallRow] /\ Rosters
      /\ call' = [call EXCEPT ![c] = Asleep] /\ UNCHANGED <<population, matchVars, leaseVars>>
      /\ Asleep \in CallRow /\ Asleep.pc = "idle"
  BY TwoTypes, CallTypes DEF DropInIInv, CancelCaptured, CallStops, Asleep, queueVars
<1>2. Underway(c)'
  BY <1>1, Resting
<1>3. CASE CancelCaptured(c)
  <2>1. PICK ts : Remove(ts)
    BY <1>3 DEF CancelCaptured
  <2>2. UNCHANGED <<mishaps, session, roster, hosted, served>>
    BY <1>1, <1>3 DEF CancelCaptured, matchVars, leaseVars
  <2>3. WorldTypeOK' /\ Advance
    BY <1>1, <2>1, <2>2, RemoveAdvances DEF WorldTypeOK, matchVars, leaseVars
  <2>4. Rosters'
    BY <1>1 DEF Rosters, matchVars, leaseVars
  <2>. QED
    BY <1>1, <1>2, <2>3, <2>4, CallStep
<1>4. CASE CallStops(c)
  <2>1. UNCHANGED queueVars /\ mishaps' = mishaps + 1 /\ mishaps < DropInFaults
    BY <1>4 DEF CallStops
  <2>2. WorldTypeOK'
    BY <1>1, <2>1, DeathmatchAssumption DEF WorldTypeOK, queueVars, matchVars, leaseVars
  <2>3. Rosters' /\ Advance
    BY <1>1, <2>1 DEF Rosters, Advance, queueVars, matchVars, leaseVars
  <2>. QED
    BY <1>1, <1>2, <2>2, <2>3, CallStep
<1>. QED
  BY <1>3, <1>4

\* Players who leave, and tickets of a session that is complete.
LEMMA RemovalKeeps ==
  ASSUME DropInIInv,
         (\E p \in Player : LeaveQueue(p)) \/ (\E s \in Session : CompleteSession(s))
  PROVE  DropInIInv'
<1>1. /\ WorldTypeOK /\ Rosters /\ UNCHANGED <<matchVars, leaseVars, call, mishaps>>
      /\ population' \in [Session -> SUBSET Player] /\ \E ts : Remove(ts)
  BY TwoTypes DEF DropInIInv, LeaveQueue, CompleteSession, WorldTypeOK
<1>2. UNCHANGED <<session, roster, hosted, served>>
  BY <1>1 DEF matchVars, leaseVars
<1>3. WorldTypeOK' /\ Advance
  BY <1>1, <1>2, RemoveAdvances DEF WorldTypeOK, matchVars, leaseVars
<1>4. Rosters'
  BY <1>1 DEF Rosters, matchVars, leaseVars
<1>. QED
  BY <1>1, <1>3, <1>4, WorldStep

\* The server, the session and the inventory.
LEMMA SessionKeeps ==
  ASSUME DropInIInv, NEW s \in Session,
         ServerAcknowledges(s) \/ InventoryReissued(s) \/ SessionGoesLive(s) \/ SessionEnds(s)
  PROVE  DropInIInv'
<1>1. /\ WorldTypeOK /\ Rosters
      /\ UNCHANGED <<queueVars, roster, manifest, call>>
  BY TwoTypes DEF DropInIInv, ServerAcknowledges, InventoryReissued, SessionGoesLive, SessionEnds,
                  matchVars, leaseVars
<1>2. CASE ServerAcknowledges(s)
  <2>1. served' = [served EXCEPT ![s] = manifest[s]]
        /\ UNCHANGED <<matchVars, hosted, overtaken, mishaps>>
    BY <1>2 DEF ServerAcknowledges
  <2>2. WorldTypeOK' /\ Rosters' /\ Advance
    BY <1>1, <2>1 DEF WorldTypeOK, Rosters, Advance, queueVars, matchVars
  <2>. QED
    BY <1>1, <2>2, WorldStep
<1>3. CASE InventoryReissued(s)
  <2>1. /\ overtaken' = overtaken \cup {s} /\ mishaps' = mishaps + 1 /\ mishaps < DropInFaults
        /\ UNCHANGED <<matchVars, hosted, served>>
    BY <1>3 DEF InventoryReissued
  <2>2. WorldTypeOK' /\ Rosters' /\ Advance
    BY <1>1, <2>1, DeathmatchAssumption DEF WorldTypeOK, Rosters, Advance, queueVars, matchVars
  <2>. QED
    BY <1>1, <2>2, WorldStep
<1>4. CASE SessionGoesLive(s)
  <2>1. /\ session' = [session EXCEPT ![s] = "live"] /\ session[s] = "pending"
        /\ UNCHANGED <<leaseVars, mishaps>>
    BY <1>4 DEF SessionGoesLive
  <2>2. WorldTypeOK' /\ Rosters'
    BY <1>1, <2>1 DEF WorldTypeOK, Rosters, queueVars, leaseVars
  <2>3. Advance
    BY <1>1, <2>1 DEF Advance, WorldTypeOK, OpenStates, queueVars, leaseVars
  <2>. QED
    BY <1>1, <2>2, <2>3, WorldStep
<1>5. CASE SessionEnds(s)
  <2>1. /\ session' = [session EXCEPT ![s] = "ended"] /\ hosted' = hosted \ {s}
        /\ UNCHANGED <<served, overtaken, mishaps>>
    BY <1>5 DEF SessionEnds
  <2>2. WorldTypeOK' /\ Rosters'
    BY <1>1, <2>1 DEF WorldTypeOK, Rosters, queueVars
  <2>3. Advance
    BY <1>1, <2>1 DEF Advance, WorldTypeOK, OpenStates, queueVars
  <2>. QED
    BY <1>1, <2>2, <2>3, WorldStep
<1>. QED
  BY <1>2, <1>3, <1>4, <1>5

LEMMA NextDropIn == DropInIInv /\ [DeathmatchNext]_deathmatchVars => DropInIInv'
<1> SUFFICES ASSUME DropInIInv, [DeathmatchNext]_deathmatchVars PROVE DropInIInv'
  OBVIOUS
<1>1. CASE UNCHANGED deathmatchVars
  <2>1. UNCHANGED call /\ WorldTypeOK' /\ Rosters' /\ Advance
    BY <1>1, TwoTypes DEF DropInIInv, deathmatchVars, WorldTypeOK, Rosters, Advance
  <2>. QED
    BY <2>1, WorldStep
<1>2. ASSUME NEW c \in Call,
             \/ \E p \in Player, g \in SUBSET Player : EnterQueue(c, p, g)
             \/ FindTicket(c) \/ PlaceInSession(c) \/ ReadSession(c) \/ LeaseHost(c)
             \/ AwaitServer(c) \/ SynchronizeRoster(c) \/ IssueGrant(c) \/ AssignTicket(c)
             \/ RefreshPopulation(c) \/ CancelCaptured(c) \/ CallStops(c)
      PROVE  DropInIInv'
  BY <1>2, EnterQueueKeeps, FindTicketKeeps, PlaceInSessionKeeps, ReadSessionKeeps, LeaseHostKeeps,
     AwaitServerKeeps, SynchronizeRosterKeeps, IssueGrantKeeps, AssignTicketKeeps,
     RefreshPopulationKeeps, EndCallKeeps
<1>3. ASSUME NEW s \in Session,
             ServerAcknowledges(s) \/ InventoryReissued(s) \/ SessionGoesLive(s) \/ SessionEnds(s)
             \/ CompleteSession(s)
      PROVE  DropInIInv'
  BY <1>3, SessionKeeps, RemovalKeeps
<1>4. ASSUME NEW p \in Player, LeaveQueue(p) PROVE DropInIInv'
  BY <1>4, RemovalKeeps
<1>. QED
  BY <1>1, <1>2, <1>3, <1>4 DEF DeathmatchNext

\* DropInIInv is an inductive invariant of the calls and what surrounds them.
THEOREM DropInInvariant == DeathmatchSpec => []DropInIInv
<1>. QED
  BY InitDropIn, NextDropIn, PTL DEF DeathmatchSpec

\* The types of Deathmatch (DeathmatchTypeOK) hold in every reachable state.
THEOREM DeathmatchTypes == DeathmatchSpec => []DeathmatchTypeOK
<1>1. DropInIInv => DeathmatchTypeOK
  BY DEF DropInIInv
<1>. QED
  BY <1>1, DropInInvariant, PTL

\* Only the script of assignDeathmatch assigns a ticket that searches.
LEMMA AssignsWhatSearches ==
  ASSUME DropInIInv, [DeathmatchNext]_deathmatchVars, NEW t \in Ticket,
         entry[t].phase = "searching", entry'[t].phase = "assigned"
  PROVE  \E c \in Call : AssignTicket(c) /\ call[c].ticket = t
<1>0. WorldTypeOK /\ \A c \in Call : Underway(c)
  BY TwoTypes DEF DropInIInv
<1>1. entry' # entry
  OBVIOUS
<1>2. ~\E ts : Remove(ts)
  <2> SUFFICES ASSUME NEW ts, Remove(ts) PROVE FALSE
    OBVIOUS
  <2>1. entry'[t] = entry[t] \/ entry'[t] = [entry[t] EXCEPT !.phase = "gone"]
    BY DEF Remove
  <2>2. [entry[t] EXCEPT !.phase = "gone"].phase = "gone"
    BY <1>0 DEF WorldTypeOK
  <2>. QED
    BY <2>1, <2>2
<1>3. ASSUME NEW c \in Call, NEW p \in Player, NEW g \in SUBSET Player, EnterQueue(c, p, g)
      PROVE  FALSE
  BY <1>0, <1>3 DEF EnterQueue, WorldTypeOK
<1>4. ASSUME NEW c \in Call, RefreshPopulation(c) PROVE FALSE
  <2>1. /\ call[c].pc = "set" /\ entry' = [entry EXCEPT ![call[c].ticket].phase = "assigned"]
        /\ call[c].ticket \in Ticket /\ entry[call[c].ticket].phase \in {"assigned", "gone"}
    BY <1>0, <1>1, <1>4 DEF RefreshPopulation, Underway, At
  <2>. QED
    BY <1>0, <2>1 DEF WorldTypeOK
<1>5. ASSUME NEW c \in Call, AssignTicket(c) PROVE call[c].ticket = t
  <2>1. entry[call[c].ticket].phase = "searching"
    BY <1>1, <1>5 DEF AssignTicket
  <2>. QED
    BY <1>5, <2>1, AssignEffect
<1>6. ASSUME NEW c \in Call,
             FindTicket(c) \/ PlaceInSession(c) \/ ReadSession(c) \/ LeaseHost(c) \/ AwaitServer(c)
             \/ SynchronizeRoster(c) \/ IssueGrant(c) \/ CancelCaptured(c) \/ CallStops(c)
      PROVE  FALSE
  BY <1>1, <1>2, <1>6 DEF FindTicket, PlaceInSession, ReadSession, LeaseHost, AwaitServer,
     SynchronizeRoster, IssueGrant, CancelCaptured, CallStops, queueVars
<1>7. ASSUME (\E p \in Player : LeaveQueue(p))
             \/ (\E s \in Session : ServerAcknowledges(s) \/ InventoryReissued(s) \/ SessionGoesLive(s)
                                    \/ SessionEnds(s) \/ CompleteSession(s))
      PROVE  FALSE
  BY <1>1, <1>2, <1>7 DEF LeaveQueue, ServerAcknowledges, InventoryReissued, SessionGoesLive,
     SessionEnds, CompleteSession, queueVars
<1>8. ~UNCHANGED deathmatchVars
  BY <1>1 DEF deathmatchVars
<1>. QED
  BY <1>3, <1>4, <1>5, <1>6, <1>7, <1>8 DEF DeathmatchNext

\* A ticket that searches is assigned to a session only when the server of that
\* session has acknowledged a roster with all its members, the session has
\* ended, or the call was blind (deathmatch-drop-in-service.ts,
\* synchronizeDeathmatchRoster), for every number of players, calls and sessions.
THEOREM AssignedHaveServer == DeathmatchSpec => AssignedIsAdmitted
<1>1. ASSUME DropInIInv, [DeathmatchNext]_deathmatchVars, NEW t \in Ticket,
             entry[t].phase = "searching", entry'[t].phase = "assigned"
      PROVE  \/ entry[t].members \subseteq served[entry'[t].session]
             \/ entry'[t].session \notin Open
             \/ \E c \in Call : call[c].ticket = t /\ At(c, "assign") /\ call[c].blind
  <2>1. PICK c \in Call : AssignTicket(c) /\ call[c].ticket = t
    BY <1>1, AssignsWhatSearches
  <2>2. At(c, "assign") /\ Underway(c) /\ entry'[t].session = call[c].session
    BY <1>1, <2>1, AssignEffect DEF AssignTicket, DropInIInv
  <2>. QED
    BY <2>1, <2>2 DEF Underway, At, Open, OpenStates
<1>2. DropInIInv /\ [DeathmatchNext]_deathmatchVars
        => [\A t \in Ticket : entry[t].phase = "searching" /\ entry'[t].phase = "assigned" =>
              LET s == entry'[t].session IN
              \/ entry[t].members \subseteq served[s]
              \/ s \notin Open
              \/ \E c \in Call : call[c].ticket = t /\ At(c, "assign") /\ call[c].blind]_deathmatchVars
  BY <1>1
<1>. QED
  BY <1>2, DropInInvariant, PTL DEF DeathmatchSpec, AssignedIsAdmitted

\* A step that changes a call changes that call alone.
StepOf(d) ==
  /\ \A e \in Call \ {d} : call'[e] = call[e]
  /\ call[d].pc = "undo" /\ mishaps' = mishaps => CancelCaptured(d)

LEMMA OneCall ==
  ASSUME DropInIInv, [DeathmatchNext]_deathmatchVars, call' # call
  PROVE  \E d \in Call : StepOf(d)
<1>1. call \in [Call -> CallRow] /\ mishaps \in Nat
  BY TwoTypes, DeathmatchAssumption DEF DropInIInv, WorldTypeOK
<1>2. ASSUME NEW d \in Call,
             \/ \E q \in Player, g \in SUBSET Player : EnterQueue(d, q, g)
             \/ FindTicket(d) \/ PlaceInSession(d) \/ ReadSession(d) \/ LeaseHost(d)
             \/ AwaitServer(d) \/ SynchronizeRoster(d) \/ IssueGrant(d) \/ AssignTicket(d)
             \/ RefreshPopulation(d)
      PROVE  call[d].pc # "undo"
  BY <1>2 DEF EnterQueue, FindTicket, PlaceInSession, ReadSession, LeaseHost, AwaitServer,
     SynchronizeRoster, IssueGrant, AssignTicket, RefreshPopulation, At
<1>3. ASSUME NEW d \in Call,
             \/ \E q \in Player, g \in SUBSET Player : EnterQueue(d, q, g)
             \/ FindTicket(d) \/ PlaceInSession(d) \/ ReadSession(d) \/ LeaseHost(d)
             \/ AwaitServer(d) \/ SynchronizeRoster(d)
      PROVE  \A e \in Call \ {d} : call'[e] = call[e]
  BY <1>1, <1>3 DEF EnterQueue, FindTicket, PlaceInSession, ReadSession, LeaseHost, AwaitServer,
     SynchronizeRoster, Sit, Fail, Goto, Proceed
<1>4. ASSUME NEW d \in Call,
             IssueGrant(d) \/ AssignTicket(d) \/ RefreshPopulation(d) \/ CancelCaptured(d) \/ CallStops(d)
      PROVE  \A e \in Call \ {d} : call'[e] = call[e]
  BY <1>1, <1>4 DEF IssueGrant, AssignTicket, RefreshPopulation, CancelCaptured, CallStops, Fail, Goto,
     Proceed
<1>5. ASSUME NEW d \in Call, CallStops(d) PROVE mishaps' # mishaps
  BY <1>1, <1>5 DEF CallStops
<1>6. ASSUME \/ \E p \in Player : LeaveQueue(p)
             \/ \E s \in Session : ServerAcknowledges(s) \/ InventoryReissued(s) \/ SessionGoesLive(s)
                                    \/ SessionEnds(s) \/ CompleteSession(s)
             \/ UNCHANGED deathmatchVars
      PROVE  FALSE
  BY <1>6 DEF LeaveQueue, ServerAcknowledges, InventoryReissued, SessionGoesLive, SessionEnds,
     CompleteSession, deathmatchVars
<1>7. PICK d \in Call :
        \/ \E q \in Player, g \in SUBSET Player : EnterQueue(d, q, g)
        \/ FindTicket(d) \/ PlaceInSession(d) \/ ReadSession(d) \/ LeaseHost(d)
        \/ AwaitServer(d) \/ SynchronizeRoster(d) \/ IssueGrant(d) \/ AssignTicket(d)
        \/ RefreshPopulation(d) \/ CancelCaptured(d) \/ CallStops(d)
  BY <1>6 DEF DeathmatchNext
<1>. QED
  BY <1>2, <1>3, <1>4, <1>5, <1>7 DEF StepOf

\* A ticket that players find is in the queue.
Found == \A p \in Player : pointer[p] # "none" =>
  pointer[p] \in Ticket /\ entry[pointer[p]].phase \in {"searching", "assigned"}

\* Pointers lead where they led, to nothing, or to a new ticket.
NewOnly == \A p \in Player : pointer'[p] \in {pointer[p], "none"} \/ entry[pointer'[p]].phase = "none"

LEMMA RemoveFound ==
  ASSUME Found, NEW ts, Remove(ts)
  PROVE  Found' /\ NewOnly
<1>1. \A p \in Player : pointer'[p] = IF pointer[p] \in ts THEN "none" ELSE pointer[p]
  BY DEF Remove
<1>2. \A t \in Ticket : t \notin ts => entry'[t] = entry[t]
  BY DEF Remove
<1>. QED
  BY <1>1, <1>2 DEF Found, NewOnly

LEMMA NextFound ==
  ASSUME DropInIInv, Found, [DeathmatchNext]_deathmatchVars
  PROVE  Found' /\ NewOnly
<1>0. WorldTypeOK /\ \A c \in Call : Underway(c)
  BY TwoTypes DEF DropInIInv
<1>1. CASE UNCHANGED <<entry, pointer>>
  BY <1>1 DEF Found, NewOnly
<1>2. CASE \E ts : Remove(ts)
  BY <1>2, RemoveFound
<1>3. ASSUME NEW c \in Call, NEW p \in Player, NEW g \in SUBSET Player, EnterQueue(c, p, g)
      PROVE  Found' /\ NewOnly
  <2>1. ASSUME NEW t \in Ticket, entry[t].phase = "none",
               entry' = [entry EXCEPT ![t] = [phase |-> "searching", members |-> g,
                                              leader |-> p, session |-> "none"]],
               pointer' = [q \in Player |-> IF q \in g THEN t ELSE pointer[q]]
        PROVE  Found' /\ NewOnly
    <3>1. entry'[t].phase = "searching" /\ \A u \in Ticket \ {t} : entry'[u] = entry[u]
      BY <1>0, <2>1 DEF WorldTypeOK
    <3>2. \A q \in Player : pointer'[q] = t \/ pointer'[q] = pointer[q]
      BY <2>1
    <3>. QED
      BY <2>1, <3>1, <3>2 DEF Found, NewOnly
  <2>. QED
    BY <1>1, <1>3, <2>1 DEF EnterQueue
<1>4. ASSUME NEW c \in Call, AssignTicket(c)
      PROVE  Found' /\ NewOnly
  <2>1. CASE entry[call[c].ticket].phase = "searching"
    <3>1. UNCHANGED pointer /\ \A t \in Ticket : entry'[t] = entry[t] \/ entry'[t].phase = "assigned"
      BY <1>4, <2>1, AssignEffect DEF AssignTicket
    <3>. QED
      BY <3>1 DEF Found, NewOnly
  <2>. QED
    BY <1>1, <1>4, <2>1 DEF AssignTicket
<1>5. ASSUME NEW c \in Call, RefreshPopulation(c)
      PROVE  Found' /\ NewOnly
  <2>1. CASE call[c].pc = "set" /\ entry' = [entry EXCEPT ![call[c].ticket].phase = "assigned"]
    <3>1. call[c].ticket \in Ticket /\ UNCHANGED pointer
      BY <1>0, <1>5, <2>1 DEF Underway, RefreshPopulation
    <3>2. \A t \in Ticket : entry'[t] = entry[t] \/ entry'[t].phase = "assigned"
      BY <1>0, <2>1, <3>1 DEF WorldTypeOK
    <3>. QED
      BY <3>1, <3>2 DEF Found, NewOnly
  <2>. QED
    BY <1>1, <1>5, <2>1 DEF RefreshPopulation, At
<1>6. ASSUME NEW c \in Call,
             FindTicket(c) \/ PlaceInSession(c) \/ ReadSession(c) \/ LeaseHost(c) \/ AwaitServer(c)
             \/ SynchronizeRoster(c) \/ IssueGrant(c) \/ CancelCaptured(c) \/ CallStops(c)
      PROVE  Found' /\ NewOnly
  BY <1>1, <1>2, <1>6 DEF FindTicket, PlaceInSession, ReadSession, LeaseHost, AwaitServer,
     SynchronizeRoster, IssueGrant, CancelCaptured, CallStops, queueVars
<1>7. ASSUME (\E p \in Player : LeaveQueue(p))
             \/ (\E s \in Session : ServerAcknowledges(s) \/ InventoryReissued(s) \/ SessionGoesLive(s)
                                    \/ SessionEnds(s) \/ CompleteSession(s))
      PROVE  Found' /\ NewOnly
  BY <1>1, <1>2, <1>7 DEF LeaveQueue, ServerAcknowledges, InventoryReissued, SessionGoesLive,
     SessionEnds, CompleteSession, queueVars
<1>. QED
  BY <1>1, <1>3, <1>4, <1>5, <1>6, <1>7 DEF DeathmatchNext, deathmatchVars

\* The end of a failed call takes out the ticket it had found, while that
\* searches, and no other (cancelDeathmatchTicket); and what was removed is found
\* by nobody again, written back or not, for every number of calls.
THEOREM AssignedIsNotUndone == DeathmatchSpec => OnlySearchingIsUndone
<1>. DEFINE Undoes(c) ==
       LET found == {t \in {call[c].ticket} : entry[t].phase = "searching"} IN
       call[c].pc = "undo" /\ call'[c].pc = "idle" /\ mishaps' = mishaps =>
         /\ \A p \in Player : pointer'[p] = pointer[p] \/ pointer[p] \in found
         /\ \A t \in Ticket \ found : entry'[t] = entry[t]
            Lost ==
       \A p \in Player :
         /\ pointer[p] # "none" => entry[pointer[p]].phase # "gone"
         /\ pointer'[p] \in {pointer[p], "none"} \/ entry[pointer'[p]].phase = "none"
<1>1. ASSUME DropInIInv, [DeathmatchNext]_deathmatchVars, NEW c \in Call,
             call[c].pc = "undo", call'[c].pc = "idle", mishaps' = mishaps
      PROVE  Undoes(c)
  <2>1. PICK d \in Call : StepOf(d)
    BY <1>1, OneCall
  <2>2. d = c
    BY <1>1, <2>1 DEF StepOf
  <2>3. CancelCaptured(c)
    BY <1>1, <2>1, <2>2 DEF StepOf
  <2>4. PICK ts : Remove(ts) /\ ts \subseteq {t \in {call[c].ticket} : entry[t].phase = "searching"}
    BY <2>3 DEF CancelCaptured
  <2>. QED
    BY <2>4 DEF Remove
<1>2. DropInIInv /\ Found /\ [DeathmatchNext]_deathmatchVars => Found' /\ Lost
  BY NextFound DEF Found, NewOnly
<1>3. DeathmatchInit => Found
  BY DEF DeathmatchInit, Found
<1>4. DropInIInv /\ Found /\ [DeathmatchNext]_deathmatchVars
        => [/\ \A c \in Call :
                 LET found == {t \in {call[c].ticket} : entry[t].phase = "searching"} IN
                 call[c].pc = "undo" /\ call'[c].pc = "idle" /\ mishaps' = mishaps =>
                   /\ \A p \in Player : pointer'[p] = pointer[p] \/ pointer[p] \in found
                   /\ \A t \in Ticket \ found : entry'[t] = entry[t]
            /\ \A p \in Player :
                 /\ pointer[p] # "none" => entry[pointer[p]].phase # "gone"
                 /\ pointer'[p] \in {pointer[p], "none"} \/ entry[pointer'[p]].phase = "none"]_deathmatchVars
  BY <1>1, <1>2
<1>5. DropInIInv /\ Found /\ [DeathmatchNext]_deathmatchVars => Found'
  BY <1>2
<1>. QED
  BY <1>3, <1>4, <1>5, DropInInvariant, PTL DEF DeathmatchSpec, OnlySearchingIsUndone
=============================================================================
