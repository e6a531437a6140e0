------------------------------- MODULE Plugin -------------------------------
(***************************************************************************)
(* The match plugin on the game server (aftertick_match.sp): warmup, start,*)
(* end, and the timers that watch who is missing.  One match is followed,  *)
(* which the agent prepares, and which is prepared a second time when the  *)
(* server process was lost or when an operator asks for it.  What the API  *)
(* makes of a reported absence is the operator Accepts.                    *)
(*                                                                         *)
(* Time goes by in ticks; a timer that is due fires before it goes on.  The *)
(* moments the plugin remembers are kept as the time that has passed since, *)
(* which is not told apart beyond Horizon.  Timers run in the time of the   *)
(* game and GetTime counts whole seconds of the clock, so that a check may  *)
(* find less time counted than its timer took: early says whose did.  That  *)
(* players come and go, how the game ends, when the map changes and what    *)
(* aftertick_auto_start is set to, is up to the engine and its operators.   *)
(***************************************************************************)
EXTENDS Integers, Sequences, FiniteSets

CONSTANTS
  Member,      \* the players a roster may have
  Grace,       \* aftertick_no_show_seconds and aftertick_abandon_seconds
  EmptyGrace,  \* aftertick_deathmatch_empty_seconds
  TimeLimit,   \* AFTERTICK_DEATHMATCH_TIME_LIMIT
  Horizon      \* bound on the time that is told apart

ASSUME PluginAssumption ==
  /\ IsFiniteSet(Member) /\ Member # {} /\ "none" \notin Member
  /\ Grace \in Nat \ {0} /\ EmptyGrace \in Nat \ {0} /\ TimeLimit \in Nat \ {0}
  /\ Horizon \in Nat /\ Horizon > Grace /\ Horizon > EmptyGrace /\ Horizon > TimeLimit

VARIABLES
  mode,      \* aftertick_mode
  phase,     \* g_State
  spent,     \* the time since the warmup (g_WarmupStartedAt) or the match began
  seat,      \* per player "away", "authorized", or "validated" a moment later
  listed,    \* the roster in the variables of the server
  loaded,    \* the roster the plugin has loaded, g_SteamIds
  gone,      \* per player the time since g_DisconnectedAt, or NotGone
  timers,    \* the timers that are set, with the time they have left
  lines,     \* the lines that change the match or report an absence
  unseen,    \* the time since each player was last connected
  again,     \* whether the match was prepared a second time
  early      \* players whose absence was checked before GetTime had counted the grace

pluginVars == <<mode, phase, spent, seat, listed, loaded, gone, timers, lines, unseen, again, early>>

Deathmatch == mode = "deathmatch"
Playing == phase \in {"warmup", "live"}

\* CountConnectedRoster, by the variables of the server.
Present == {p \in listed : seat[p] # "away"}

Nobody == "none"
NotGone == 0 - 1
Older(age) == IF age = Horizon THEN Horizon ELSE age + 1

Timer(kind, left, who) == [kind |-> kind, left |-> left, who |-> who]
OfKind(kind) == {t \in timers : t.kind = kind}

\* A line, and for an absence how long it took.
Line(type, who, took) == [type |-> type, who |-> who, took |-> took]
Write(type) == lines' = Append(lines, Line(type, Nobody, 0))

PluginInit ==
  /\ mode \in {"competitive", "deathmatch"}
  /\ listed \in IF Deathmatch THEN (SUBSET Member) \ {{}} ELSE {Member}
  /\ phase = "idle" /\ loaded = {} /\ spent = 0
  /\ seat = [p \in Member |-> "away"] /\ unseen = [p \in Member |-> Horizon]
  /\ gone = [p \in Member |-> NotGone]
  /\ timers = {} /\ lines = <<>> /\ again = FALSE /\ early = {}

-----------------------------------------------------------------------------
(* Preparing a match.                                                      *)

\* PrepareMatch.  The timers that end with the map are gone only if it changed;
\* a new generation leaves the old timers for an empty server without effect.
PrepareMatch(old) ==
  /\ phase' = "warmup" /\ spent' = 0
  /\ loaded' = listed /\ gone' = [p \in Member |-> NotGone] /\ early' = {}
  /\ timers' = {t \in old : t.kind # "empty"} \cup {Timer("roster", 1, Nobody)}
       \cup IF Deathmatch THEN {Timer("empty", EmptyGrace, Nobody)} ELSE {}

\* OnMapStart, after the agent has set the variables and changes the map.
Configure ==
  /\ phase = "idle" /\ PrepareMatch({})
  /\ UNCHANGED <<mode, seat, listed, lines, unseen, again>>

\* An operator prepares the match once more, on the same map.
CommandPrepare ==
  /\ phase \in {"ended", "aborted"} /\ ~again /\ again' = TRUE
  /\ PrepareMatch(timers)
  /\ UNCHANGED <<mode, seat, listed, lines, unseen>>

\* The map changes in the middle of a match or after it: OnMapStart prepares it
\* anew, and the clients come back one by one.
MapChanges ==
  /\ phase # "idle" /\ ~again /\ again' = TRUE
  /\ PrepareMatch({})
  /\ seat' = [p \in Member |-> "away"]
  /\ unseen' = [p \in Member |-> IF p \in Present THEN 0 ELSE unseen[p]]
  /\ UNCHANGED <<mode, listed, lines>>

\* The server process is lost, and with it everything but the lines.  The agent
\* restores the match with Configure (restorePersistedMatch).
ServerLost ==
  /\ phase # "idle" /\ ~again /\ again' = TRUE
  /\ phase' = "idle" /\ loaded' = {} /\ timers' = {} /\ early' = {}
  /\ seat' = [p \in Member |-> "away"] /\ gone' = [p \in Member |-> NotGone]
  /\ unseen' = [p \in Member |-> IF p \in Present THEN 0 ELSE unseen[p]]
  /\ UNCHANGED <<mode, spent, listed, lines>>

\* A player was added to a deathmatch: the agent sets the variable, and the
\* command that appends to the loaded roster may run later.
RosterChanges(p) ==
  /\ Deathmatch /\ phase # "idle" /\ p \notin listed
  /\ listed' = listed \cup {p}
  /\ UNCHANGED <<mode, phase, spent, seat, loaded, gone, timers, lines, unseen, again, early>>

CommandSyncRoster ==
  /\ Deathmatch /\ Playing /\ loaded # listed
  /\ loaded' = listed
  /\ UNCHANGED <<mode, phase, spent, seat, listed, gone, timers, lines, unseen, again, early>>

-----------------------------------------------------------------------------
(* Players.                                                                *)

OnClientAuthorized(p) ==
  /\ phase # "idle" /\ seat[p] = "away"
  /\ seat' = [seat EXCEPT ![p] = "authorized"]
  /\ UNCHANGED <<mode, phase, spent, listed, loaded, gone, timers, lines, unseen, again, early>>

\* Mutant: a timer that an earlier absence has left will do for this one.
WatchMutant(p) ==
  IF \E t \in OfKind("abandon") : t.who = p THEN timers ELSE timers \cup {Timer("abandon", Grace, p)}
Watch(p) == timers \cup {Timer("abandon", Grace, p)}

\* OnClientDisconnect, also of a client that is kicked.  Whether the engine still
\* counts a client that is leaving is left open.
OnClientDisconnect(p) ==
  LET others == timers \ OfKind("empty")
      watched == others \cup {Timer("empty", EmptyGrace, Nobody)}
  IN
  /\ seat' = [seat EXCEPT ![p] = "away"]
  /\ unseen' = IF p \in listed THEN [unseen EXCEPT ![p] = 0] ELSE unseen
  /\ CASE phase = "live" /\ ~Deathmatch /\ p \in loaded ->
            /\ gone' = [gone EXCEPT ![p] = 0] /\ early' = early \ {p}
            /\ timers' = Watch(p)
       [] Playing /\ Deathmatch ->
            /\ \/ Present # {} /\ timers' = others
               \/ Present \subseteq {p} /\ timers' = watched
            /\ UNCHANGED <<gone, early>>
       [] OTHER -> UNCHANGED <<gone, timers, early>>
  /\ UNCHANGED <<mode, phase, spent, listed, loaded, lines, again>>

Leave(p) == seat[p] # "away" /\ OnClientDisconnect(p)

\* TimerValidateClient.  A player of the roster whom the plugin has not loaded
\* has no slot: the callback ends with an error and he stays.
ValidateClient(p) ==
  /\ seat[p] = "authorized"
  /\ \/ p \notin listed /\ OnClientDisconnect(p)
     \/ /\ p \in listed
        /\ seat' = [seat EXCEPT ![p] = "validated"]
        /\ gone' = IF p \in loaded THEN [gone EXCEPT ![p] = NotGone] ELSE gone
        /\ timers' = IF p \in loaded /\ Deathmatch THEN timers \ OfKind("empty") ELSE timers
        /\ UNCHANGED <<mode, phase, spent, listed, loaded, lines, unseen, again, early>>

-----------------------------------------------------------------------------
(* Start and end of the match.                                             *)

BeginMatch(rest) ==
  /\ phase' = "live" /\ spent' = 0
  /\ Write("live")
  /\ timers' = rest \cup IF Deathmatch THEN {Timer("limit", TimeLimit, Nobody)} ELSE {}

\* By hand, also when players are missing.
CommandBegin ==
  /\ phase = "warmup" /\ BeginMatch(timers)
  /\ UNCHANGED <<mode, seat, listed, loaded, gone, unseen, again, early>>

\* The win panel, the frag limit or a surrender.
MatchEnds ==
  /\ phase = "live" /\ phase' = "ended"
  /\ UNCHANGED <<mode, spent, seat, listed, loaded, gone, timers, lines, unseen, again, early>>

\* CommandAbort, of a drain or a quarantine.
CommandAbort ==
  /\ Playing /\ phase' = "aborted" /\ Write("aborted")
  /\ UNCHANGED <<mode, spent, seat, listed, loaded, gone, timers, unseen, again, early>>

-----------------------------------------------------------------------------
(* Timers.                                                                 *)

Due(kind) == {t \in OfKind(kind) : t.left = 0}

\* The lines of a no-show: one for each slot without a client, in some order.
NoShows == {p \in loaded : seat[p] = "away"}
NoShowLines ==
  {[i \in 1..Cardinality(NoShows) |-> Line("no_show", order[i], spent)] :
     order \in {f \in [1..Cardinality(NoShows) -> NoShows] :
                  \A i, j \in DOMAIN f : f[i] = f[j] => i = j}}

Everybody == IF Deathmatch THEN Present # {} ELSE Present = listed

\* TimerCheckRoster, every second of the warmup.  Without aftertick_auto_start a
\* full roster is given up like any other.
TimerCheckRoster(t) ==
  LET rest == timers \ {t}
      repeated == rest \cup {[t EXCEPT !.left = 1]}
  IN
  /\ t \in Due("roster")
  /\ \E autoStart \in BOOLEAN :
     CASE phase # "warmup" ->
            /\ timers' = rest
            /\ UNCHANGED <<phase, spent, lines>>
       [] phase = "warmup" /\ autoStart /\ Everybody -> BeginMatch(rest)
       [] phase = "warmup" /\ ~(autoStart /\ Everybody) /\ ~Deathmatch /\ spent >= Grace ->
            /\ phase' = "aborted" /\ timers' = rest
            /\ \E missing \in NoShowLines :
                 lines' = lines \o missing \o <<Line("aborted", Nobody, 0)>>
            /\ UNCHANGED spent
       [] OTHER ->
            /\ timers' = repeated
            /\ UNCHANGED <<phase, spent, lines>>
  /\ UNCHANGED <<mode, seat, listed, loaded, gone, unseen, again, early>>

\* Mutant: a timer set for an earlier absence ends the match.
TimerCheckAbandonMutant(t) ==
  LET p == t.who IN
  /\ t \in Due("abandon")
  /\ timers' = timers \ {t}
  /\ IF phase = "live" /\ gone[p] # NotGone /\ seat[p] = "away"
     THEN /\ phase' = "ended"
          /\ lines' = Append(lines, Line("abandoned", p, gone[p]))
          /\ UNCHANGED gone
     ELSE UNCHANGED <<phase, gone, lines>>
  /\ UNCHANGED <<mode, spent, seat, listed, loaded, unseen, again, early>>

\* TimerCheckAbandon: the match is forfeited.  A check that finds less than the
\* grace is not repeated.
TimerCheckAbandon(t) ==
  LET p == t.who IN
  /\ t \in Due("abandon")
  /\ timers' = timers \ {t}
  /\ CASE phase # "live" -> UNCHANGED <<phase, gone, lines, early>>
       [] phase = "live" /\ (gone[p] = NotGone \/ seat[p] # "away") ->
            /\ gone' = [gone EXCEPT ![p] = NotGone]
            /\ UNCHANGED <<phase, lines, early>>
       [] phase = "live" /\ gone[p] # NotGone /\ seat[p] = "away" /\ gone[p] >= Grace ->
            /\ \/ /\ phase' = "ended"
                  /\ lines' = Append(lines, Line("abandoned", p, gone[p]))
                  /\ UNCHANGED early
               \/ early' = early \cup {p} /\ UNCHANGED <<phase, lines>>
            /\ UNCHANGED gone
       [] OTHER -> UNCHANGED <<phase, gone, lines, early>>
  /\ UNCHANGED <<mode, spent, seat, listed, loaded, unseen, again>>

\* TimerAbortEmptyDeathmatch, of the current generation.
TimerAbortEmpty(t) ==
  /\ t \in Due("empty")
  /\ timers' = timers \ {t}
  /\ \/ /\ Playing /\ Deathmatch /\ Present = {}
        /\ phase' = "aborted"
        /\ lines' = Append(lines, Line("empty", Nobody, 0))
     \/ /\ ~(Playing /\ Deathmatch /\ Present = {})
        /\ UNCHANGED <<phase, lines>>
  /\ UNCHANGED <<mode, spent, seat, listed, loaded, gone, unseen, again, early>>

\* TimerDeathmatchLimit, also one that an earlier match has left.
TimerLimit(t) ==
  /\ t \in Due("limit")
  /\ timers' = timers \ {t}
  /\ phase' = IF phase = "live" /\ Deathmatch THEN "ended" ELSE phase
  /\ UNCHANGED <<mode, spent, seat, listed, loaded, gone, lines, unseen, again, early>>

Tick ==
  /\ \A t \in timers : t.left > 0
  /\ timers' = {[t EXCEPT !.left = @ - 1] : t \in timers}
  /\ spent' = Older(spent)
  /\ unseen' = [p \in Member |-> Older(unseen[p])]
  /\ gone' = [p \in Member |-> IF gone[p] = NotGone THEN NotGone ELSE Older(gone[p])]
  /\ UNCHANGED <<mode, phase, seat, listed, loaded, lines, again, early>>

PluginNext ==
  \/ Configure \/ CommandPrepare \/ MapChanges \/ ServerLost \/ CommandSyncRoster
  \/ \E p \in Member :
       RosterChanges(p) \/ OnClientAuthorized(p) \/ ValidateClient(p) \/ Leave(p)
  \/ CommandBegin \/ MatchEnds \/ CommandAbort
  \/ \E t \in timers :
       TimerCheckRoster(t) \/ TimerCheckAbandon(t) \/ TimerAbortEmpty(t) \/ TimerLimit(t)
  \/ Tick

PluginSpec == PluginInit /\ [][PluginNext]_pluginVars

-----------------------------------------------------------------------------
(* The API (recordParticipationViolation).                                 *)

\* The status of the match when line n arrives; the pump keeps their order.
StatusAt(n) ==
  IF \E k \in 1..(n - 1) : lines[k].type \in {"aborted", "empty"} THEN "cancelled"
  ELSE IF \E k \in 1..(n - 1) : lines[k].type = "live" THEN "live" ELSE "pending"

\* A refusal ends the batch, which comes back for ever.
Accepts(n) ==
  /\ lines[n].took >= Grace
  /\ StatusAt(n) = IF lines[n].type = "no_show" THEN "pending" ELSE "live"

-----------------------------------------------------------------------------
PluginTypeOK ==
  LET Age == 0..Horizon IN
  /\ mode \in {"competitive", "deathmatch"}
  /\ phase \in {"idle", "warmup", "live", "ended", "aborted"} /\ spent \in Age
  /\ seat \in [Member -> {"away", "authorized", "validated"}]
  /\ listed \subseteq Member /\ loaded \subseteq listed
  /\ gone \in [Member -> Age \cup {NotGone}] /\ unseen \in [Member -> Age]
  /\ timers \subseteq [kind : {"roster", "abandon", "empty", "limit"}, left : Age, who : Member \cup {Nobody}]
  /\ lines \in Seq([type : {"live", "aborted", "empty", "no_show", "abandoned"},
                    who : Member \cup {Nobody}, took : Age])
  /\ again \in BOOLEAN /\ early \subseteq Member

\* Only an absence that was real costs anybody anything: a match is forfeited
\* for a player who was away for the whole grace, whatever timers earlier
\* absences have left; a no-show is one at the end of a full warmup; a deathmatch
\* is given up when nobody of its roster was there throughout the grace (lines
\* 274, 342, 376).  The API accepts each report of a match that is prepared once:
\* its clock, its order and the status it expects fit (match-ingestion-service.ts:759).
AbsenceIsReal ==
  [][\A n \in (Len(lines) + 1)..Len(lines') :
       LET e == lines'[n] IN
       /\ e.type = "abandoned" => seat[e.who] = "away" /\ unseen[e.who] >= Grace
       /\ e.type = "no_show" => seat[e.who] = "away" /\ spent >= Grace
       /\ e.type = "empty" => \A p \in listed : seat[p] = "away" /\ unseen[p] >= EmptyGrace
       /\ e.type \in {"no_show", "abandoned"} => Accepts(n)' \/ again]_pluginVars

\* Nobody waits longer than the rules say, which needs a timer for every absence
\* and one that is still right when it fires: a competitive match neither waits
\* in its warmup nor plays on without a player who left it longer than the
\* grace, and a deathmatch ends at its limit (architecture.md:94), to the second
\* of GetTime.  Left out is a player whose check found the grace not quite over:
\* he is not looked at again (aftertick_match.sp:354).
NobodyIsAwaited ==
  /\ phase = "warmup" /\ ~Deathmatch => spent <= Grace
  /\ phase = "live" /\ ~Deathmatch =>
       \A p \in loaded \ early : seat[p] = "away" /\ unseen[p] < spent => unseen[p] <= Grace
  /\ phase = "live" /\ Deathmatch => spent <= TimeLimit
=============================================================================
