----------------------------- MODULE MCServices -----------------------------
(***************************************************************************)
(* The services that share no state with one another, each checked by      *)
(* itself: one of them is chosen at the start and the others never move.   *)
(***************************************************************************)
EXTENDS Deathmatch, Parties, Trading, Demos, Plugin, Progression, TLC

VARIABLE service
vars == <<deathmatchVars, partyVars, tradingVars, demoVars, pluginVars, progressionVars, service>>

\* Two years of medals, the second with two tiers.
FewTiers == <<1, 2>>

Init ==
  /\ service \in {"deathmatch", "parties", "trading", "demos", "plugin", "progression"}
  /\ DeathmatchInit /\ PartiesInit /\ TradingInit /\ DemosInit /\ PluginInit
  /\ ProgressionInit
  /\ service # "demos" => verdict = "completed"
  /\ service # "plugin" => mode = "competitive"
  /\ service # "progression" => \A e \in Earner : profile[e].level = 1 /\ profile[e].xp = 0

Next ==
  \/ /\ service = "deathmatch" /\ DeathmatchNext
     /\ UNCHANGED <<partyVars, tradingVars, demoVars, pluginVars, progressionVars, service>>
  \/ /\ service = "parties" /\ PartiesNext
     /\ UNCHANGED <<deathmatchVars, tradingVars, demoVars, pluginVars, progressionVars, service>>
  \/ /\ service = "trading" /\ TradingNext
     /\ UNCHANGED <<deathmatchVars, partyVars, demoVars, pluginVars, progressionVars, service>>
  \/ /\ service = "demos" /\ DemosNext
     /\ UNCHANGED <<deathmatchVars, partyVars, tradingVars, pluginVars, progressionVars, service>>
  \/ /\ service = "plugin" /\ PluginNext
     /\ UNCHANGED <<deathmatchVars, partyVars, tradingVars, demoVars, progressionVars, service>>
  \/ /\ service = "progression" /\ ProgressionNext
     /\ UNCHANGED <<deathmatchVars, partyVars, tradingVars, demoVars, pluginVars, service>>

Spec == Init /\ [][Next]_vars

\* The variables of the service have the types of its module.
ServicesTypeOK ==
  CASE service = "deathmatch" -> DeathmatchTypeOK
    [] service = "parties" -> PartiesTypeOK
    [] service = "trading" -> TradingTypeOK
    [] service = "demos" -> DemosTypeOK
    [] service = "plugin" -> PluginTypeOK
    [] service = "progression" -> ProgressionTypeOK

\* The services share their names, so that the group stays small.
Symmetry == Permutations(Player) \cup Permutations(Call) \cup Permutations(Ticket)
=============================================================================
