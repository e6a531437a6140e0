---------------------------- MODULE Progression ----------------------------
(***************************************************************************)
(* Levels, XP and service medals of the players: what a settled match pays *)
(* out (the profile part of settleMatch, settle-match.ts), the levels it   *)
(* crosses and their rewards (progression.ts, service-level-rewards.ts),   *)
(* the redemption of a medal for a player at the top                       *)
(* (service-medal-service.ts) and the one conversion of old XP that        *)
(* migration 033 runs (convert-profile-xp.ts).  Each of these is one       *)
(* transaction that locks the rows of its players, so each is one step.    *)
(***************************************************************************)
EXTENDS Integers, FiniteSets

CONSTANTS
  Earner, Game,        \* players and matches
  PerLevel, TopLevel,  \* PROFILE_XP_PER_LEVEL, MAX_PROFILE_LEVEL
  MatchCap,            \* the most XP of one match
  RoundXp, KillXp,     \* what a round won, or a kill, is worth
  Points,              \* bound: rounds or kills of a player in a match
  OldXp,               \* the most XP a profile held before migration 033
  Years, MaxTier,      \* the years of the medals, the most tiers of a year
  Tiers                \* the tiers of a year: MEDAL_DEFINITIONS

ASSUME ProgressionAssumption ==
  /\ PerLevel \in Nat \ {0} /\ TopLevel \in Nat \ {0, 1}
  /\ MatchCap \in 0..PerLevel
  /\ RoundXp \in Nat /\ KillXp \in Nat /\ Points \in Nat /\ OldXp \in Nat
  /\ Years \in Nat /\ MaxTier \in Nat /\ Tiers \in [1..Years -> 1..MaxTier]
  /\ "none" \notin Game

VARIABLES
  profile,    \* profile_level, profile_xp, profile_xp_reserve, service_prestige
  entered,    \* the level a player entered with: nothing was granted up to it
  xpLedger,   \* player_xp_ledger
  rewards,    \* player_service_drops
  paid,       \* the matches that are completed
  ownedTier,  \* player_service_medals: the tier of a year, 0 if there is none
  redeemed,   \* player_service_medal_redemptions
  converted   \* migration 033 has been applied

progressionVars == <<profile, entered, xpLedger, rewards, paid, ownedTier, redeemed, converted>>

Lesser(a, b) == IF a <= b THEN a ELSE b
Profile(level, xp, reserve, prestige) == [level |-> level, xp |-> xp, reserve |-> reserve, prestige |-> prestige]

-----------------------------------------------------------------------------
(* The medals, a tier of every year after the other; a medal is a tier and *)
(* a year, and its rank the number of those before it.                     *)

Medal == {d \in (1..MaxTier) \X (1..Years) : d[1] <= Tiers[d[2]]}
Before(d) == {e \in Medal : e[1] < d[1] \/ (e[1] = d[1] /\ e[2] < d[2])}
Rank(d) == Cardinality(Before(d))

ProgressionInit ==
  /\ profile \in [Earner -> [level : 1..TopLevel, xp : 0..OldXp, reserve : {0}, prestige : {0}]]
  /\ entered = [e \in Earner |-> profile[e].level]
  /\ xpLedger = {} /\ rewards = {} /\ paid = {}
  /\ ownedTier = [e \in Earner |-> [y \in 1..Years |-> 0]]
  /\ redeemed = [e \in Earner |-> {}]
  /\ converted = FALSE

-----------------------------------------------------------------------------
(* The arithmetic of levels.                                               *)

MatchXp(points, worth) == Lesser(points * worth, MatchCap)

\* The test of the loop fails once k levels have been gained.
LoopEnds(level, xp, k) == level + k >= TopLevel \/ xp - k * PerLevel < PerLevel
Gained(level, xp) ==
  CHOOSE k \in 0..TopLevel : LoopEnds(level, xp, k) /\ \A j \in 0..(k - 1) : ~LoopEnds(level, xp, j)

\* advanceProfile refuses a profile that is not one.
Valid(p) == p.level \in 1..TopLevel /\ p.xp \in 0..(PerLevel - 1)

\* Mutant: a gained level starts at no XP.
AdvancedMutant(p, earned) ==
  LET k == Gained(p.level, p.xp + earned)
      xp == IF k > 0 THEN 0 ELSE p.xp + earned
  IN Profile(p.level + k, IF p.level + k = TopLevel THEN Lesser(xp, PerLevel - 1) ELSE xp, p.reserve, p.prestige)

Advanced(p, earned) ==
  LET k == Gained(p.level, p.xp + earned)
      xp == p.xp + earned - k * PerLevel
  IN Profile(p.level + k, IF p.level + k = TopLevel THEN Lesser(xp, PerLevel - 1) ELSE xp, p.reserve, p.prestige)

Converted(p) ==
  LET k == Lesser(TopLevel - p.level, p.xp \div PerLevel)
      left == p.xp - k * PerLevel
      top == p.level + k = TopLevel
  IN Profile(p.level + k, IF top THEN 0 ELSE left, IF top THEN left ELSE 0, p.prestige)

\* Mutant: the reward of the last level crossed is left out.
CrossedMutant(from, to) == (from + 1)..(to - 1)

\* The levels that a match, a redemption (service-medal-service.ts:102) or the
\* conversion (convert-profile-xp.ts:21) crosses, each of them rewarded.
Crossed(from, to) == (from + 1)..to

\* grantServiceLevelRewards for each level crossed: the rows it inserts.
Granted(e, levels, prestige, match) ==
  {[player |-> e, prestige |-> prestige, level |-> l, match |-> match] : l \in levels}

Has(e, prestige, level) == \E r \in rewards : r.player = e /\ r.prestige = prestige /\ r.level = level

-----------------------------------------------------------------------------
\* convertProfileXpTo1000, once, before the code that settles by the new rules.
ConvertProfileXp ==
  /\ ~converted /\ converted' = TRUE
  /\ profile' = [e \in Earner |-> Converted(profile[e])]
  /\ rewards' = rewards \cup UNION {Granted(e, Crossed(profile[e].level, profile'[e].level),
                                            profile[e].prestige, "none") : e \in Earner}
  /\ UNCHANGED <<entered, xpLedger, paid, ownedTier, redeemed>>

\* The profiles of the roster: a player whose points earn nothing, or who has
\* been paid for the match before, is passed over.  A profile that is not valid
\* or a level that has its reward already ends the transaction: nothing is
\* settled then.  Points are free for each player, also in a competitive match,
\* where those of a team have the same.
SettleProfiles(m, roster, points, worth) ==
  LET earned(e) == MatchXp(points[e], worth)
      earns(e) == e \in roster /\ earned(e) # 0 /\ ~\E r \in xpLedger : r.player = e /\ r.match = m
      crossed(e) == Crossed(profile[e].level, profile'[e].level)
  IN /\ converted /\ m \notin paid
     /\ \A e \in roster : earned(e) # 0 => Valid(profile[e])
     /\ profile' = [e \in Earner |-> IF earns(e) THEN Advanced(profile[e], earned(e)) ELSE profile[e]]
     /\ \A e \in Earner : \A l \in crossed(e) : ~Has(e, profile[e].prestige, l)
     /\ rewards' = rewards \cup UNION {Granted(e, crossed(e), profile[e].prestige, m) : e \in Earner}
     /\ xpLedger' = xpLedger \cup
          {[player |-> e, match |-> m, xp |-> earned(e)] : e \in {f \in Earner : earns(f)}}
     /\ paid' = paid \cup {m}
     /\ UNCHANGED <<entered, ownedTier, redeemed, converted>>

\* Mutant: the row of a year is not inserted with its first medal.
TierRaisedMutant(e, d) == IF d[1] = 1 THEN ownedTier ELSE [ownedTier EXCEPT ![e][d[2]] = d[1]]

TierRaised(e, d) == [ownedTier EXCEPT ![e][d[2]] = d[1]]

\* redeem: the medal d is the next one, and its year has the tier before it or,
\* for a first tier, none.  A full inventory, an earlier redemption or any other
\* condition that fails refuses it, and nothing changes.
Redeem(e, d) ==
  LET p == profile[e]
      next == Advanced(Profile(1, 0, 0, p.prestige + 1), p.reserve)
  IN /\ converted
     /\ d \notin redeemed[e] /\ Rank(d) = p.prestige /\ p.level = TopLevel
     /\ ownedTier[e][d[2]] = d[1] - 1
     /\ ownedTier' = TierRaised(e, d)
     /\ redeemed' = [redeemed EXCEPT ![e] = @ \cup {d}]
     /\ profile' = [profile EXCEPT ![e] = next]
     /\ \A l \in Crossed(1, next.level) : ~Has(e, next.prestige, l)
     /\ rewards' = rewards \cup Granted(e, Crossed(1, next.level), next.prestige, "none")
     /\ UNCHANGED <<entered, xpLedger, paid, converted>>

ProgressionNext ==
  \/ ConvertProfileXp
  \/ \E m \in Game, roster \in SUBSET Earner, worth \in {RoundXp, KillXp} :
       \E points \in [roster -> 0..Points] : SettleProfiles(m, roster, points, worth)
  \/ \E e \in Earner, d \in Medal : Redeem(e, d)

ProgressionSpec == ProgressionInit /\ [][ProgressionNext]_progressionVars

-----------------------------------------------------------------------------
ProgressionTypeOK ==
  /\ profile \in [Earner -> [level : 1..TopLevel, xp : Nat, reserve : Nat, prestige : Nat]]
  /\ entered \in [Earner -> 1..TopLevel]
  /\ xpLedger \subseteq [player : Earner, match : Game, xp : 1..MatchCap]
  /\ rewards \subseteq [player : Earner, prestige : Nat, level : 1..TopLevel, match : Game \cup {"none"}]
  /\ paid \subseteq Game
  /\ ownedTier \in [Earner -> [1..Years -> 0..MaxTier]]
  /\ redeemed \in [Earner -> SUBSET Medal]
  /\ converted \in BOOLEAN

\* The levels of a prestige that have a reward by now.
Lowest(e, prestige) == IF prestige = 0 THEN entered[e] ELSE 1
Reached(e, prestige) ==
  IF prestige < profile[e].prestige THEN TopLevel
  ELSE IF prestige = profile[e].prestige THEN profile[e].level ELSE 0

\* Every level a player has reached since entering, in every prestige, has been
\* rewarded, and no level above; a match rewards at most one level of a player.
\* So neither unique key of player_service_drops, each of which would end a
\* settlement for its whole roster, is ever met.
LevelsRewardedOnce ==
  /\ \A e \in Earner, n \in 0..Cardinality(Medal), l \in 1..TopLevel :
       Has(e, n, l) <=> l > Lowest(e, n) /\ l <= Reached(e, n)
  /\ \A r, s \in rewards : r.player = s.player /\ r.match = s.match /\ r.match # "none" => r = s
  /\ converted => \A e \in Earner : Valid(profile[e])

\* The redemptions of a player are the medals up to the prestige, and the next
\* medal finds the tier before it: redeem never reports that a saved medal needs
\* repair or that an earlier one is missing.
MedalsInOrder ==
  \A e \in Earner :
    /\ redeemed[e] = {d \in Medal : Rank(d) < profile[e].prestige}
    /\ \A d \in Medal : Rank(d) = profile[e].prestige => ownedTier[e][d[2]] = d[1] - 1

\* The XP of a profile since its first level.
Worth(p) == (p.level - 1) * PerLevel + p.xp
Full == TopLevel * PerLevel - 1
Paid(e, x) ==
  IF \E r \in xpLedger' \ xpLedger : r.player = e
  THEN \E r \in xpLedger' \ xpLedger : r.player = e /\ r.xp = x ELSE x = 0

KeepsXp(e, x) ==
  LET p == profile[e]  q == profile'[e] IN
  IF ~converted THEN Worth(q) + q.reserve = Worth(p) + p.reserve
  ELSE IF q.prestige = p.prestige
  THEN Worth(q) = Lesser(Worth(p) + x, Full) /\ q.reserve = p.reserve
  ELSE p.level = TopLevel /\ q.prestige = p.prestige + 1 /\ Worth(q) = Lesser(p.reserve, Full) /\ q.reserve = 0

\* No XP is lost or made up where levels are crossed: the conversion keeps all
\* of it; a match adds what the ledger says, up to the end of the last level; a
\* redemption starts again with the reserve.
XpIsConserved ==
  [][\A e \in Earner : \E x \in 0..MatchCap : Paid(e, x) /\ KeepsXp(e, x)]_progressionVars
=============================================================================
