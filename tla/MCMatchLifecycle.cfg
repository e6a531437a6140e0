SPECIFICATION FairSpec
CONSTANTS
  Match = {m1}
  NoMatch = NoMatch
  Deathmatch = {m1}
  Request = {s1}
  Timer = {t1}
  Checksum = {c1, c2}
  NoChecksum = NoChecksum
  MaxLeases = 2
  MaxCrashes = 1
CHECK_DEADLOCK FALSE
INVARIANTS SettledOnce SettledGivesServerBack
PROPERTIES ConflictBlocksSettlement EndsForGood DeferredIsSettled
