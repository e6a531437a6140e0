SPECIFICATION Spec
CONSTANTS
  Match = {m1, m2}
  NoMatch = NoMatch
  Deathmatch = {}
  Request = {}
  Timer = {}
  Checksum = {c1}
  NoChecksum = NoChecksum
  MaxLeases = 3
  MaxCrashes = 0
SYMMETRY MatchSymmetry
CHECK_DEADLOCK FALSE
INVARIANT RemakeHasServer
