SPECIFICATION Spec
CONSTANTS
  i1 = i1
  i2 = i2
  m1 = m1
  m2 = m2
  Instance = {i1, i2}
  Match = {m1, m2}
  MaxAttempts = 2
  MaxLeases = 2
  MaxCommands = 3
  MaxClaims = 2
  Attended = {i1}
  MaxWork = 3
  MaxInFlight = 1
  MaxOperator = 1
SYMMETRY Symmetries
INVARIANTS DrainedBeforeLease FailureStaysOut ReadyIsFree
PROPERTIES QuarantineHolds LeasesPerMatch LeasesPerInstance
CHECK_DEADLOCK FALSE
