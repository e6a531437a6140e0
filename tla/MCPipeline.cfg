SPECIFICATION FairSpec
CONSTANTS
  Process = {a, b}
  Match = {m1, m2}
  Servers = 1
  MaxFaults = 1
PROPERTIES  CancellationArrives AcceptedIsAssigned
CHECK_DEADLOCK FALSE
