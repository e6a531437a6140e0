SPECIFICATION Spec
CONSTANTS
  MaxLeases = 2
  MaxRevision = 2
  MaxAttempts = 2
  MaxCommands = 4
  MaxLines = 3
  MaxFaults = 1

PROPERTY EvidenceKept
CHECK_DEADLOCK FALSE
