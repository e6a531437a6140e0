SPECIFICATION Spec
CONSTANTS
  MaxLeases = 2
  MaxRevision = 2
  MaxAttempts = 2
  MaxCommands = 4
  MaxLines = 3
  MaxFaults = 1
INVARIANTS EventsInOrder SyncedIsWritten
PROPERTIES ResultKept ReceiptShown ActiveMatchKept
CHECK_DEADLOCK FALSE
