SPECIFICATION ImportSpec
CONSTANTS
  LastChunk = 2
  LastRead = 3
  MaxExecutions = 2
  Clients = {c1}
  MaxRequests = 3
  MaxChunks = 2
  MaxDirect = 2
  MaxAttempts = 2
  MaxStalls = 1
  Patches = {"completed"}
  Faults = {"error", "crash", "queue"}
  MaxFaults = 2
INVARIANTS ImportTypeOK CheckpointIsStaged CompletedIsComplete EndedIsRecorded
CHECK_DEADLOCK FALSE
