SPECIFICATION FairPunchSpec
CONSTANTS
  MaxPunches = 2
  MaxBatches = 2
  SyncJobs = {"manual"}
  PunchWorkers = {w1, w2}
  BatchSize = 2
  MaxAttempts = 2
  MaxDrains = 2
  Record <- MCRecord
  Unmapped = {2}
  Faults = {"sync", "queue", "insert", "redis", "attempt", "late attempt", "punch", "mark", "retry", "drain"}
  MaxFaults = 2
INVARIANTS PunchTypeOK HandedOver
PROPERTY FetchedIsCounted
CHECK_DEADLOCK FALSE
