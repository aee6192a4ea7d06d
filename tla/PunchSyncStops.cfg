SPECIFICATION FairPunchSpec
CONSTANTS
  MaxPunches = 2
  MaxBatches = 2
  SyncJobs = {"scheduled"}
  PunchWorkers = {w1}
  BatchSize = 2
  MaxAttempts = 2
  MaxDrains = 2
  Record <- MCRecord
  Unmapped = {}
  Faults = {}
  MaxFaults = 0
PROPERTY EveryPunchFetched
CHECK_DEADLOCK FALSE
