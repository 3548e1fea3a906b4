SPECIFICATION SpecInterrupted
CONSTANTS
  MaxRuns = 4
  Api <- MCApi
INVARIANTS
  SnapshotIsOldOrNew
CHECK_DEADLOCK FALSE
