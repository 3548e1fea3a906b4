SPECIFICATION Spec
CONSTANTS
  MaxRuns = 6
  Api <- MCApi
INVARIANTS
  SnapshotIsOldOrNew
  BuiltSetIsMatched
  LockedBindings
CHECK_DEADLOCK FALSE
