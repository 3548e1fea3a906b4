SPECIFICATION Spec
CONSTANTS
  a = a
  b = b
  c = c
  Callers <- MCCallers
  MaxCalls = 2
INVARIANTS
  OneSharedHandle
PROPERTIES
  RetryStartsOver
  CallersAreAnswered
CHECK_DEADLOCK FALSE
