SPECIFICATION Spec
CONSTANTS
  Requests = {}
  PoolSize = 1
  Signals = FALSE
INVARIANTS
  ErrorsAreReturned
CHECK_DEADLOCK FALSE
