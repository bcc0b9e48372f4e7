CONSTANTS
  ReconnectEnabled = TRUE
  MaxRetries = 2
  Container = FALSE
  RingCapacity = 1
  AttemptCap = 3
SPECIFICATION Spec
INVARIANT NoReconnectAfterFree
