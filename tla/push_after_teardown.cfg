CONSTANTS
  ReconnectEnabled = FALSE
  MaxRetries = 0
  Container = FALSE
  RingCapacity = 2
  AttemptCap = 1
SPECIFICATION Spec
INVARIANT PushFindsMutex
