CONSTANTS
  ReconnectEnabled = FALSE
  MaxRetries = 0
  Container = TRUE
  RingCapacity = 2
  AttemptCap = 1
SPECIFICATION FairSpec
INVARIANTS
  TypeOK SendThreadHasItsResources NoConnectionLeaked
PROPERTIES ErrorIsKept ImplementsOutputStates StopCompletes
