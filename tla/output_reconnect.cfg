CONSTANTS
  ReconnectEnabled = TRUE
  MaxRetries = 2
  Container = TRUE
  RingCapacity = 1
  AttemptCap = 3
SPECIFICATION FairSpec
INVARIANTS
  EncoderExclusive NoLostWakeup StateTellsTheTruth RetryBudget
  HeadersFirstAfterReconnect OneOwnedConnection
PROPERTIES LossOrStopIsResolved ImplementsConnectJob
