CONSTANT Outputs = {o1, o2}
SPECIFICATION FairSpec
INVARIANTS TypeOK ContextOutlivesCompletion JobAliveWhileUsed JobNotLeaked
PROPERTY CancelNeverWaitsForOpen
CHECK_DEADLOCK FALSE
