CONSTANTS
  FrameSize = 3
  MaxSamples = 9
  MaxRestarts = 2
  MaxFaults = 2
SPECIFICATION Spec
INVARIANTS TypeOK AudioInOrder NoSilentLoss PositionCountsSamples FlushIsComplete
PROPERTY EncoderReturns
CHECK_DEADLOCK FALSE
