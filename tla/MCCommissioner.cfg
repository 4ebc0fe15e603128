CONSTANTS
  Buffers = 2
  MaxFrames = 2
  Depth = 2
  EarlyTaps = FALSE
  Repeats = FALSE
SPECIFICATION FairSpec
INVARIANTS FailureIsFresh 
PROPERTIES CancelSticks DeviceComesFree
