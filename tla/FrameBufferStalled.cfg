SPECIFICATION FairSpec
CONSTANTS
  Lengths <- Sizes
  MaxFrames = 4
  Uint32 = 8
PROPERTY CancelStopsReading
CHECK_DEADLOCK FALSE
