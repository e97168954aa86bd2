SPECIFICATION FairSpec
CONSTANTS
  Lengths <- Sizes
  MaxFrames = 4
  Uint32 = 8
INVARIANT TypeOK
INVARIANT OwnFrame
INVARIANT Contiguous
PROPERTY CancelReturns
CHECK_DEADLOCK FALSE
