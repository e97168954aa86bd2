SPECIFICATION LoopSpec
CONSTANTS
  MaxFrames = 3
  MaxPuts = 2
  Uint32 = 8
INVARIANT TypeOK
INVARIANT FIFO
INVARIANT NextTrueMeansFrame
INVARIANT NoLostWakeup
INVARIANT NoDoubleClose
INVARIANT EndIsComplete
PROPERTY FirstCauseWins
PROPERTY ImplementsStream
PROPERTY NextReturns
PROPERTY EndIsTold
