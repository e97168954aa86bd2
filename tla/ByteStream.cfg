SPECIFICATION FairSpec
CONSTANTS
  Total = 8
  ChunkSize = 3
  ReadSize = 2
INVARIANT BytesInOrder
PROPERTY EndIsRead
CHECK_DEADLOCK FALSE
