SPECIFICATION Spec
CONSTANTS
  s1 = s1
  s2 = s2
  s3 = s3
  Streams = {s1, s2, s3}
  MaxFrames = 1
  MaxPuts = 1
INVARIANT OneOwner
INVARIANT OwnFrames
SYMMETRY Symmetry
CHECK_DEADLOCK FALSE
