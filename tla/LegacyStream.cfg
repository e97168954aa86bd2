SPECIFICATION Spec
CONSTANTS
  Encodings = {"binary", "string", "json"}
  Pours <- Typed
  Mixed = FALSE
  MaxPours = 3
  MaxEnds = 2
INVARIANT DecodedAsSent
INVARIANT FlagsTellType
CHECK_DEADLOCK FALSE
