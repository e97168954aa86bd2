SPECIFICATION Spec
CONSTANTS
  Encodings = {"binary", "string", "json"}
  Pours <- Typed
  Mixed = TRUE
  MaxPours = 2
  MaxEnds = 1
INVARIANT FlagsTellType
CHECK_DEADLOCK FALSE
