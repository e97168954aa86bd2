SPECIFICATION FairSpec
CONSTANTS
  a = a
  b = b
  c1 = c1
  c2 = c2
  c3 = c3
  Peers = {a, b}
  Calls = {c1, c2, c3}
  CallerOf <- LastFromB
  Refused = {c2, c3}
  Writing <- ByBoth
  Closing <- FromB
  Terminators = {}
  Stalled = {}
  MaxData = 1
  Capacity = 1
INVARIANT PacketsAreWhole
PROPERTY ServeDrainsToReader
CHECK_DEADLOCK FALSE
