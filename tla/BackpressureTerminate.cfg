SPECIFICATION FairSpec
CONSTANTS
  a = a
  b = b
  c1 = c1
  c2 = c2
  c3 = c3
  Peers = {a, b}
  Calls = {c1}
  CallerOf <- AllFromA
  Refused = {}
  Writing <- FromA
  Closing = {}
  Terminators = {a}
  Stalled = {b}
  MaxData = 1
  Capacity = 1
PROPERTY TerminateReturns
CHECK_DEADLOCK FALSE
