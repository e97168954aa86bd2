SPECIFICATION FairSpec
CONSTANTS
  a = a
  b = b
  c1 = c1
  c2 = c2
  Peers = {a, b}
  Calls = {c1}
  CallerOf <- OneFromA
  TypeOf <- OneSource
  Unhandled = {}
  MaxData = 1
  CallerMay = {"ctx"}
  HandlerMay = {"write", "close"}
  Terminators = {a}
  Crashers = {b}
INVARIANT NoStrandedCall
INVARIANT CleanEndIsComplete
PROPERTY SessionEnds
PROPERTY EndConverges
CHECK_DEADLOCK FALSE
