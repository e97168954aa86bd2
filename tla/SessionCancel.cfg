SPECIFICATION Spec
CONSTANTS
  a = a
  b = b
  c1 = c1
  c2 = c2
  Peers = {a, b}
  Calls = {c1}
  CallerOf <- OneFromA
  TypeOf <- OneSource
  Unhandled = {}
  MaxData = 2
  CallerMay = {"cancel"}
  HandlerMay = {"write"}
  Terminators = {}
  Crashers = {}
INVARIANT InSync
CHECK_DEADLOCK FALSE
