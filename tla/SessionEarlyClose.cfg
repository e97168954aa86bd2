SPECIFICATION Spec
CONSTANTS
  a = a
  b = b
  c1 = c1
  c2 = c2
  Peers = {a, b}
  Calls = {c1}
  CallerOf <- OneFromA
  TypeOf <- OneDuplex
  Unhandled = {c1}
  MaxData = 1
  CallerMay = {"write", "close", "cancel", "ctx"}
  HandlerMay = {"write", "close", "request", "return"}
  Terminators = {}
  Crashers = {b}
INVARIANT TypeOK
INVARIANT ClosedStaysClosed
CHECK_DEADLOCK FALSE
