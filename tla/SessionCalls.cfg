SPECIFICATION AnswerSpec
CONSTANTS
  a = a
  b = b
  c1 = c1
  c2 = c2
  Peers = {a, b}
  Calls = {c1, c2}
  CallerOf <- OneEach
  TypeOf <- AsyncAndDuplex
  Unhandled = {c1}
  MaxData = 1
  CallerMay = {"write", "close"}
  HandlerMay = {"write", "close", "return"}
  Terminators = {}
  Crashers = {}
INVARIANT NoProtocolError
INVARIANT InSync
PROPERTY AsyncReturns
CHECK_DEADLOCK FALSE
