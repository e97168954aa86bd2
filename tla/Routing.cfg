SPECIFICATION Spec
CONSTANTS
  c = c
  Calls = {c}
  Methods <- MCMethods
  Root <- MCRoot
  Stub <- MCStub
  Manifest <- MCManifest
  Answers = {"good", "bad", "refused", "silent"}
INVARIANT TypeOK
INVARIANT NeverMisrouted
INVARIANT LocalRefusalIsRight
INVARIANT NoSilentCall
PROPERTY HandleReturns
PROPERTY RefusalIsTold
CHECK_DEADLOCK FALSE
