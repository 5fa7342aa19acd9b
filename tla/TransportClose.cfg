SPECIFICATION Spec
CONSTANTS
  Calls = {c1, c2, c3}
  Reader = Reader
  None = None
INVARIANT FailsAllPending
CHECK_DEADLOCK FALSE
