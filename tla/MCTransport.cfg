SPECIFICATION FairSpec
CONSTANTS
  Calls = {c1, c2, c3}
  Reader = Reader
  None = None
INVARIANTS
  NoFutureHangs
  DoubleDoneOnlyBySender
PROPERTY BrokenCompletes
CHECK_DEADLOCK FALSE
