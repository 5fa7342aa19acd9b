SPECIFICATION FairSpec
CONSTANTS
  a1 = a1
  a2 = a2
  s1 = s1
  Calls <- MCCalls
  Async <- MCAsync
  DoneCap = 1
  NoCall = NoCall
  Receiver = Receiver
INVARIANTS
  AtMostOnce
  NoCallLost
  RepliesMatch
PROPERTY BrokenCompletes
CHECK_DEADLOCK FALSE
