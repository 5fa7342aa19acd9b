SPECIFICATION FairSpec
CONSTANTS
  a = a
  b = b
  k1 = k1
  c1 = c1
  c2 = c2
  Nodes = {a, b}
  Keys = {k1}
  Values = {v}
  Source = Source
  Error = Error
  None = None
  Clients = {c1, c2}
  Distance <- MCDistance
  Setups <- MCSetups
  MaxHops = 2
  MaxCrashes = 1
INVARIANTS
  NoSelfCall
  SetNotResent
PROPERTY GetsReturn
CHECK_DEADLOCK FALSE
