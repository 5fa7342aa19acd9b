SPECIFICATION MCSpec
CONSTANTS
  EntryKeys = {k1, k2}
  k1 = k1
  k2 = k2
  k3 = k3
  k4 = k4
  Keys <- MCKeys
  v1 = v1
  v2 = v2
  Values <- MCValues
  Times = {0, 1}
  Cap = 3
  NoKey = NoKey
  Elems = {1, 2, 3, 4}
  Root = Root
  None = None
  MaxBytes = 2
  Procs = {p, q}
  Askers = {p, q}
  p = p
  q = q
  Sizes = {1, 2}
  MaxDeletes = 1
  Calls <- MCCalls
  Members = {n1, n2}
  n1 = n1
  n2 = n2
  Nobody = Nobody
  Hash <- MCHash
  Points = {1, 4, 7}
  DefaultReplicas = 2
  MinReplicas = 1
  MaxReplicas = 4
  MinRequests = 2
  MaxRequests = 4
  Names = {"a", "b"}
  Groups = {g1, g2, g3}
  g1 = g1
  g2 = g2
  g3 = g3
  Name <- MCName
INVARIANTS
  ListAgrees
  CloseIsFinal
  RingRoutes
  WellFormed
PROPERTIES
  ImplementsList
  CallsEnd
CHECK_DEADLOCK FALSE
