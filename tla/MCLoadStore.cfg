SPECIFICATION MCSpec
CONSTANTS
  p1 = p1
  p2 = p2
  p3 = p3
  p4 = p4
  Callers <- MCCallers
  FlightKeys = {k1, k2}
  Values = {v1, v2}
  None = None
  k1 = k1
  k2 = k2
  Keys <- MCKeys
  NBuckets = 1
  Hash <- MCHash
  Cap1 = 1
  Cap2 = 1
  TTLs = {0, 1}
  MaxWrites = 3
  MaxTime = 2
INVARIANTS
  OneInFlight
  EntryOwned
  SameResult
  StoreSound
PROPERTIES
  CallersServed
  ExpiredLeave
CHECK_DEADLOCK FALSE
