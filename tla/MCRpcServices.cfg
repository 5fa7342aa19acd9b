SPECIFICATION MCSpec
CONSTANTS
  Servers = {1, 2}
  None = None
  Timeout = 2
  Every = 1
  Update = 1
  MaxTime = 4
  Reqs = {r1, r2}
  Setups <- MCSetups
INVARIANTS
  AnsweredOnce
  NoConnLeft
  DiscoveryAccurate
  BroadcastHonest
PROPERTY RequestsEnd
CHECK_DEADLOCK FALSE
