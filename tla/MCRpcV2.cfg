SPECIFICATION MCSpec
CONSTANTS
  Addrs = {a1, a2}
  Ids = {1, 2, 3, 4}
  None = None
  MaxActive = 2
  Conns = {c1, c2}
  Msgs = {m1, m2}
  c1 = c1
  c2 = c2
  m1 = m1
  m2 = m2
  Size <- MCSize
  Over <- MCOver
  Rate = 1
  MaxFills = 1
  Setups <- MCSetups
  Finders = {f1, f2}
  Watcher = w
  MaxEvents = 3
  WindowSize = 3
  ThresholdNum = 3
  ThresholdDen = 5
  OpenTimeout = 2
  MaxSuccesses = 4
  Requests = {r1, r2, r3}
INVARIANTS
  OpensInTime
  OneAnswerEach
  ShutdownLeavesLate
  PoolKeepsTrack
  CacheTracksEtcd
PROPERTIES
  KeepsAdmitting
  DiscoverEnds
CHECK_DEADLOCK FALSE
