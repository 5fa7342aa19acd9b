SPECIFICATION MCSpec
CONSTANTS
  Requests = {1, 2}
  Sessions = {s1, s2}
  None = None
  Setups <- MCSetups
  Uploads = {u1, u2}
  Questions = {q1}
  MaxEnds = 1
INVARIANTS
  NoMoreThanPublished
  SavedIsRemembered
  ShownBelongs
  NoOrphanIndex
  AnsweredFromLatest
PROPERTY LoadingEnds
CHECK_DEADLOCK FALSE
