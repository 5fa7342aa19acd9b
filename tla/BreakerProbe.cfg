SPECIFICATION InvokeSpec
CONSTANTS
  WindowSize = 3
  ThresholdNum = 3
  ThresholdDen = 5
  OpenTimeout = 2
  MaxSuccesses = 4
  Requests = {r1, r2, r3}
INVARIANTS
  OneProbe
CHECK_DEADLOCK FALSE
