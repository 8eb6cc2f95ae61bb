SPECIFICATION Spec
CONSTANTS
  Keys = {k1}
  Foreign = {}
  Workers = {w1, w2}
  MaxAttempts = 1
  Retention = TRUE
  FaultKinds = {"crash"}
  MaxFaults = 1
INVARIANT FailedHasNoReport
