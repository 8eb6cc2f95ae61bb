SPECIFICATION ApiSpec
CONSTANTS
  Keys = {k1}
  Foreign = {}
  Workers = {w1}
  MaxAttempts = 1
  Retention = TRUE
  FaultKinds = {}
  MaxFaults = 0
  Requests = {r1}
  KeysOf <- AllKeys
INVARIANT FinishedAnswerHasReport
