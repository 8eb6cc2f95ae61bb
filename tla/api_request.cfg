SPECIFICATION ApiSpec
CONSTANTS
  Keys = {k1, k2}
  Foreign = {f1}
  Workers = {w1}
  MaxAttempts = 1
  Retention = TRUE
  FaultKinds = {"error", "reply", "lapse", "evict", "group", "flush"}
  MaxFaults = 1
  Requests = {r1}
  KeysOf <- AllKeys
SYMMETRY KeyAndWorkerSymmetry
INVARIANT NotFoundIsGone
