SPECIFICATION ApiSpec
CONSTANTS
  Keys = {k1}
  Foreign = {}
  Workers = {w1, w2}
  MaxAttempts = 2
  Retention = TRUE
  FaultKinds = {"error", "reply", "lapse", "crash", "stop", "group", "evict", "flush"}
  MaxFaults = 2
  Requests = {r1}
  KeysOf <- AllKeys
SYMMETRY WorkerSymmetry
INVARIANTS
  ApiTypeOK
  ServedReportIsTheVerdicts
  PollReadsForward
PROPERTY AnswersMoveForward
CHECK_DEADLOCK FALSE
