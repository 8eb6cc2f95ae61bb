SPECIFICATION FairApiSpec
CONSTANTS
  Keys = {k1}
  Foreign = {}
  Workers = {w1, w2}
  MaxAttempts = 2
  Retention = TRUE
  FaultKinds = {"error", "reply", "lapse", "crash", "stop", "group", "evict"}
  MaxFaults = 1
  Requests = {r1}
  KeysOf <- AllKeys
PROPERTIES
  DeliveriesAreServed
  AcceptedIsAnswered
