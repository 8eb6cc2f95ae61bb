SPECIFICATION Spec
CONSTANTS
  Keys = {k1}
  Foreign = {f1}
  Workers = {w1, w2}
  MaxAttempts = 2
  Retention = TRUE
  FaultKinds = {"error", "reply", "lapse", "crash", "stop", "group", "evict", "flush"}
  MaxFaults = 3
SYMMETRY WorkerSymmetry
INVARIANTS
  TypeOK
  NoLostJob
  NoOrphanEntry
  AttemptsBounded
  FinishedHasItsReport
  RetiredIsSettled
  RetentionAfterRetirement
  QuarantineIsUnexecutable
  OwnerHasNewestAttempt
PROPERTIES
  VerdictIsFinal
  ImplementsScanJob
CHECK_DEADLOCK FALSE
