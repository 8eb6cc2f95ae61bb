SPECIFICATION FairSpec
CONSTANTS
  Lease = 3
  Call = 1
  Wait = 1
  Linger = 2
  Grace = 2
  Period = 1
INVARIANTS
  TypeOK
  ActiveWasReached
  WorkingIsActive
  NoFalseAlarm
PROPERTIES
  OutageIsReported
  RecoveryIsReported
