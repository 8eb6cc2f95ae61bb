SPECIFICATION FairSpec
CONSTANTS
  MaxScans = 2
  MaxStarts = 3
INVARIANTS
  TypeOK
  NothingLeftBehind
  OnlyOwnRoot
  AccessoryNeverDecides
  TransientIsRetried
  PermanentIsFinal
PROPERTIES
  ScansReturn
CHECK_DEADLOCK FALSE
