SPECIFICATION Spec
CONSTANTS
  MaxScans = 1
  MaxStarts = 1
INVARIANT ErrorsAreAsDocumented
CHECK_DEADLOCK FALSE
