SPECIFICATION Spec
CONSTANTS
  Interval = 2
  Jitter = 0
  Timeout = 2
  Overhead = 0
  Versions = {v1, v2}
  Databases = {vulnerability}
  Readers = {r1}
  Generations = {g1, g2, g3}
INVARIANT NoGapBetweenProbes
CHECK_DEADLOCK FALSE
