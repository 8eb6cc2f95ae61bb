SPECIFICATION FairSpec
CONSTANTS
  Interval = 2
  Jitter = 1
  Timeout = 2
  Overhead = 1
  Versions = {v1, v2}
  Databases = {vulnerability}
  Readers = {r1}
  Generations = {g1, g2, g3}
INVARIANTS
  TypeOK
  CacheIsLatestProbe
  ReadableProbeIsKept
  GapIsTheExcess
  OneBuildInfo
  SuccessVouches
PROPERTY EngineIsServed
CHECK_DEADLOCK FALSE
