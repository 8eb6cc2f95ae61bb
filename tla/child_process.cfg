SPECIFICATION Spec
CONSTANTS
  Limit = 2
  MaxOutput = 7
  MaxInt64 = 63
  Unlimited = 32
  Kilo = 2
  Values = {0, 1, 3, 4, 31, 32, 63, 64, 127, 128}
INVARIANTS
  OutputIsItsTail
  MemoryLimitIsUsable
