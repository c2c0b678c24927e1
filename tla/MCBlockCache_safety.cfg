SPECIFICATION CFairSpec
CONSTANTS
  t1 = t1
  t2 = t2
  c1 = c1
  c2 = c2
  c3 = c3
  small = small
  large = large
  Threads = {t1, t2}
  CacheKey = {c1, c2, c3}
  Block = {small, large}
  SizeOf <- Sizes
  Capacity = 2
  MaxCalls = 4
INVARIANTS CTypeOK CachedQueued SizeExact SizeBounded StatsBounded
PROPERTIES CallsReturn
