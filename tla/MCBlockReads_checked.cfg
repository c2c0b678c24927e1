SPECIFICATION RSpec
CONSTANTS
  t1 = t1
  t2 = t2
  b1 = b1
  b2 = b2
  b3 = b3
  Threads = {t1, t2}
  CacheKey = {1, 2, 3}
  Block = {b1, b2, b3}
  SizeOf <- OwnSizes
  Layout <- File3
  Capacity = 3
  MaxCalls = 4
INVARIANTS ReadCorrect CacheCoherent
