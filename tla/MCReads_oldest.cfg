SPECIFICATION RSpec
CONSTANTS
  k1 = k1
  k2 = k2
  w1 = w1
  w2 = w2
  f1 = f1
  f2 = f2
  r1 = r1
  r2 = r2
  Key = {k1}
  Writers = {w1}
  Flushers = {f1}
  Kinds = {"put"}
  MaxOps = 2
  MaxBatch = 1
  MaxOpens = 1
  MaxFaults = 0
  MaxFile = 6
  MaxWal = 3
  MemtableSize = 2
  MaxLevel0Files = 3
  MaxLevels = 3
  LevelBase = 1
  UseWal = TRUE
  SyncWal = TRUE
  ExclusiveFlush = TRUE
  Readers = {}
  QuietSnapshots = TRUE
INVARIANTS QuietReadsFresh
