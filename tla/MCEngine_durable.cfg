SPECIFICATION Spec
CONSTANTS
  k1 = k1
  k2 = k2
  w1 = w1
  w2 = w2
  f1 = f1
  f2 = f2
  Key = {k1, k2}
  Writers = {w1, w2}
  Flushers = {f1}
  Kinds = {"put", "delete"}
  MaxOps = 3
  MaxBatch = 2
  MaxOpens = 1
  MaxFaults = 0
  MaxFile = 6
  MaxWal = 3
  MemtableSize = 2
  MaxLevel0Files = 2
  MaxLevels = 3
  LevelBase = 1
  UseWal = TRUE
  SyncWal = TRUE
  ExclusiveFlush = TRUE
SYMMETRY Symmetry
INVARIANTS Durable MemoryLogged
