SPECIFICATION Spec
CONSTANTS
  k1 = k1
  k2 = k2
  w1 = w1
  w2 = w2
  f1 = f1
  f2 = f2
  Key = {k1}
  Writers = {w1}
  Flushers = {f1}
  Kinds = {"put"}
  MaxOps = 3
  MaxBatch = 1
  MaxOpens = 2
  MaxFaults = 1
  MaxFile = 4
  MaxWal = 3
  MemtableSize = 2
  MaxLevel0Files = 2
  MaxLevels = 3
  LevelBase = 1
  UseWal = TRUE
  SyncWal = TRUE
  ExclusiveFlush = TRUE
INVARIANTS MemoryLogged SeqUnique
