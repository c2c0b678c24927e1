SPECIFICATION SSpec
CONSTANTS
  w1 = w1
  w2 = w2
  f1 = f1
  r1 = r1
  r2 = r2
  Key = {1, 2}
  Writers = {w1}
  Flushers = {f1}
  Kinds = {"put", "delete"}
  MaxOps = 3
  MaxBatch = 1
  MaxOpens = 1
  MaxFaults = 0
  MaxFile = 6
  MaxWal = 2
  MemtableSize = 2
  MaxLevel0Files = 2
  MaxLevels = 3
  LevelBase = 1
  UseWal = FALSE
  SyncWal = TRUE
  ExclusiveFlush = TRUE
  Readers = {r1}
  QuietSnapshots = TRUE
  MaxScans = 1
  MaxMoves = 2
  Ranges <- Whole
  ScanAlone = TRUE
INVARIANTS ForwardExact PrevNotAfter
