--------------------------- MODULE DurableProofs ----------------------------
(***************************************************************************)
(* Durability, as long as flush has the database to itself: the directory  *)
(* covers every acknowledged write through the first session and its end,  *)
(* and through the second until that one writes an SSTable, for every      *)
(* number of concurrent writers, across crashes and without I/O errors.    *)
(* And lookups, which find the newest of what the structures cover.        *)
(***************************************************************************)
EXTENDS CoverProofs, WellFoundedInduction

(***************************************************************************)
(* The directory covers the acknowledged writes.                           *)
(***************************************************************************)
MemoryOps == {v.op : v \in MemoryVersions}
DiskCovers == \A i \in acked : Covered(i, TableOps \cup LogOps)
MemoryCovers == \A i : Inserted(i) => Covered(i, MemoryOps \cup TableOps)

(* No table is under construction, nor are inputs being deleted.           *)
Builders == Building \cup {"cdelete"}
Unbuilt == \A t \in Thread : pc[t] \notin Builders

DurableInv ==
    /\ 0 \notin DOMAIN logs /\ nextFile >= 2
    /\ nextFile = 2 => Unbuilt
    /\ mode = "down" /\ opens = 1 /\ faults = 0 => DiskCovers
    /\ mode = "up" /\ opens = 2 /\ faults = 0 /\ nextFile = 2 => MemoryCovers

LEMMA CoveredGrows ==
    ASSUME NEW i, NEW S, NEW T, Covered(i, S), S \subseteq T, hist'[i] = hist[i],
           purged \subseteq purged'
    PROVE  \E o \in T \cup purged' : o.key = hist'[i].op.key /\ o.id \notin hist'[i].after
BY Zenon DEF Covered, Covers

(* In the first session the open tables are on disk.                       *)
LEMMA LevelsOnDisk ==
    ASSUME FileInv, mode = "up", opens <= 1 PROVE LevelOps \subseteq TableOps
<1> SUFFICES ASSUME NEW l \in Level, NEW h \in levels[l], NEW o \in h.data PROVE o \in TableOps
  BY DEF LevelOps
<1>1. h.file \in DOMAIN files /\ files[h.file] = [gen |-> h.gen, done |-> TRUE, data |-> h.data]
  BY Zenon DEF FileInv, Session, OnDisk
<1>2. files[h.file].done /\ files[h.file].data = h.data
  BY <1>1
<1> QED BY <1>1, <1>2, Zenon DEF TableOps

(* What memory and tables cover, the directory covers.                     *)
LEMMA MemoryOnDisk ==
    ASSUME UseWal, SyncWal, ExclusiveFlush, LogInv, NEW i, Covered(i, MemoryOps \cup TableOps)
    PROVE  Covered(i, TableOps \cup LogOps)
<1>1. MemoryOps \subseteq LogOps
  BY LogInvLogged, Zenon DEF MemoryLogged, MemoryOps
<1> QED BY <1>1, Zenon DEF Covered

LEMMA FirstDurable ==
    ASSUME UseWal, SyncWal, ExclusiveFlush, LogInv, FileInv, CoverInv,
           mode = "up", opens = 1, faults = 0
    PROVE  DiskCovers
<1> SUFFICES ASSUME NEW i \in acked PROVE Covered(i, TableOps \cup LogOps)
  BY Zenon DEF DiskCovers
<1>1. Kept(i)
  BY Zenon DEF CoverInv, Working, AllKept, Inserted, HistOK
<1>2. Covered(i, MemoryOps \cup LevelOps)
  BY <1>1, KeptInMemory, Zenon DEF MemoryOps
<1>3. LevelOps \subseteq TableOps
  BY LevelsOnDisk
<1>4. Covered(i, MemoryOps \cup TableOps)
  BY <1>2, <1>3, Zenon DEF Covered
<1> QED BY <1>4, MemoryOnDisk, Zenon

LEMMA NextFileGrows ==
    ASSUME NEW t \in Thread, ThreadNext(t), mode' = "up"
    PROVE  nextFile' = nextFile \/ nextFile' = nextFile + 1
<1> USE DEF memory
<1>1. CASE Put(t) \/ Delete(t) \/ Write(t)
  BY <1>1, Zenon DEF Put, Delete, Write, BeginWrite
<1>2. CASE AppendLog(t) \/ SyncLog(t) \/ Apply(t) \/ CheckSize(t) \/ Freeze(t)
  BY <1>2, Zenon DEF AppendLog, SyncLog, Apply, CheckSize, Freeze
<1>3. CASE Flush(t) \/ Close(t) \/ Drop(t) \/ Compact(t)
  BY <1>3, Zenon DEF Flush, Close, Drop, BeginFlush, Compact
<1>4. CASE FlushTake(t) \/ FlushCreate(t) \/ FlushBuild(t) \/ FlushInstall(t)
  BY <1>4, Zenon DEF FlushTake, FlushCreate, CreateFile, FlushBuild, FlushInstall
<1>5. CASE RotateOpen(t) \/ RotateSwap(t) \/ RotateRemove(t)
  BY <1>5, Zenon DEF RotateOpen, RotateSwap, RotateRemove
<1>6. CASE CompactPick(t) \/ CompactCreate(t) \/ CompactMerge(t) \/ CompactInstall(t) \/ CompactDelete(t)
  BY <1>6, Zenon DEF CompactPick, CompactCreate, CreateFile, CompactMerge, CompactInstall, CompactDelete
<1>7. CASE CloseSync(t)
  BY <1>7, Zenon DEF CloseSync, Vanish
<1>8. CASE Fail(t)
  BY <1>8, Zenon DEF Fail
<1> QED BY <1>1, <1>2, <1>3, <1>4, <1>5, <1>6, <1>7, <1>8, Zenon DEF ThreadNext

(* Logs are numbered from 1.                                               *)
LEMMA LogNumbers ==
    ASSUME TypeInv, NEW t \in Thread, ThreadNext(t), 0 \notin DOMAIN logs PROVE 0 \notin DOMAIN logs'
<1> USE DEF disk
<1>0. walNumber \in Nat
  BY Zenon DEF TypeInv, MemoryOK
<1>1. CASE Put(t) \/ Delete(t) \/ Write(t)
  BY <1>1, Zenon DEF Put, Delete, Write, BeginWrite
<1>2. CASE AppendLog(t) \/ SyncLog(t) \/ Apply(t) \/ CheckSize(t) \/ Freeze(t)
  BY <1>2, Zenon DEF AppendLog, SyncLog, FlushBuffer, Apply, CheckSize, Freeze
<1>3. CASE Flush(t) \/ Close(t) \/ Drop(t) \/ Compact(t)
  BY <1>3, Zenon DEF Flush, Close, Drop, BeginFlush, Compact
<1>4. CASE FlushTake(t) \/ FlushCreate(t) \/ FlushBuild(t) \/ FlushInstall(t)
  BY <1>4, Zenon DEF FlushTake, FlushCreate, FlushBuild, FlushInstall
<1>5. CASE RotateOpen(t)
  <2>1. DOMAIN logs' = DOMAIN logs \cup {walNumber + 1}
    BY <1>5, Zenon DEF RotateOpen, With
  <2> QED BY <1>0, <2>1, SMTT(30)
<1>6. CASE RotateSwap(t) \/ RotateRemove(t)
  BY <1>6, Zenon DEF RotateSwap, FlushBuffer, RotateRemove, Without
<1>7. CASE CompactPick(t) \/ CompactCreate(t) \/ CompactMerge(t) \/ CompactInstall(t) \/ CompactDelete(t)
  BY <1>7, Zenon DEF CompactPick, CompactCreate, CompactMerge, CompactInstall, CompactDelete
<1>8. CASE CloseSync(t)
  BY <1>8, Zenon DEF CloseSync, FlushBuffer
<1>9. CASE Fail(t)
  BY <1>9, Zenon DEF Fail
<1> QED BY <1>1, <1>2, <1>3, <1>4, <1>5, <1>6, <1>7, <1>8, <1>9, ZenonT(40) DEF ThreadNext

LEMMA MemorySame ==
    ASSUME UNCHANGED <<memtable, immutable>>, \A u \in Thread : held'[u] = held[u]
    PROVE  MemoryVersions \subseteq MemoryVersions'
BY ZenonT(40) DEF MemoryVersions

(* A step of a thread that builds nothing and creates no file.             *)
LEMMA UnbuiltStep ==
    ASSUME TypeInv, FlushEmpties, NEW t \in Thread, ThreadNext(t), mode' = "up",
           pc[t] \notin Builders, nextFile' = nextFile
    PROVE  /\ files' = files /\ purged' = purged /\ pc'[t] \notin Builders
           /\ MemoryVersions \subseteq MemoryVersions'
<1> USE DEF memory, disk, locals, ghosts, Goto
<1>0. /\ nextFile # nextFile + 1 /\ pc \in [Thread -> Step] /\ held \in [Thread -> SUBSET Version]
      /\ \A s \in {"idle", "log", "sync", "apply", "check", "freeze", "take", "create", "closing",
                   "pick", "ccreate"} \cup RotateSteps : s \notin Builders
  BY DEF TypeInv, MemoryOK, LocalsOK, Builders, Building, RotateSteps
<1>1. \A u \in Thread : pc[u] \notin Holding => held[u] = {}
  BY Zenon DEF FlushEmpties
<1>2. ASSUME NEW ids, Return(t, ids), pc[t] \notin Holding
      PROVE  pc'[t] \notin Builders /\ \A u \in Thread : held'[u] = held[u]
  BY <1>0, <1>1, <1>2, Zenon DEF Return
<1>3. CASE Put(t) \/ Delete(t) \/ Write(t)
  <2>1. PICK c, items : BeginWrite(t, c, items)
    BY <1>3, Zenon DEF Put, Delete, Write
  <2>2. UNCHANGED <<memtable, immutable, held, files, purged>> /\ Goto(t, IF UseWal THEN "log" ELSE "apply")
    BY <2>1, Zenon DEF BeginWrite
  <2> QED BY <1>0, <2>2, MemorySame, Zenon
<1>4. CASE AppendLog(t) \/ SyncLog(t)
  <2>1. UNCHANGED <<memtable, immutable, held, files, purged>> /\ pc'[t] \in {"sync", "apply"}
    BY <1>0, <1>4, Zenon DEF AppendLog, SyncLog
  <2> QED BY <1>0, <2>1, MemorySame, Zenon
<1>5. CASE Apply(t) \/ CheckSize(t) \/ Freeze(t)
  <2>1. files' = files /\ purged' = purged /\ pc[t] \notin Holding
    BY <1>5, Zenon DEF Apply, CheckSize, Freeze, Holding
  <2>2. pc'[t] \notin Builders /\ \A u \in Thread : held'[u] = held[u]
    <3>1. CASE Return(t, Ids(batch[t]))
      BY <1>2, <2>1, <3>1, Zenon
    <3>2. CASE ~Return(t, Ids(batch[t]))
      <4>1. held' = held /\ pc'[t] \in {"apply", "check", "freeze", "take"}
        BY <1>0, <1>5, <3>2, ZenonT(40) DEF Apply, CheckSize, Freeze
      <4> QED BY <1>0, <4>1, Zenon
    <3> QED BY <3>1, <3>2, Zenon
  <2>3. MemoryVersions \subseteq MemoryVersions'
    <3>1. CASE Apply(t)
      <4>1. memtable \subseteq memtable' /\ immutable' = immutable
        BY <3>1, Zenon DEF Apply
      <4> QED BY <2>2, <4>1, ZenonT(40) DEF MemoryVersions
    <3>2. CASE CheckSize(t)
      BY <2>2, <3>2, MemorySame, Zenon DEF CheckSize
    <3>3. CASE Freeze(t)
      <4>1. immutable' = Append(immutable, memtable) /\ immutable \in Seq(SUBSET Version)
        BY <3>3, ZenonT(40) DEF Freeze, TypeInv, MemoryOK
      <4>2. /\ Len(immutable) + 1 \in DOMAIN immutable' /\ immutable'[Len(immutable) + 1] = memtable
            /\ \A m \in DOMAIN immutable : m \in DOMAIN immutable' /\ immutable'[m] = immutable[m]
        BY <4>1, SMTT(30)
      <4> QED BY <2>2, <4>2, InMemoryVersions, InMemoryVersionsNext, Zenon
    <3> QED BY <1>5, <3>1, <3>2, <3>3, ZenonT(40)
  <2> QED BY <2>1, <2>2, <2>3, Zenon
<1>6. CASE Flush(t) \/ Close(t) \/ Drop(t) \/ Compact(t)
  <2>1. UNCHANGED <<memtable, immutable, held, files, purged>> /\ pc'[t] \in {"take", "freeze", "pick"}
    BY <1>0, <1>6, Zenon DEF Flush, Close, Drop, BeginFlush, Compact
  <2> QED BY <1>0, <2>1, MemorySame, Zenon
<1>7. CASE FlushTake(t)
  <2>1. UNCHANGED <<memtable, files, purged>> /\ pc'[t] \in {"rotate", "create"} /\ held[t] = {}
    BY <1>0, <1>1, <1>7, Zenon DEF FlushTake, Holding
  <2>2. CASE immutable = <<>>
    <3>1. UNCHANGED <<immutable, held>>
      BY <1>7, <2>2, Zenon DEF FlushTake
    <3> QED BY <1>0, <2>1, <3>1, MemorySame, ZenonT(40) DEF RotateSteps
  <2>3. CASE immutable # <<>>
    <3>1. /\ immutable' = Tail(immutable) /\ held' = [held EXCEPT ![t] = Head(immutable)]
          /\ immutable \in Seq(SUBSET Version)
      BY <1>7, <2>3, Zenon DEF FlushTake, TypeInv, MemoryOK
    <3>2. /\ held'[t] = immutable[1] /\ \A u \in Thread \ {t} : held'[u] = held[u]
          /\ \A m \in DOMAIN immutable :
                m = 1 \/ (m - 1 \in DOMAIN immutable' /\ immutable'[m - 1] = immutable[m])
      BY <1>0, <2>3, <3>1, SMTT(30)
    <3>3. ASSUME NEW v \in MemoryVersions PROVE v \in MemoryVersions'
      <4>1. CASE v \in memtable
        BY <2>1, <4>1, InMemoryVersionsNext, Zenon
      <4>2. CASE \E m \in DOMAIN immutable : v \in immutable[m]
        BY <3>2, <4>2, InMemoryVersionsNext, Zenon
      <4>3. CASE \E u \in Thread : v \in held[u]
        BY <2>1, <3>2, <4>3, InMemoryVersionsNext, Zenon
      <4> QED BY <4>1, <4>2, <4>3, InMemoryVersions, Zenon
    <3> QED BY <1>0, <2>1, <3>3, Zenon DEF RotateSteps
  <2> QED BY <2>2, <2>3, Zenon
<1>8. CASE FlushCreate(t) \/ CompactCreate(t)
  BY <1>0, <1>8, Zenon DEF FlushCreate, CompactCreate, CreateFile
<1>9. CASE FlushBuild(t) \/ FlushInstall(t) \/ CompactMerge(t) \/ CompactInstall(t) \/ CompactDelete(t)
  BY <1>9, Zenon DEF FlushBuild, FlushInstall, CompactMerge, CompactInstall, CompactDelete, Builders, Building
<1>10. CASE RotateOpen(t) \/ RotateSwap(t) \/ RotateRemove(t)
  <2>1. UNCHANGED <<memtable, immutable, held, files, purged>> /\ pc'[t] \in {"swap", "unlink", "pick"}
    BY <1>0, <1>10, Zenon DEF RotateOpen, RotateSwap, RotateRemove
  <2> QED BY <1>0, <2>1, MemorySame, Zenon DEF RotateSteps
<1>11. CASE CompactPick(t)
  <2>1. UNCHANGED <<memtable, immutable, files, purged>> /\ pc[t] \notin Holding
    BY <1>11, Zenon DEF CompactPick, Holding
  <2>2. pc'[t] \notin Builders /\ \A u \in Thread : held'[u] = held[u]
    <3>1. CASE Return(t, {})
      BY <1>2, <2>1, <3>1, Zenon
    <3>2. CASE ~Return(t, {})
      <4>1. held' = held /\ pc'[t] \in {"ccreate", "closing"}
        BY <1>0, <1>11, <3>2, ZenonT(40) DEF CompactPick, EndCompact
      <4> QED BY <1>0, <4>1, Zenon
    <3> QED BY <3>1, <3>2, Zenon
  <2> QED BY <2>1, <2>2, MemorySame, Zenon
<1>12. CASE CloseSync(t)
  <2>1. UNCHANGED <<memtable, immutable, files, purged>> /\ Return(t, {}) /\ pc[t] \notin Holding
    BY <1>12, Zenon DEF CloseSync, Vanish, Holding
  <2> QED BY <1>2, <2>1, MemorySame, Zenon
<1>13. CASE Fail(t)
  <2>1. UNCHANGED <<memtable, immutable, files, purged>> /\ pc[t] # "create"
    BY <1>0, <1>13, Zenon DEF Fail
  <2>2. pc[t] \notin Holding
    BY <2>1, Zenon DEF Builders, Building, Holding
  <2>3. pc'[t] \notin Builders /\ \A u \in Thread : held'[u] = held[u]
    <3>1. CASE Return(t, {})
      BY <1>2, <2>2, <3>1, Zenon
    <3>2. CASE ~Return(t, {})
      <4>1. held' = [held EXCEPT ![t] = {}] /\ pc'[t] = "closing"
        BY <1>0, <1>13, <3>2, Zenon DEF Fail
      <4> QED BY <1>0, <1>1, <2>2, <4>1, ZenonT(40)
    <3> QED BY <3>1, <3>2, Zenon
  <2> QED BY <2>1, <2>3, MemorySame, ZenonT(40)
<1> QED BY <1>3, <1>4, <1>5, <1>6, <1>7, <1>8, <1>9, <1>10, <1>11, <1>12, <1>13, Zenon DEF ThreadNext

(* The second session before its first SSTable: memory only grows.         *)
LEMMA SecondStep ==
    ASSUME TypeInv, TypeInv', CallsMatch, FlushEmpties, HistOK, BatchOK, MemoryCovers, Unbuilt,
           NEW t \in Thread, ThreadNext(t), mode' = "up", nextFile' = nextFile
    PROVE  MemoryCovers'
<1>1. files' = files /\ purged' = purged /\ MemoryVersions \subseteq MemoryVersions'
  BY UnbuiltStep, Zenon DEF Unbuilt
<1>2. TableOps' = TableOps /\ MemoryOps \subseteq MemoryOps'
  BY <1>1, Zenon DEF TableOps, MemoryOps
<1> SUFFICES ASSUME NEW i, Inserted(i)' PROVE Covered(i, MemoryOps \cup TableOps)'
  BY Zenon DEF MemoryCovers
<1>3. CASE Inserted(i)
  <2>1. i \in DOMAIN hist
    BY <1>3, InsertedIssued, ZenonT(40)
  <2>2. hist'[i] = hist[i]
    BY <2>1, HistGrows, ZenonT(40)
  <2>3. Covered(i, MemoryOps \cup TableOps)
    BY <1>3, Zenon DEF MemoryCovers
  <2> QED BY <1>1, <1>2, <2>2, <2>3, ZenonT(40) DEF Covered, Covers
<1>4. CASE Apply(t) /\ i = Entry(t).op.id
  <2>1. Entry(t) \in memtable' /\ Entry(t).op = batch[t][applied[t] + 1] /\ hist' = hist
    BY <1>4, ZenonT(40) DEF Apply, Entry
  <2>2. applied[t] + 1 \in DOMAIN batch[t]
    <3>1. pc[t] = "apply"
      BY <1>4, ZenonT(40) DEF Apply
    <3> QED BY <3>1, SMTT(30) DEF TypeInv, BatchReady, LocalsOK
  <2>3. i \in DOMAIN hist /\ hist[i].op = Entry(t).op
    BY <1>4, <2>1, <2>2, SMTT(30) DEF BatchOK
  <2>4. i \notin hist[i].after
    <3>1. i \in Nat /\ \A j \in hist[i].after : j < i
      BY <2>3, SMTT(30) DEF HistOK, TypeInv, GhostsOK
    <3> QED BY <3>1, SMTT(30)
  <2>5. Entry(t).op \in MemoryOps'
    BY <2>1, InMemoryVersionsNext, Zenon DEF MemoryOps
  <2>6. Entry(t).op.key = hist'[i].op.key /\ Entry(t).op.id \notin hist'[i].after
    BY <1>4, <2>1, <2>3, <2>4, Zenon
  <2> QED BY <2>5, <2>6, Zenon DEF Covered, Covers
<1> QED BY <1>3, <1>4, InsertedStep, Zenon

(* There is one newest log, and replay brings all of it back.              *)
LEMMA SecondOpen ==
    ASSUME TypeInv, DownEmpty, 0 \notin DOMAIN logs, DiskCovers, Open PROVE MemoryCovers'
<1>1. mode = "down" /\ UNCHANGED <<files, hist, acked, purged, applied, batch>>
  BY Zenon DEF Open, locals
<1>2. PICK n \in LatestLogs : memtable' = Replay(Entries(n))
  BY Zenon DEF Open
<1>3. \A m \in LatestLogs : m = n
  <2>1. \A m \in DOMAIN logs : m \in Nat /\ m # 0
    BY Zenon DEF TypeInv, DiskOK
  <2> QED BY <2>1, SMTT(30) DEF LatestLogs
<1>4. LogOps \subseteq MemoryOps'
  <2> SUFFICES ASSUME NEW j \in DOMAIN Entries(n) PROVE Entries(n)[j] \in MemoryOps'
    BY <1>3, SMTT(30) DEF LogOps, SeqOps
  <2>1. [op |-> Entries(n)[j], seq |-> j] \in memtable'
    BY <1>2, Zenon DEF Replay
  <2>2. [op |-> Entries(n)[j], seq |-> j] \in MemoryVersions'
    BY <2>1, InMemoryVersionsNext, Zenon
  <2> QED BY <2>2, SMTT(30) DEF MemoryOps
<1>5. \A t \in Thread : applied[t] = 0
  BY <1>1, ZenonT(40) DEF DownEmpty, TypeInv, BatchReady
<1> SUFFICES ASSUME NEW i, Inserted(i)' PROVE Covered(i, MemoryOps \cup TableOps)'
  BY Zenon DEF MemoryCovers
<1>6. i \in acked
  BY <1>1, <1>5, SMTT(30) DEF Inserted
<1>7. Covered(i, TableOps \cup LogOps)
  BY <1>6, Zenon DEF DiskCovers
<1>8. TableOps' = TableOps
  BY <1>1, Zenon DEF TableOps
<1> QED BY <1>1, <1>4, <1>7, <1>8, Zenon DEF Covered, Covers

(* The end of the DB object, by a crash or by drop.                        *)
LEMMA DiskStays ==
    ASSUME TypeInv, DiskCovers, UNCHANGED <<files, hist, acked, purged>>, LogOps \subseteq LogOps'
    PROVE  DiskCovers'
<1>1. TableOps' = TableOps
  BY Zenon DEF TableOps
<1> QED BY <1>1, Zenon DEF DiskCovers, Covered, Covers

LEMMA CloseLogs ==
    ASSUME TypeInv, LogCurrent, mode = "up", NEW t \in Thread, CloseSync(t)
    PROVE  LogOps \subseteq LogOps'
<1>1. wal \in DOMAIN logs /\ logs[wal] \in Seq(Op) /\ walBuf \in Seq(Op)
  BY Zenon DEF LogCurrent, TypeInv, DiskOK, MemoryOK
<1>2. logs' = [logs EXCEPT ![wal] = @ \o walBuf]
  BY Zenon DEF CloseSync, FlushBuffer
<1>3. DOMAIN logs' = DOMAIN logs /\ LatestLogs' = LatestLogs
  BY <1>2, Zenon DEF LatestLogs
<1>4. ASSUME NEW n, NEW j \in DOMAIN Entries(n)
      PROVE  j \in DOMAIN Entries(n)' /\ Entries(n)'[j] = Entries(n)[j]
  <2>1. CASE n = wal
    BY <1>1, <1>2, <1>3, <2>1, <1>4, SMTT(30) DEF Entries
  <2>2. CASE n # wal
    BY <1>2, <1>3, <2>2, <1>4, Zenon DEF Entries
  <2> QED BY <2>1, <2>2, Zenon
<1> SUFFICES ASSUME NEW n \in LatestLogs, NEW j \in DOMAIN Entries(n) PROVE Entries(n)[j] \in LogOps'
  BY DEF LogOps, SeqOps
<1> QED BY <1>3, <1>4, SMTT(30) DEF LogOps, SeqOps

LEMMA DurableStep ==
    ASSUME UseWal, SyncWal, ExclusiveFlush, LogInv, LogInv', FileInv, CoverInv, DurableInv,
           [Next]_vars
    PROVE  DurableInv'
<1>0. /\ TypeInv /\ TypeInv' /\ DownEmpty /\ CallsMatch /\ FlushEmpties /\ LogCurrent
      /\ HistOK /\ BatchOK /\ opens \in Nat /\ faults \in Nat /\ nextFile \in Nat
  BY Zenon DEF LogInv, SeqInv, CoverInv, TypeInv, GhostsOK, MemoryOK
<1>1. mode = "up" /\ opens = 1 /\ faults = 0 => DiskCovers
  BY FirstDurable, Zenon
<1>2. ASSUME NEW t \in Thread, ThreadNext(t) PROVE DurableInv'
  <2>1. /\ mode = "up" /\ opens' = opens /\ 0 \notin DOMAIN logs' /\ (faults' = 0 => faults = 0)
        /\ CloseSync(t) \/ mode' = mode
    BY <1>0, <1>2, ThreadUp, SameSession, LogNumbers, FaultsGrow, SMTT(30) DEF DurableInv
  <2>2. CASE mode' = "up"
    <3>1. nextFile' >= 2 /\ (nextFile' = 2 => nextFile = 2)
      BY <1>0, <1>2, <2>2, NextFileGrows, SMTT(30) DEF DurableInv
    <3>2. nextFile' = 2 => Unbuilt'
      <4> SUFFICES ASSUME nextFile' = 2, NEW u \in Thread PROVE pc'[u] \notin Builders
        BY Zenon DEF Unbuilt
      <4>1. Unbuilt
        BY <3>1, Zenon DEF DurableInv
      <4>2. pc'[t] \notin Builders
        BY <1>0, <1>2, <2>2, <3>1, <4>1, UnbuiltStep, Zenon DEF Unbuilt
      <4>3. u # t => pc'[u] = pc[u]
        BY <1>0, <1>2, <2>2, OthersOwe, Zenon
      <4> QED BY <4>1, <4>2, <4>3, Zenon DEF Unbuilt
    <3>3. opens' = 2 /\ faults' = 0 /\ nextFile' = 2 => MemoryCovers'
      BY <1>0, <1>2, <2>1, <2>2, <3>1, SecondStep, Zenon DEF DurableInv
    <3> QED BY <2>1, <2>2, <3>1, <3>2, <3>3, Zenon DEF DurableInv
  <2>3. CASE mode' # "up"
    <3>1. CloseSync(t) /\ Vanish /\ UNCHANGED <<files, hist, purged, faults, acked>>
      BY <2>1, <2>3, Zenon DEF CloseSync
    <3>2. nextFile' = 2 /\ Unbuilt'
      BY <3>1, Zenon DEF Vanish, Unbuilt, Builders, Building
    <3>3. opens' = 1 /\ faults' = 0 => DiskCovers'
      BY <1>0, <1>1, <2>1, <3>1, CloseLogs, DiskStays, Zenon
    <3> QED BY <2>1, <2>3, <3>2, <3>3, SMTT(30) DEF DurableInv
  <2> QED BY <2>2, <2>3, ZenonT(40)
<1>3. CASE Open
  <2>1. /\ mode = "down" /\ mode' = "up" /\ opens' = opens + 1
        /\ UNCHANGED <<nextFile, pc, faults>>
    BY <1>3, ZenonT(40) DEF Open
  <2>2. 0 \notin DOMAIN logs'
    <3>1. PICK n \in LatestLogs : logs' = With(logs, n, Entries(n))
      BY <1>3, Zenon DEF Open
    <3> QED BY <3>1, SMTT(30) DEF With, LatestLogs, DurableInv
  <2>3. Unbuilt'
    BY <1>0, <2>1, Zenon DEF DownEmpty, Unbuilt, Builders, Building
  <2>4. opens' = 2 /\ faults' = 0 => MemoryCovers'
    <3> SUFFICES ASSUME opens' = 2, faults' = 0 PROVE MemoryCovers'
      BY Zenon
    <3>1. opens = 1 /\ faults = 0
      BY <1>0, <2>1, SMTT(30)
    <3>2. DiskCovers /\ 0 \notin DOMAIN logs
      BY <2>1, <3>1, ZenonT(40) DEF DurableInv
    <3> QED BY <1>0, <1>3, <3>2, SecondOpen, Zenon
  <2> QED BY <2>1, <2>2, <2>3, <2>4, Zenon DEF DurableInv
<1>4. CASE Crash
  <2>1. /\ mode = "up" /\ mode' = "down" /\ nextFile' = 2 /\ Vanish
        /\ UNCHANGED <<logs, files, hist, acked, purged, opens, faults>>
    BY <1>4, Zenon DEF Crash, Vanish, disk, ghosts
  <2>2. Unbuilt'
    BY <2>1, Zenon DEF Vanish, Unbuilt, Builders, Building
  <2>3. LogOps' = LogOps
    BY <2>1, Zenon DEF LogOps, LatestLogs, Entries
  <2>4. opens' = 1 /\ faults' = 0 => DiskCovers'
    BY <1>0, <1>1, <2>1, <2>3, DiskStays, Zenon
  <2> QED BY <2>1, <2>2, <2>4, SMTT(30) DEF DurableInv
<1>5. CASE Spill \/ UNCHANGED vars
  <2>1. /\ UNCHANGED <<mode, memtable, immutable, held, nextFile, files, pc, batch, applied, hist,
                       acked, purged, opens, faults>>
        /\ DOMAIN logs' = DOMAIN logs
        /\ mode = "down" => logs' = logs
    BY <1>5, Zenon DEF Spill, vars, memory, disk, locals, ghosts
  <2>2. Unbuilt => Unbuilt'
    BY <2>1, ZenonT(40) DEF Unbuilt
  <2>3. MemoryCovers => MemoryCovers'
    BY <2>1, SMTT(30) DEF MemoryCovers, Inserted, Covered, Covers, MemoryOps, MemoryVersions, TableOps
  <2>4. mode = "down" /\ DiskCovers => DiskCovers'
    <3> SUFFICES ASSUME mode = "down", DiskCovers PROVE DiskCovers'
      BY Zenon
    <3>1. LogOps' = LogOps
      BY <2>1, Zenon DEF LogOps, LatestLogs, Entries
    <3> QED BY <1>0, <2>1, <3>1, DiskStays, Zenon
  <2> QED BY <2>1, <2>2, <2>3, <2>4, Zenon DEF DurableInv
<1> QED BY <1>2, <1>3, <1>4, <1>5, Zenon DEF Next, Rest

(* The invariant gives the property, session by session.                   *)
LEMMA DurableByInv ==
    ASSUME UseWal, SyncWal, ExclusiveFlush, LogInv, FileInv, CoverInv, DurableInv,
           opens <= 2, faults = 0, opens <= 1 \/ (mode = "up" /\ nextFile = 2)
    PROVE  DiskCovers
<1>0. opens \in Nat /\ mode \in {"up", "down"}
  BY Zenon DEF FileInv, TypeInv, GhostsOK, MemoryOK
<1>1. CASE opens = 0
  <2>1. acked = {}
    BY <1>1, SMTT(30) DEF CoverInv, HistOK
  <2> QED BY <2>1, Zenon DEF DiskCovers
<1>2. CASE opens = 1
  BY <1>0, <1>2, FirstDurable, Zenon DEF DurableInv
<1>3. CASE opens = 2
  <2>1. MemoryCovers
    BY <1>3, SMTT(30) DEF DurableInv
  <2>2. \A i \in acked : Covered(i, MemoryOps \cup TableOps)
    BY <2>1, Zenon DEF MemoryCovers, Inserted
  <2> QED BY <2>2, MemoryOnDisk, ZenonT(40) DEF DiskCovers
<1> QED BY <1>0, <1>1, <1>2, <1>3, SMTT(30)

(* With sync_wal, and as long as flush has the database to itself and no   *)
(* I/O error happens, every acknowledged write is recoverable at every     *)
(* moment of the first session, after a crash or drop in it, and in the    *)
(* second session until that one writes an SSTable (lib.rs:338): for every *)
(* number of writers, batch size, MemTable size and level.                 *)
THEOREM WritesAreDurable ==
    ExclusiveFlush => (Spec => [](opens <= 2 /\ faults = 0 => DurableUntilReflush))
<1> SUFFICES ASSUME ExclusiveFlush
             PROVE  Spec => [](opens <= 2 /\ faults = 0 => DurableUntilReflush)
  BY Zenon
<1>1. CASE UseWal /\ SyncWal
  <2>1. LogInv /\ [Next]_vars => LogInv'
    BY <1>1, LogStep, Zenon
  <2>2. Init => DurableInv
    BY DEF Init, DurableInv, Unbuilt, Builders, Building
  <2>3. LogInv /\ LogInv' /\ FileInv /\ CoverInv /\ DurableInv /\ [Next]_vars => DurableInv'
    BY <1>1, DurableStep, Zenon
  <2>4. LogInv /\ FileInv /\ CoverInv /\ DurableInv => (opens <= 2 /\ faults = 0 => DurableUntilReflush)
    BY <1>1, DurableByInv, Zenon DEF DurableUntilReflush, Durable, DiskCovers
  <2>5. Spec => []CoverInv
    BY CoverInvariant, Zenon DEF OneFlusher
  <2> QED BY <2>1, <2>2, <2>3, <2>4, <2>5, LogInit, FileInvariant, PTL DEF Spec
<1>2. CASE ~(UseWal /\ SyncWal)
  <2>1. opens <= 2 /\ faults = 0 => DurableUntilReflush
    BY <1>2, Zenon DEF DurableUntilReflush, Durable
  <2> QED BY <2>1, PTL
<1> QED BY <1>1, <1>2, Zenon

(***************************************************************************)
(* The order in which a lookup searches is the order of age.               *)
(***************************************************************************)
LEMMA LeastNat ==
    ASSUME NEW S, S \subseteq Nat, S # {}
    PROVE  \E m \in S : \A n \in S : m <= n
<1> DEFINE R == {ss \in Nat \X Nat : ss[1] < ss[2]}
<1>1. IsWellFoundedOn(R, Nat)
  BY NatLessThanWellFounded, Zenon DEF OpToRel
<1> HIDE DEF R
<1>2. PICK m \in S : \A n \in S : ~(<<n, m>> \in R)
  BY <1>1, WFMin, Zenon
<1>3. \A n, j \in Nat : <<n, j>> \in R <=> n < j
  BY DEF R
<1>4. \A n \in S : ~(n < m)
  BY <1>2, <1>3, ZenonT(40)
<1> QED BY <1>2, <1>4, SMTT(30)

LEMMA GreatestInt ==
    ASSUME NEW S, S \subseteq Int, S # {}, NEW b \in Int, \A m \in S : m <= b
    PROVE  \E m \in S : \A n \in S : n <= m
<1> DEFINE D == {b - m : m \in S}
<1>1. D \subseteq Nat /\ D # {}
  <2>1. \A m \in S : b - m \in Nat
    OBVIOUS
  <2> QED BY <2>1, Zenon
<1>2. PICK d \in D : \A e \in D : d <= e
  BY <1>1, LeastNat, Zenon
<1>3. PICK m \in S : d = b - m
  BY <1>2, SMTT(30)
<1>4. \A n \in S : b - m <= b - n
  BY <1>2, <1>3, SMTT(30)
<1>5. \A n \in S : n <= m
  BY <1>4, SMTT(30)
<1> QED BY <1>5, SMTT(30)

(* A table that holds a hit is behind all others with one.                 *)
LEMMA HindmostHit ==
    ASSUME TypeInv, CompactOK, NEW k, NEW l \in Level \ {0}, NEW h \in levels[l],
           TableGet(h.data, k) # {}
    PROVE  LevelGet(levels[l], k) # {}
<1> DEFINE hits == {g \in levels[l] : TableGet(g.data, k) # {}}
           S == {g.rank : g \in hits}
<1>1. rank \in Nat /\ \A g \in levels[l] : g \in Handle /\ g.rank <= rank
  BY FileTypes, Zenon DEF CompactOK
<1>2. S \subseteq Int /\ \A m \in S : m <= rank
  BY <1>1, SMTT(30) DEF Handle
<1>3. h.rank \in S
  BY Zenon
<1>4. rank \in Int
  BY <1>1, SMTT(30)
<1> HIDE DEF S
<1>5. PICK m \in S : \A n \in S : n <= m
  BY <1>2, <1>3, <1>4, GreatestInt, Zenon
<1>6. PICK g \in hits : g.rank = m
  BY <1>5, Zenon DEF S
<1>7. \A f \in hits : f.rank <= g.rank
  BY <1>5, <1>6, Zenon DEF S
<1>8. g \in Hindmost(hits)
  BY <1>6, <1>7, Zenon DEF Hindmost
<1>9. PICK o : o \in TableGet(g.data, k)
  BY <1>6, Zenon
<1> QED BY <1>8, <1>9, Zenon DEF LevelGet

LEMMA LeastHit ==
    ASSUME TypeInv, NEW k, NEW l \in Level, LevelGet(levels[l], k) # {}
    PROVE  LevelsGet(levels, k) # {}
<1> DEFINE hits == {m \in DOMAIN levels : LevelGet(levels[m], k) # {}}
<1>1. DOMAIN levels = Level
  BY Zenon DEF TypeInv, MemoryOK
<1>2. Level \subseteq Nat
  BY DEF Level
<1>3. hits \subseteq Nat /\ l \in hits
  BY <1>1, <1>2, Zenon
<1>4. PICK m \in hits : \A n \in hits : m <= n
  BY <1>3, LeastNat, Zenon
<1>5. PICK o : o \in LevelGet(levels[m], k)
  BY <1>4, Zenon
<1> QED BY <1>4, <1>5, Zenon DEF LevelsGet

LEMMA LastHit ==
    ASSUME TypeInv, NEW k, NEW s, NEW j \in DOMAIN immutable, MemGet(immutable[j], k, s) # {}
    PROVE  ImmutableGet(immutable, k, s) # {}
<1> DEFINE hits == {m \in DOMAIN immutable : MemGet(immutable[m], k, s) # {}}
<1>1. Len(immutable) \in Int /\ DOMAIN immutable \subseteq Int /\ \A m \in DOMAIN immutable : m <= Len(immutable)
  BY DEF TypeInv, MemoryOK
<1>2. hits \subseteq Int /\ j \in hits /\ \A m \in hits : m <= Len(immutable)
  BY <1>1, Zenon
<1>3. PICK m \in hits : \A n \in hits : n <= m
  BY <1>1, <1>2, GreatestInt, Zenon
<1>4. PICK o : o \in MemGet(immutable[m], k, s)
  BY <1>3, Zenon
<1> QED BY <1>3, <1>4, Zenon DEF ImmutableGet

(* Of a key that was only ever put, a MemTable answers what a flush of it  *)
(* would write, and a table what it holds.                                 *)
LEMMA MemAnswers ==
    ASSUME TypeInv, Numbered, NEW k, OnlyPut(k), NEW mem, mem \subseteq MemoryVersions
    PROVE  \A o : o \in MemGet(mem, k, sequence) <=> o \in FlushContents(mem) /\ o.key = k
<1>1. DOMAIN hist = 1 .. sequence
  <2>1. hist \in Seq(Issued)
    BY Zenon DEF TypeInv, GhostsOK
  <2> QED BY <2>1, Zenon, ListFacts DEF Numbered
<1>2. \A v \in mem : v.seq \in DOMAIN hist /\ (v.op.key = k => v.op.kind = "put")
  BY Zenon DEF Numbered, OnlyPut
<1>3. \A j \in DOMAIN hist : j <= sequence
  BY <1>1, SMTT(30)
<1>4. \A v \in mem : v.seq <= sequence /\ (v.op.key = k => v.op.kind # "delete")
  <2>1. "put" # "delete"
    OBVIOUS
  <2> QED BY <1>2, <1>3, <2>1, Zenon
<1>5. \A v : v \in Newest(mem, k, sequence) <=>
             v \in mem /\ v.op.key = k /\ \A u \in mem : u.op.key = v.op.key => u.seq <= v.seq
  BY <1>4, Zenon DEF Newest
<1>6. \A o : o \in MemGet(mem, k, sequence) <=> \E v \in Newest(mem, k, sequence) : v.op = o
  BY <1>4, <1>5, Zenon DEF MemGet
<1>7. \A o : o \in FlushContents(mem) <=>
             \E v \in mem : v.op = o /\ \A u \in mem : u.op.key = v.op.key => u.seq <= v.seq
  BY Zenon DEF FlushContents
<1> QED BY <1>5, <1>6, <1>7, Zenon

LEMMA TableAnswers ==
    ASSUME LevelsKnown, NEW k, OnlyPut(k), NEW l \in Level, NEW h \in levels[l]
    PROVE  \A o : o \in TableGet(h.data, k) <=> o \in h.data /\ o.key = k
<1>1. ASSUME NEW o \in h.data, o.key = k PROVE o.kind = "put"
  <2>1. o.id \in DOMAIN hist /\ hist[o.id].op = o
    BY Zenon DEF LevelsKnown, Known
  <2>2. hist[o.id].op.key = k
    BY <1>1, <2>1, Zenon
  <2>3. hist[o.id].op.kind = "put"
    BY <2>1, <2>2, Zenon DEF OnlyPut
  <2> QED BY <2>1, <2>3, Zenon
<1> QED BY <1>1, Zenon DEF TableGet

(* What the tables answer for an operation that is in none of the          *)
(* MemTables.                                                              *)
LEMMA TablesAnswer ==
    ASSUME TypeInv, Working, NEW k, OnlyPut(k), \A g, h \in Level0With(k) : g = h,
           NEW i \in DOMAIN hist, hist[i].op.key = k, OnTables(i)
    PROVE  LevelsGet(levels, k) # {} /\ \A o \in LevelsGet(levels, k) : Covers(o, i)
<1>0. /\ CompactOK /\ LevelsKnown
      /\ \A l \in Level : \A h \in levels[l] :
            \A o : o \in TableGet(h.data, k) <=> o \in h.data /\ o.key = k
  <2>1. CompactOK /\ LevelsKnown
    BY Zenon DEF Working
  <2>2. ASSUME NEW l \in Level, NEW h \in levels[l]
        PROVE  \A o : o \in TableGet(h.data, k) <=> o \in h.data /\ o.key = k
    BY <2>1, <2>2, TableAnswers, SMTT(30)
  <2> QED BY <2>1, <2>2, Zenon
<1>1. ASSUME NEW o \in LevelsGet(levels, k)
      PROVE  \E l \in Level :
                /\ \A m \in Level : LevelGet(levels[m], k) # {} => l <= m
                /\ \E g \in levels[l] :
                      /\ o \in g.data /\ o.key = k
                      /\ \A h \in levels[l] : TableGet(h.data, k) # {} => h.rank <= g.rank
  <2>1. DOMAIN levels = Level
    BY Zenon DEF TypeInv, MemoryOK
  <2>2. PICK l \in Level : /\ o \in LevelGet(levels[l], k)
                           /\ \A m \in Level : LevelGet(levels[m], k) # {} => l <= m
    BY <1>1, <2>1, Zenon DEF LevelsGet
  <2>3. PICK g \in levels[l] : /\ o \in TableGet(g.data, k)
                               /\ \A h \in levels[l] : TableGet(h.data, k) # {} => h.rank <= g.rank
    BY <2>2, ZenonT(40) DEF LevelGet, Hindmost
  <2> QED BY <2>2, <2>3, Zenon DEF TableGet
<1>2. CASE InLevel0(i)
  <2>1. PICK h \in levels[0] : Leads(h, i)
    BY <1>2, Zenon DEF InLevel0
  <2>2. PICK p \in h.data : Covers(p, i)
    BY <2>1, Zenon DEF Leads
  <2>3. p \in TableGet(h.data, k) /\ h \in Level0With(k)
    BY <1>0, <2>1, <2>2, LevelFacts, Zenon DEF Covers, Level0With
  <2>4. \A g \in levels[0] : TableGet(g.data, k) # {} => g = h
    BY <2>3, Zenon DEF Level0With, TableGet
  <2>5. h.rank <= h.rank
    BY <2>1, LevelFacts, SMTT(30) DEF TypeInv, MemoryOK, Handle
  <2>6. h \in Hindmost({g \in levels[0] : TableGet(g.data, k) # {}})
    BY <2>3, <2>4, <2>5, Zenon DEF Hindmost
  <2>7. LevelGet(levels[0], k) # {}
    BY <2>3, <2>6, Zenon DEF LevelGet
  <2>8. LevelsGet(levels, k) # {}
    BY <2>7, LeastHit, LevelFacts, Zenon
  <2>9. ASSUME NEW o \in LevelsGet(levels, k) PROVE Covers(o, i)
    <3>1. PICK l \in Level : /\ \A m \in Level : LevelGet(levels[m], k) # {} => l <= m
                             /\ \E g \in levels[l] : o \in g.data /\ o.key = k
      BY <1>1, <2>9, Zenon
    <3>2. l <= 0
      BY <2>7, <3>1, LevelFacts, ZenonT(40)
    <3>3. l = 0
      BY <3>1, <3>2, SMTT(30) DEF Level
    <3>4. o \in h.data /\ o.key = k
      BY <1>0, <2>4, <3>1, <3>3, LevelFacts, Zenon
    <3> QED BY <2>1, <3>4, Zenon DEF Leads, Suits, Covers
  <2> QED BY <2>8, <2>9, Zenon
<1>3. CASE Deep(i)
  <2>1. PICK l \in Level \ {0} : \E h \in levels[l] : Rests(h, l, i)
    BY <1>3, Zenon DEF Deep
  <2>2. PICK h \in levels[l] : Rests(h, l, i)
    BY <2>1, Zenon
  <2>3. PICK p \in h.data : Covers(p, i)
    BY <2>2, Zenon DEF Rests
  <2>4. TableGet(h.data, k) # {}
    BY <1>0, <2>3, Zenon DEF Covers
  <2>5. LevelGet(levels[l], k) # {}
    BY <1>0, <2>4, HindmostHit, Zenon
  <2>6. LevelsGet(levels, k) # {}
    BY <2>5, LeastHit, Zenon
  <2>7. ASSUME NEW o \in LevelsGet(levels, k) PROVE Covers(o, i)
    <3>1. PICK m \in Level :
             /\ \A n \in Level : LevelGet(levels[n], k) # {} => m <= n
             /\ \E g \in levels[m] :
                   /\ o \in g.data /\ o.key = k
                   /\ \A f \in levels[m] : TableGet(f.data, k) # {} => f.rank <= g.rank
      BY <1>1, <2>7, Zenon
    <3>2. PICK g \in levels[m] :
             /\ o \in g.data /\ o.key = k
             /\ \A f \in levels[m] : TableGet(f.data, k) # {} => f.rank <= g.rank
      BY <3>1, Zenon
    <3>3. m <= l
      BY <2>5, <3>1, Zenon
    <3>4. m < l \/ m = l
      BY <3>3 DEF Level
    <3>5. Suits(o, i)
      <4>1. CASE m = 0
        BY <1>3, <3>2, <4>1, Zenon DEF Deep, Above
      <4>2. CASE m # 0
        BY <2>2, <2>4, <3>2, <3>4, <4>2, Zenon DEF Rests
      <4> QED BY <4>1, <4>2, Zenon
    <3> QED BY <3>2, <3>5, Zenon DEF Suits, Covers
  <2> QED BY <2>6, <2>7, Zenon
<1>4. ~Dropped(i)
  BY Zenon DEF Dropped, Covers, OnlyPut
<1> QED BY <1>2, <1>3, <1>4, Zenon DEF OnTables, Sunk

LEMMA LookupAnswers ==
    ASSUME TypeInv, Working, \A t \in Thread : pc[t] = "idle",
           NEW k, OnlyPut(k), \A g, h \in Level0With(k) : g = h,
           NEW i \in DOMAIN hist, hist[i].op.key = k, Kept(i)
    PROVE  Lookup(k, sequence) # {} /\ \A o \in Lookup(k, sequence) : Covers(o, i)
<1> DEFINE inMem == MemGet(memtable, k, sequence)
           inImm == ImmutableGet(immutable, k, sequence)
<1>0. /\ \A mem : mem \subseteq MemoryVersions
            => \A o : o \in MemGet(mem, k, sequence) <=> o \in FlushContents(mem) /\ o.key = k
      /\ memtable \subseteq MemoryVersions
      /\ \A j \in DOMAIN immutable : immutable[j] \subseteq MemoryVersions
  <2>1. ASSUME NEW mem, mem \subseteq MemoryVersions
        PROVE  \A o : o \in MemGet(mem, k, sequence) <=> o \in FlushContents(mem) /\ o.key = k
    BY <2>1, MemAnswers, SMTT(30) DEF Working
  <2> QED BY <2>1, InMemoryVersions, Zenon
<1>1. \A t \in Thread : held[t] = {}
  BY Zenon DEF Working, FlushOK, FlushHand, Holding
<1>2. \A mem : mem \subseteq MemoryVersions /\ Holds(mem, i) => MemGet(mem, k, sequence) # {}
  BY <1>0, Zenon DEF Holds, Covers
<1>3. \A mem : mem \subseteq MemoryVersions /\ Fresh(mem, i)
          => \A o \in MemGet(mem, k, sequence) : Covers(o, i)
  BY <1>0, Zenon DEF Fresh, Suits, Covers
<1>4. ASSUME NEW o \in inImm
      PROVE  \E m \in DOMAIN immutable :
                /\ o \in MemGet(immutable[m], k, sequence)
                /\ \A n \in DOMAIN immutable : MemGet(immutable[n], k, sequence) # {} => n <= m
  BY <1>4, Zenon DEF ImmutableGet
<1>5. /\ inMem # {} => Lookup(k, sequence) = inMem
      /\ inMem = {} /\ inImm # {} => Lookup(k, sequence) = inImm
      /\ inMem = {} /\ inImm = {} => Lookup(k, sequence) = LevelsGet(levels, k)
  BY Zenon DEF Lookup
<1>6. Fresh(memtable, i) => \A o \in inMem : Covers(o, i)
  BY <1>0, <1>3, Zenon
<1>7. ListFresh(i) => Fresh(memtable, i) /\ \A o \in inImm : Covers(o, i)
  BY <1>0, <1>3, <1>4, Zenon DEF ListFresh
<1> HIDE DEF inMem, inImm
<1>8. CASE InMemtable(i)
  BY <1>0, <1>2, <1>5, <1>6, <1>8, Zenon DEF InMemtable, inMem
<1>9. CASE InImmutable(i)
  <2>1. PICK j \in DOMAIN immutable : /\ Holds(immutable[j], i)
                                      /\ \A m \in DOMAIN immutable : j <= m => Fresh(immutable[m], i)
    BY <1>9, Zenon DEF InImmutable
  <2>2. MemGet(immutable[j], k, sequence) # {}
    BY <1>0, <1>2, <2>1, Zenon
  <2>3. inImm # {}
    BY <2>2, LastHit, Zenon DEF inImm
  <2>4. \A o \in inImm : Covers(o, i)
    BY <1>0, <1>3, <1>4, <2>1, <2>2, Zenon
  <2> QED BY <1>5, <1>6, <1>9, <2>3, <2>4, Zenon DEF InImmutable
<1>10. ~InHeld(i)
  BY <1>1, EmptyFresh, Zenon DEF InHeld
<1>11. CASE OnTables(i) /\ ListFresh(i)
  BY <1>5, <1>6, <1>7, <1>11, TablesAnswer, Zenon
<1>12. OnTables(i) => ListFresh(i)
  BY Zenon DEF OnTables, InLevel0, Sunk, Deep, Above, Dropped, Covers, OnlyPut
<1> QED BY <1>8, <1>9, <1>10, <1>11, <1>12, ZenonT(40) DEF Kept, Frozen

(* Between calls in the first session, without I/O errors and as long as   *)
(* flushes and compactions do not overlap, get (lib.rs:447) answers a key  *)
(* that was only ever put, and that at most one table of level 0 holds,    *)
(* with its last acknowledged value or a newer one: for every number of    *)
(* writers, MemTable size, number of levels and place a compaction has     *)
(* moved the value to.                                                     *)
THEOREM LookupFollowsAge == OneFlusher => (Spec => []SearchedByAge)
<1> SUFFICES ASSUME OneFlusher PROVE Spec => []SearchedByAge
  BY Zenon
<1>1. CoverInv /\ FileInv => SearchedByAge
  <2> SUFFICES ASSUME CoverInv, FileInv, mode = "up", opens = 1, faults = 0,
                      \A t \in Thread : pc[t] = "idle",
                      NEW k \in Key, OnlyPut(k), \A g, h \in Level0With(k) : g = h
               PROVE  UpToDate(Lookup(k, sequence), k, acked)
    BY Zenon DEF SearchedByAge
  <2>1. TypeInv /\ Working
    BY Zenon DEF CoverInv, FileInv
  <2>2. \A i \in acked : i \in DOMAIN hist /\ Kept(i)
    BY <2>1, Zenon DEF CoverInv, HistOK, Working, AllKept, Inserted
  <2>3. ASSUME NEW i \in acked, hist[i].op.key = k
        PROVE  Lookup(k, sequence) # {} /\ \A o \in Lookup(k, sequence) : Covers(o, i)
    BY <2>1, <2>2, <2>3, LookupAnswers, Zenon
  <2> QED BY <2>3, Zenon DEF UpToDate
<1> QED BY <1>1, CoverInvariant, FileInvariant, PTL
=============================================================================
