----------------------------- MODULE FileProofs -----------------------------
(***************************************************************************)
(* What is in memory is in the log, through crashes, sessions and faults.  *)
(* The SSTable files of the first session, for every number of overlapping *)
(* flushes and compactions.                                                *)
(***************************************************************************)
EXTENDS EngineProofs

(***************************************************************************)
(* The log in use and what it holds.                                       *)
(***************************************************************************)

(* A flush empties the memory: the MemTable when it freezes it, the list   *)
(* before it rotates the log.                                              *)
FlushEmpties ==
    \A t \in Thread :
        /\ held[t] # {} => pc[t] \in Holding
        /\ pc[t] \in {"take"} \cup Holding \cup RotateSteps => memtable = {}
        /\ pc[t] \in RotateSteps => immutable = <<>>

(* The log in use is the one that open would choose; in the middle of a    *)
(* rotation it is the new one.                                             *)
LogCurrent ==
    mode = "up" =>
        /\ wal \in DOMAIN logs
        /\ \A n \in DOMAIN logs : n <= walNumber
        /\ (\A t \in Thread : pc[t] # "swap") => \A n \in DOMAIN logs : n <= wal
        /\ \A t \in Thread :
              /\ pc[t] = "swap" =>
                    num[t] \in DOMAIN logs /\ num[t] # wal /\ \A n \in DOMAIN logs : n <= num[t]
              /\ pc[t] = "unlink" => num[t] # wal

(* What the log holds for certain, and with what the writer still buffers. *)
Secured == SeqOps(logs[wal]) \cup (IF SyncWal THEN {} ELSE SeqOps(walBuf))
Buffered == SeqOps(logs[wal]) \cup SeqOps(walBuf)

(* Inserted operations, and those about to be, are logged.                 *)
WritesLogged ==
    mode = "up" =>
        /\ \A v \in MemoryVersions : v.op \in Secured
        /\ \A t \in Thread :
              /\ pc[t] = "sync" => SeqOps(batch[t]) \subseteq Buffered
              /\ pc[t] = "apply" => SeqOps(batch[t]) \subseteq Secured

LogInv == SeqInv /\ CallsMatch /\ Exclusive /\ FlushEmpties /\ LogCurrent /\ WritesLogged

LEMMA LogInit == Init => LogInv
<1> SUFFICES ASSUME Init PROVE LogInv
  BY Zenon
<1>1. CallsMatch /\ Exclusive /\ FlushEmpties
  BY Zenon DEF Init, CallsMatch, Exclusive, FlushEmpties, Holding, RotateSteps, CompactSteps, Flushing
<1>2. LogCurrent /\ WritesLogged
  BY Zenon DEF Init, LogCurrent, WritesLogged
<1> QED BY <1>1, <1>2, SeqInit, Zenon DEF LogInv

AloneSteps == {"take", "closing"} \cup Holding \cup RotateSteps \cup CompactSteps

LEMMA Alone ==
    ASSUME CallsMatch, Exclusive, NEW t \in Thread, NEW u \in Thread \ {t}, pc[u] \in AloneSteps
    PROVE  pc[t] = "idle"
BY Zenon DEF AloneSteps, CallsMatch, Exclusive

(* FlushEmpties is a matter of the thread that moves: the others are not   *)
(* flushing, or it is only entering a call.                                *)
LEMMA EmptiesBy ==
    ASSUME CallsMatch, Exclusive, FlushEmpties, NEW t \in Thread,
           \A u \in Thread \ {t} : pc'[u] = pc[u] /\ held'[u] = held[u],
           pc[t] = "idle" => UNCHANGED <<memtable, immutable>>,
           held'[t] # {} => pc'[t] \in Holding,
           pc'[t] \in {"take"} \cup Holding \cup RotateSteps => memtable' = {},
           pc'[t] \in RotateSteps => immutable' = <<>>
    PROVE  FlushEmpties'
<1>1. ASSUME NEW u \in Thread \ {t}
      PROVE  /\ held'[u] # {} => pc'[u] \in Holding
             /\ pc'[u] \in {"take"} \cup Holding \cup RotateSteps => memtable' = {}
             /\ pc'[u] \in RotateSteps => immutable' = <<>>
  <2>1. pc[u] \in AloneSteps => pc[t] = "idle"
    BY Alone, Zenon
  <2> QED BY <2>1, Zenon DEF FlushEmpties, AloneSteps
<1> QED BY <1>1, Zenon DEF FlushEmpties

LEMMA ReturnEmpties ==
    ASSUME TypeInv, CallsMatch, Exclusive, FlushEmpties, NEW t \in Thread, NEW ids,
           Return(t, ids), pc[t] # "idle"
    PROVE  FlushEmpties'
<1>1. /\ \A u \in Thread \ {t} : pc'[u] = pc[u] /\ held'[u] = held[u]
      /\ pc'[t] = "idle" /\ held'[t] = {}
  BY Zenon DEF Return, Goto, TypeInv, LocalsOK
<1> QED BY <1>1, EmptiesBy, Zenon DEF Holding, RotateSteps

LEMMA ThreadEmpties ==
    ASSUME TypeInv, CallsMatch, Exclusive, FlushEmpties, NEW t \in Thread, ThreadNext(t)
    PROVE  FlushEmpties'
<1> USE DEF Holding, RotateSteps, Goto
<1>0. /\ pc \in [Thread -> Step] /\ held \in [Thread -> SUBSET Version]
      /\ immutable \in Seq(SUBSET Version)
  BY Zenon DEF TypeInv, LocalsOK, MemoryOK
<1>1. CASE Put(t) \/ Delete(t) \/ Write(t)
  <2>1. PICK c, items : BeginWrite(t, c, items)
    BY <1>1, Zenon DEF Put, Delete, Write
  <2>2. pc[t] = "idle" /\ pc'[t] \in {"log", "apply"} /\ held' = held
        /\ UNCHANGED <<memtable, immutable>> /\ \A u \in Thread \ {t} : pc'[u] = pc[u]
    BY <1>0, <2>1, Zenon DEF BeginWrite, MayWrite
  <2>3. held[t] = {}
    BY <2>2, Zenon DEF FlushEmpties
  <2> QED BY <2>2, <2>3, EmptiesBy, Zenon
<1>2. CASE Flush(t) \/ Close(t) \/ Drop(t)
  <2>1. PICK c : BeginFlush(t, c)
    BY <1>2, Zenon DEF Flush, Close, Drop
  <2>2. pc[t] = "idle" /\ pc'[t] \in {"freeze", "take"} /\ held' = held
        /\ (pc'[t] = "take" => memtable = {})
        /\ UNCHANGED <<memtable, immutable>> /\ \A u \in Thread \ {t} : pc'[u] = pc[u]
    BY <1>0, <2>1, Zenon DEF BeginFlush, MayFlush, memory
  <2>3. held[t] = {}
    BY <2>2, Zenon DEF FlushEmpties
  <2> QED BY <2>2, <2>3, EmptiesBy, Zenon
<1>3. CASE Compact(t)
  <2>2. pc[t] = "idle" /\ pc'[t] = "pick" /\ held' = held
        /\ UNCHANGED <<memtable, immutable>> /\ \A u \in Thread \ {t} : pc'[u] = pc[u]
    BY <1>0, <1>3, Zenon DEF Compact, MayFlush, memory
  <2>3. held[t] = {}
    BY <2>2, Zenon DEF FlushEmpties
  <2> QED BY <2>2, <2>3, EmptiesBy, Zenon
<1>4. CASE AppendLog(t) \/ SyncLog(t) \/ Apply(t) \/ CheckSize(t)
  <2>0. pc[t] \in {"log", "sync", "apply", "check"}
    BY <1>4, Zenon DEF AppendLog, SyncLog, Apply, CheckSize
  <2>1. CASE Return(t, Ids(batch[t]))
    BY <2>0, <2>1, ReturnEmpties, Zenon
  <2>2. CASE ~Return(t, Ids(batch[t]))
    <3>1. /\ pc'[t] \in {"sync", "apply", "check", "freeze"} /\ held' = held
          /\ \A u \in Thread \ {t} : pc'[u] = pc[u]
      BY <1>0, <1>4, <2>2, Zenon DEF AppendLog, SyncLog, Apply, CheckSize, locals
    <3>2. held[t] = {}
      BY <2>0, Zenon DEF FlushEmpties
    <3> QED BY <2>0, <3>1, <3>2, EmptiesBy, Zenon
  <2> QED BY <2>1, <2>2, Zenon
<1>5. CASE Freeze(t)
  <2>1. CASE Return(t, Ids(batch[t]))
    BY <1>5, <2>1, ReturnEmpties, Zenon DEF Freeze
  <2>2. CASE ~Return(t, Ids(batch[t]))
    <3>1. /\ pc[t] = "freeze" /\ pc'[t] = "take" /\ held' = held /\ memtable' = {}
          /\ \A u \in Thread \ {t} : pc'[u] = pc[u]
      BY <1>0, <1>5, <2>2, Zenon DEF Freeze, locals
    <3>2. held[t] = {}
      BY <3>1, Zenon DEF FlushEmpties
    <3> QED BY <3>1, <3>2, EmptiesBy, Zenon
  <2> QED BY <2>1, <2>2, Zenon
<1>6. CASE FlushTake(t)
  <2>1. /\ pc[t] = "take" /\ pc'[t] \in {"rotate", "create"} /\ memtable' = memtable
        /\ \A u \in Thread \ {t} : pc'[u] = pc[u] /\ held'[u] = held[u]
        /\ pc'[t] = "rotate" => held' = held /\ immutable' = <<>>
    BY <1>0, <1>6, Zenon DEF FlushTake
  <2>2. memtable = {} /\ held[t] = {}
    BY <2>1, Zenon DEF FlushEmpties
  <2> QED BY <2>1, <2>2, EmptiesBy, Zenon
<1>7. CASE FlushCreate(t) \/ FlushBuild(t) \/ FlushInstall(t)
  <2>1. /\ pc[t] \in Holding /\ pc'[t] \in {"take"} \cup Holding
        /\ UNCHANGED <<memtable, immutable>>
        /\ \A u \in Thread \ {t} : pc'[u] = pc[u] /\ held'[u] = held[u]
        /\ pc'[t] = "take" => held'[t] = {}
    BY <1>0, <1>7, Zenon DEF FlushCreate, FlushBuild, FlushInstall, memory, locals
  <2>2. memtable = {}
    BY <2>1, Zenon DEF FlushEmpties
  <2> QED BY <2>1, <2>2, EmptiesBy, Zenon
<1>8. CASE RotateOpen(t) \/ RotateSwap(t) \/ RotateRemove(t)
  <2>1. /\ pc[t] \in RotateSteps /\ pc'[t] \in {"pick"} \cup RotateSteps /\ held' = held
        /\ UNCHANGED <<memtable, immutable>> /\ \A u \in Thread \ {t} : pc'[u] = pc[u]
    BY <1>0, <1>8, Zenon DEF RotateOpen, RotateSwap, RotateRemove, memory, locals
  <2>2. memtable = {} /\ immutable = <<>> /\ held[t] = {}
    BY <2>1, Zenon DEF FlushEmpties
  <2> QED BY <2>1, <2>2, EmptiesBy, Zenon
<1>9. CASE CompactPick(t) \/ CompactCreate(t) \/ CompactMerge(t) \/ CompactInstall(t) \/ CompactDelete(t)
  <2>0. pc[t] \in CompactSteps
    BY <1>9, Zenon DEF CompactSteps, CompactPick, CompactCreate, CompactMerge, CompactInstall, CompactDelete
  <2>1. CASE Return(t, {})
    BY <2>0, <2>1, ReturnEmpties, Zenon DEF CompactSteps
  <2>2. CASE ~Return(t, {})
    <3>1. /\ pc'[t] \in {"closing"} \cup CompactSteps /\ held' = held
          /\ \A u \in Thread \ {t} : pc'[u] = pc[u]
      <4>1. CASE EndCompact(t)
        BY <1>0, <2>2, <4>1, Zenon DEF EndCompact
      <4>2. CASE ~EndCompact(t)
        BY <1>0, <1>9, <2>2, <4>2, Zenon DEF CompactPick, CompactCreate, CompactMerge, MergeTo,
           CompactInstall, CompactDelete, CompactSteps, locals
      <4> QED BY <4>1, <4>2, Zenon
    <3>2. held[t] = {} /\ pc[t] # "idle"
      BY <2>0, Zenon DEF FlushEmpties, CompactSteps
    <3> QED BY <3>1, <3>2, EmptiesBy, Zenon DEF CompactSteps
  <2> QED BY <2>1, <2>2, Zenon
<1>10. CASE CloseSync(t)
  <2>1. CASE Vanish
    BY <2>1, Zenon DEF Vanish, FlushEmpties
  <2>2. CASE ~Vanish
    BY <1>10, <2>2, ReturnEmpties, Zenon DEF CloseSync
  <2> QED BY <2>1, <2>2, Zenon
<1>11. CASE Fail(t)
  <2>0. pc[t] # "idle"
    BY <1>11, Zenon DEF Fail, FaultSteps
  <2>1. CASE Return(t, {})
    BY <2>0, <2>1, ReturnEmpties, Zenon
  <2>2. CASE ~Return(t, {})
    <3>1. /\ pc'[t] = "closing" /\ held'[t] = {}
          /\ \A u \in Thread \ {t} : pc'[u] = pc[u] /\ held'[u] = held[u]
      BY <1>0, <1>11, <2>2, Zenon DEF Fail
    <3> QED BY <2>0, <3>1, EmptiesBy, Zenon
  <2> QED BY <2>1, <2>2, Zenon
<1> QED BY <1>1, <1>2, <1>3, <1>4, <1>5, <1>6, <1>7, <1>8, <1>9, <1>10, <1>11, Zenon DEF ThreadNext

(* LogCurrent: only a rotation touches the numbers of the logs.            *)
LEMMA CurrentBy ==
    ASSUME LogCurrent, mode = "up", NEW t \in Thread, pc[t] # "swap",
           DOMAIN logs' = DOMAIN logs, wal' = wal, walNumber \in Nat,
           walNumber' \in {walNumber, walNumber + 1}, DOMAIN logs \subseteq Nat,
           \A u \in Thread \ {t} : pc'[u] = pc[u] /\ num'[u] = num[u],
           pc'[t] \notin {"swap", "unlink"}
    PROVE  LogCurrent'
<1>1. \A n \in DOMAIN logs : n <= walNumber'
  <2>1. \A n \in DOMAIN logs : n \in Nat /\ n <= walNumber
    BY Zenon DEF LogCurrent
  <2>2. walNumber' \in Nat /\ walNumber <= walNumber'
    OBVIOUS
  <2> QED BY <2>1, <2>2
<1>2. (\A u \in Thread : pc'[u] # "swap") => \A n \in DOMAIN logs : n <= wal
  BY Zenon DEF LogCurrent
<1>3. \A u \in Thread :
          /\ pc'[u] = "swap" => /\ num'[u] \in DOMAIN logs /\ num'[u] # wal
                               /\ \A n \in DOMAIN logs : n <= num'[u]
          /\ pc'[u] = "unlink" => num'[u] # wal
  BY Zenon DEF LogCurrent
<1> QED BY <1>1, <1>2, <1>3, Zenon DEF LogCurrent

LEMMA LogTypes ==
    ASSUME TypeInv
    PROVE  /\ DOMAIN logs \subseteq Nat /\ wal \in Nat /\ walNumber \in Nat
           /\ num \in [Thread -> Nat] /\ pc \in [Thread -> Step]
BY Zenon DEF TypeInv, MemoryOK, DiskOK, LocalsOK

LEMMA RotateCurrent ==
    ASSUME TypeInv, CallsMatch, Exclusive, LogCurrent, mode = "up", NEW t \in Thread,
           RotateOpen(t) \/ RotateSwap(t) \/ RotateRemove(t)
    PROVE  LogCurrent'
<1> USE DEF Goto
<1>0. /\ DOMAIN logs \subseteq Nat /\ wal \in Nat /\ walNumber \in Nat
      /\ num \in [Thread -> Nat] /\ pc \in [Thread -> Step]
  BY LogTypes, Zenon
<1>1. \A u \in Thread \ {t} : pc[u] = "idle" /\ pc'[u] = "idle"
  <2>1. pc[t] \in AloneSteps
    BY Zenon DEF RotateOpen, RotateSwap, RotateRemove, AloneSteps, RotateSteps
  <2>2. \A u \in Thread \ {t} : pc[u] = "idle"
    BY <2>1, Alone, Zenon
  <2> QED BY <1>0, <2>2, Zenon DEF RotateOpen, RotateSwap, RotateRemove
<1>2. CASE RotateOpen(t)
  <2>1. /\ DOMAIN logs' = DOMAIN logs \cup {walNumber + 1}
        /\ walNumber' = walNumber + 1 /\ wal' = wal
        /\ num'[t] = walNumber + 1 /\ pc'[t] = "swap" /\ pc[t] = "rotate"
    BY <1>0, <1>2, Zenon DEF RotateOpen, With
  <2>2. wal \in DOMAIN logs /\ \A n \in DOMAIN logs : n <= walNumber
    BY Zenon DEF LogCurrent
  <2>3. /\ \A n \in DOMAIN logs' : n <= walNumber' /\ n <= num'[t]
        /\ num'[t] \in DOMAIN logs' /\ num'[t] # wal' /\ wal' \in DOMAIN logs'
    <3>1. \A n \in DOMAIN logs : n \in Nat /\ n <= walNumber
      BY <1>0, <2>2, Zenon
    <3>2. \A n \in DOMAIN logs \cup {walNumber + 1} : n <= walNumber + 1
      BY <1>0, <3>1
    <3>3. walNumber + 1 # wal
      BY <1>0, <2>2
    <3> QED BY <2>1, <2>2, <3>2, <3>3, Zenon
  <2> QED BY <1>1, <2>1, <2>3, Zenon DEF LogCurrent
<1>3. CASE RotateSwap(t)
  <2>1. /\ DOMAIN logs' = DOMAIN logs /\ walNumber' = walNumber /\ wal' = num[t]
        /\ num'[t] = wal /\ pc'[t] = "unlink" /\ pc[t] = "swap"
    BY <1>0, <1>3, Zenon DEF RotateSwap, FlushBuffer
  <2>2. /\ \A n \in DOMAIN logs : n <= walNumber /\ n <= num[t]
        /\ num[t] \in DOMAIN logs /\ num[t] # wal
    BY <2>1, Zenon DEF LogCurrent
  <2> QED BY <1>1, <2>1, <2>2, Zenon DEF LogCurrent
<1>4. CASE RotateRemove(t)
  <2>1. /\ DOMAIN logs' = DOMAIN logs \ {num[t]} /\ walNumber' = walNumber /\ wal' = wal
        /\ pc'[t] = "pick" /\ pc[t] = "unlink"
    BY <1>0, <1>4, Zenon DEF RotateRemove, Without, memory
  <2>2. /\ wal \in DOMAIN logs /\ num[t] # wal
        /\ \A n \in DOMAIN logs : n <= walNumber /\ n <= wal
    BY <1>1, <2>1, Zenon DEF LogCurrent
  <2> QED BY <1>1, <2>1, <2>2, Zenon DEF LogCurrent
<1> QED BY <1>2, <1>3, <1>4, Zenon

LEMMA ReturnCurrent ==
    ASSUME TypeInv, LogCurrent, mode = "up", NEW t \in Thread, NEW ids, Return(t, ids),
           pc[t] # "swap", DOMAIN logs' = DOMAIN logs, wal' = wal,
           walNumber' \in {walNumber, walNumber + 1}
    PROVE  LogCurrent'
<1>1. pc'[t] = "idle" /\ \A u \in Thread \ {t} : pc'[u] = pc[u] /\ num'[u] = num[u]
  BY LogTypes, Zenon DEF Return, Goto
<1> QED BY <1>1, LogTypes, CurrentBy, Zenon

LEMMA ThreadCurrent ==
    ASSUME TypeInv, CallsMatch, Exclusive, LogCurrent, mode = "up", NEW t \in Thread, ThreadNext(t)
    PROVE  LogCurrent'
<1> USE DEF Goto
<1>0. /\ DOMAIN logs \subseteq Nat /\ wal \in Nat /\ walNumber \in Nat
      /\ num \in [Thread -> Nat] /\ pc \in [Thread -> Step]
  BY LogTypes, Zenon
<1> DEFINE Stays == /\ wal' = wal /\ walNumber' \in {walNumber, walNumber + 1}
                    /\ DOMAIN logs' = DOMAIN logs /\ pc[t] # "swap"
           Others == \A u \in Thread \ {t} : pc'[u] = pc[u] /\ num'[u] = num[u]
<1>1. CASE Put(t) \/ Delete(t) \/ Write(t)
  <2>1. PICK c, items : BeginWrite(t, c, items)
    BY <1>1, Zenon DEF Put, Delete, Write
  <2>2. Stays /\ Others /\ pc'[t] \in {"log", "apply"}
    BY <1>0, <2>1, Zenon DEF BeginWrite, MayWrite, disk
  <2> QED BY <1>0, <2>2, CurrentBy, Zenon
<1>2. CASE Flush(t) \/ Close(t) \/ Drop(t)
  <2>1. PICK c : BeginFlush(t, c)
    BY <1>2, Zenon DEF Flush, Close, Drop
  <2>2. Stays /\ Others /\ pc'[t] \in {"freeze", "take"}
    BY <1>0, <2>1, Zenon DEF BeginFlush, MayFlush, memory, disk
  <2> QED BY <1>0, <2>2, CurrentBy, Zenon
<1>3. CASE Compact(t) \/ FlushCreate(t) \/ CompactCreate(t)
  <2>1. Stays /\ Others /\ pc'[t] \in {"pick", "build", "cmerge"}
    BY <1>0, <1>3, Zenon DEF Compact, MayFlush, FlushCreate, CompactCreate, CreateFile, memory, disk
  <2> QED BY <1>0, <2>1, CurrentBy, Zenon
<1>4. CASE AppendLog(t) \/ SyncLog(t)
  <2>1. Stays /\ Others /\ pc'[t] \in {"sync", "apply"}
    BY <1>0, <1>4, Zenon DEF AppendLog, SyncLog, FlushBuffer, disk, locals
  <2> QED BY <1>0, <2>1, CurrentBy, Zenon
<1>5. CASE Apply(t) \/ CheckSize(t) \/ Freeze(t)
  <2>1. Stays
    BY <1>0, <1>5, Zenon DEF Apply, CheckSize, Freeze, disk, memory
  <2>2. CASE Return(t, Ids(batch[t]))
    BY <2>1, <2>2, ReturnCurrent, Zenon
  <2>3. CASE ~Return(t, Ids(batch[t]))
    <3>1. Others /\ pc'[t] \in {"apply", "check", "freeze", "take"}
      BY <1>0, <1>5, <2>3, Zenon DEF Apply, CheckSize, Freeze, locals
    <3> QED BY <1>0, <2>1, <3>1, CurrentBy, Zenon
  <2> QED BY <2>2, <2>3, Zenon
<1>6. CASE FlushTake(t) \/ FlushBuild(t) \/ FlushInstall(t)
  <2>1. Stays /\ Others /\ pc'[t] \in {"rotate", "create", "take", "install"}
    BY <1>0, <1>6, Zenon DEF FlushTake, FlushBuild, FlushInstall, disk, memory, locals
  <2> QED BY <1>0, <2>1, CurrentBy, Zenon
<1>7. CASE RotateOpen(t) \/ RotateSwap(t) \/ RotateRemove(t)
  BY <1>7, RotateCurrent, Zenon
<1>8. CASE CompactPick(t) \/ CompactMerge(t) \/ CompactInstall(t) \/ CompactDelete(t)
  <2>1. Stays /\ pc[t] \in CompactSteps
    BY <1>0, <1>8, Zenon DEF CompactPick, CompactMerge, CompactInstall, CompactDelete, CompactSteps,
                      disk, memory
  <2>2. CASE Return(t, {})
    BY <2>1, <2>2, ReturnCurrent, Zenon
  <2>3. CASE ~Return(t, {})
    <3>1. Others /\ pc'[t] \in {"closing"} \cup CompactSteps
      <4>1. CASE EndCompact(t)
        BY <1>0, <2>3, <4>1, Zenon DEF EndCompact
      <4>2. CASE ~EndCompact(t)
        BY <1>0, <1>8, <2>1, <2>3, <4>2, Zenon DEF CompactPick, CompactMerge, MergeTo,
           CompactInstall, CompactDelete, CompactSteps, locals
      <4> QED BY <4>1, <4>2, Zenon
    <3> QED BY <1>0, <2>1, <3>1, CurrentBy, Zenon DEF CompactSteps
  <2> QED BY <2>2, <2>3, Zenon
<1>9. CASE CloseSync(t)
  <2>1. CASE Vanish
    BY <2>1, Zenon DEF Vanish, LogCurrent
  <2>2. CASE ~Vanish
    <3>1. Stays /\ Return(t, {})
      BY <1>0, <1>9, <2>2, Zenon DEF CloseSync, FlushBuffer
    <3> QED BY <3>1, ReturnCurrent, Zenon
  <2> QED BY <2>1, <2>2, Zenon
<1>10. CASE Fail(t)
  <2>1. Stays
    BY <1>0, <1>10, Zenon DEF Fail, FaultSteps
  <2>2. CASE Return(t, {})
    BY <2>1, <2>2, ReturnCurrent, Zenon
  <2>3. CASE ~Return(t, {})
    <3>1. Others /\ pc'[t] = "closing"
      BY <1>0, <1>10, <2>3, Zenon DEF Fail
    <3> QED BY <1>0, <2>1, <3>1, CurrentBy, Zenon
  <2> QED BY <2>2, <2>3, Zenon
<1> QED BY <1>1, <1>2, <1>3, <1>4, <1>5, <1>6, <1>7, <1>8, <1>9, <1>10, Zenon DEF ThreadNext

(* What sequence operators do to the entries.                              *)
LEMMA SeqOpsConcat ==
    ASSUME NEW r \in Seq(Op), NEW s \in Seq(Op)
    PROVE  SeqOps(r \o s) = SeqOps(r) \cup SeqOps(s)
<1> HIDE DEF Op
<1>1. ASSUME NEW i \in DOMAIN (r \o s) PROVE (r \o s)[i] \in SeqOps(r) \cup SeqOps(s)
  <2>1. CASE i <= Len(r)
    BY <2>1 DEF SeqOps
  <2>2. CASE i > Len(r)
    <3>1. i - Len(r) \in DOMAIN s /\ (r \o s)[i] = s[i - Len(r)]
      BY <2>2
    <3> QED BY <3>1, Zenon DEF SeqOps
  <2> QED BY <2>1, <2>2
<1>2. ASSUME NEW i \in DOMAIN r PROVE r[i] \in SeqOps(r \o s)
  <2>1. i \in DOMAIN (r \o s) /\ (r \o s)[i] = r[i]
    OBVIOUS
  <2> QED BY <2>1, Zenon DEF SeqOps
<1>3. ASSUME NEW i \in DOMAIN s PROVE s[i] \in SeqOps(r \o s)
  <2>1. i + Len(r) \in DOMAIN (r \o s) /\ (r \o s)[i + Len(r)] = s[i]
    OBVIOUS
  <2> QED BY <2>1, Zenon DEF SeqOps
<1> QED BY <1>1, <1>2, <1>3, Zenon DEF SeqOps

LEMMA SeqOpsAppend ==
    ASSUME NEW r \in Seq(Op), NEW e \in Op
    PROVE  SeqOps(Append(r, e)) = SeqOps(r) \cup {e}
<1> HIDE DEF Op
<1>1. \A i \in DOMAIN Append(r, e) : (i \in DOMAIN r /\ Append(r, e)[i] = r[i]) \/ Append(r, e)[i] = e
  OBVIOUS
<1>2. \A i \in DOMAIN r : i \in DOMAIN Append(r, e) /\ Append(r, e)[i] = r[i]
  OBVIOUS
<1>3. Len(r) + 1 \in DOMAIN Append(r, e) /\ Append(r, e)[Len(r) + 1] = e
  OBVIOUS
<1> QED BY <1>1, <1>2, <1>3, Zenon DEF SeqOps

LEMMA SeqOpsTail ==
    ASSUME NEW s \in Seq(Op), s # <<>>
    PROVE  SeqOps(s) = {Head(s)} \cup SeqOps(Tail(s))
<1> HIDE DEF Op
<1>1. \A i \in DOMAIN s : s[i] = Head(s) \/ (i - 1 \in DOMAIN Tail(s) /\ Tail(s)[i - 1] = s[i])
  OBVIOUS
<1>2. \A i \in DOMAIN Tail(s) : i + 1 \in DOMAIN s /\ Tail(s)[i] = s[i + 1]
  OBVIOUS
<1>3. 1 \in DOMAIN s /\ Head(s) = s[1]
  OBVIOUS
<1> QED BY <1>1, <1>2, <1>3 DEF SeqOps

(* The log loses nothing, and the log and its buffer together lose nothing.*)
LogGrows ==
    /\ SeqOps(logs[wal]) \subseteq SeqOps(logs[wal])'
    /\ SeqOps(logs[wal]) \cup SeqOps(walBuf) \subseteq SeqOps(logs[wal])' \cup SeqOps(walBuf)'

LEMMA GrowsSecures ==
    ASSUME LogGrows PROVE Secured \subseteq Secured' /\ Buffered \subseteq Buffered'
<1>1. CASE SyncWal
  BY <1>1, Zenon DEF LogGrows, Secured, Buffered
<1>2. CASE ~SyncWal
  BY <1>2, Zenon DEF LogGrows, Secured, Buffered
<1> QED BY <1>1, <1>2, Zenon

LEMMA WritesBy ==
    ASSUME WritesLogged, mode = "up", LogGrows,
           MemoryVersions' \subseteq MemoryVersions,
           \A u \in Thread : pc'[u] \in {"sync", "apply"} =>
               pc'[u] = pc[u] /\ batch'[u] = batch[u]
    PROVE  WritesLogged'
<1>1. Secured \subseteq Secured' /\ Buffered \subseteq Buffered'
  BY GrowsSecures, Zenon
<1>2. \A v \in MemoryVersions' : v.op \in Secured'
  BY <1>1, Zenon DEF WritesLogged
<1>3. ASSUME NEW u \in Thread
      PROVE  /\ pc'[u] = "sync" => SeqOps(batch[u])' \subseteq Buffered'
             /\ pc'[u] = "apply" => SeqOps(batch[u])' \subseteq Secured'
  BY <1>1, Zenon DEF WritesLogged, SeqOps
<1> QED BY <1>2, <1>3, Zenon DEF WritesLogged

LEMMA SameLog ==
    ASSUME wal' = wal, logs'[wal] = logs[wal], walBuf' = walBuf PROVE LogGrows
BY Zenon DEF LogGrows, SeqOps

LEMMA BufferTypes ==
    ASSUME TypeInv, LogCurrent, mode = "up"
    PROVE  /\ wal \in DOMAIN logs /\ logs[wal] \in Seq(Op) /\ walBuf \in Seq(Op)
           /\ \A u \in Thread : batch[u] \in Seq(Op)
BY Zenon DEF TypeInv, MemoryOK, DiskOK, LocalsOK, LogCurrent

(* Handing the buffer over moves entries from the buffer to the log.       *)
LEMMA FlushBufferGrows ==
    ASSUME TypeInv, LogCurrent, mode = "up", FlushBuffer, wal' = wal
    PROVE  LogGrows /\ SeqOps(logs[wal])' = Buffered
<1>1. wal \in DOMAIN logs /\ logs[wal] \in Seq(Op) /\ walBuf \in Seq(Op)
  BY BufferTypes, Zenon
<1>2. logs'[wal] = logs[wal] \o walBuf
  BY <1>1, Zenon DEF FlushBuffer
<1>3. SeqOps(logs[wal])' = SeqOps(logs[wal]) \cup SeqOps(walBuf)
  <2>1. SeqOps(logs[wal])' = SeqOps(logs[wal] \o walBuf)
    BY <1>2, Zenon DEF SeqOps
  <2> QED BY <1>1, <2>1, SeqOpsConcat, Zenon
<1> QED BY <1>3, Zenon DEF LogGrows, Buffered

LEMMA SpillGrows == ASSUME TypeInv, LogCurrent, mode = "up", Spill PROVE LogGrows
<1>1. wal \in DOMAIN logs /\ logs[wal] \in Seq(Op) /\ walBuf \in Seq(Op) /\ walBuf # <<>>
  BY BufferTypes, Zenon DEF Spill
<1>2. /\ wal' = wal /\ logs'[wal] = Append(logs[wal], Head(walBuf)) /\ walBuf' = Tail(walBuf)
      /\ Head(walBuf) \in Op
  BY <1>1 DEF Spill
<1>3. SeqOps(logs[wal])' = SeqOps(logs[wal]) \cup {Head(walBuf)}
  <2>1. SeqOps(logs[wal])' = SeqOps(Append(logs[wal], Head(walBuf)))
    BY <1>2, Zenon DEF SeqOps
  <2> QED BY <1>1, <1>2, <2>1, SeqOpsAppend, Zenon
<1>4. SeqOps(walBuf) = {Head(walBuf)} \cup SeqOps(walBuf)'
  <2>1. SeqOps(walBuf)' = SeqOps(Tail(walBuf))
    BY <1>2, Zenon DEF SeqOps
  <2> QED BY <1>1, <2>1, SeqOpsTail, Zenon
<1> QED BY <1>3, <1>4, Zenon DEF LogGrows

(* The write path: a batch enters the buffer, the buffer the log, and one  *)
(* operation after the other the MemTable.                                 *)
LEMMA BeginWrites ==
    ASSUME UseWal, TypeInv, LogCurrent, WritesLogged, mode = "up", NEW t \in Thread,
           Put(t) \/ Delete(t) \/ Write(t)
    PROVE  WritesLogged'
<1>1. PICK c, items : BeginWrite(t, c, items)
  BY Zenon DEF Put, Delete, Write
<1>2. /\ pc'[t] = "log" /\ wal' = wal /\ logs' = logs /\ walBuf' = walBuf
      /\ \A u \in Thread \ {t} : pc'[u] = pc[u] /\ batch'[u] = batch[u]
  BY <1>1, Zenon DEF BeginWrite, Goto, disk, TypeInv, LocalsOK
<1>3. MemoryVersions' = MemoryVersions
  BY <1>1, Zenon DEF BeginWrite, MemoryVersions
<1> QED BY <1>2, <1>3, SameLog, WritesBy, Zenon

LEMMA AppendWrites ==
    ASSUME TypeInv, LogCurrent, WritesLogged, mode = "up", NEW t \in Thread, AppendLog(t)
    PROVE  WritesLogged'
<1>0. wal \in DOMAIN logs /\ logs[wal] \in Seq(Op) /\ walBuf \in Seq(Op) /\ batch[t] \in Seq(Op)
  BY BufferTypes, Zenon
<1>1. /\ wal' = wal /\ logs' = logs /\ batch' = batch
      /\ pc'[t] = (IF SyncWal THEN "sync" ELSE "apply")
      /\ \A u \in Thread \ {t} : pc'[u] = pc[u]
  BY Zenon DEF AppendLog, Goto, disk, locals, TypeInv, LocalsOK
<1>2. SeqOps(walBuf)' = SeqOps(walBuf) \cup SeqOps(batch[t])
  <2>1. SeqOps(walBuf)' = SeqOps(walBuf \o batch[t])
    BY Zenon DEF AppendLog, SeqOps
  <2> QED BY <1>0, <2>1, SeqOpsConcat, Zenon
<1>3. SeqOps(logs[wal])' = SeqOps(logs[wal]) /\ \A u \in Thread : SeqOps(batch[u])' = SeqOps(batch[u])
  BY <1>1, Zenon DEF SeqOps
<1>4. Secured \subseteq Secured' /\ Buffered \subseteq Buffered' /\ SeqOps(batch[t]) \subseteq Buffered'
  BY <1>2, <1>3, GrowsSecures, Zenon DEF LogGrows, Buffered
<1>5. ~SyncWal => SeqOps(batch[t]) \subseteq Secured'
  BY <1>2, Zenon DEF Secured
<1>6. MemoryVersions' = MemoryVersions
  BY Zenon DEF AppendLog, MemoryVersions, locals
<1>7. ASSUME NEW u \in Thread
      PROVE  /\ pc'[u] = "sync" => SeqOps(batch[u])' \subseteq Buffered'
             /\ pc'[u] = "apply" => SeqOps(batch[u])' \subseteq Secured'
  BY <1>1, <1>3, <1>4, <1>5, Zenon DEF WritesLogged
<1> QED BY <1>4, <1>6, <1>7, Zenon DEF WritesLogged

LEMMA SyncWrites ==
    ASSUME TypeInv, LogCurrent, WritesLogged, mode = "up", NEW t \in Thread, SyncLog(t)
    PROVE  WritesLogged'
<1>1. /\ wal' = wal /\ batch' = batch /\ pc[t] = "sync" /\ pc'[t] = "apply"
      /\ \A u \in Thread \ {t} : pc'[u] = pc[u]
  BY Zenon DEF SyncLog, Goto, locals, TypeInv, LocalsOK
<1>2. LogGrows /\ SeqOps(logs[wal])' = Buffered
  BY <1>1, FlushBufferGrows, Zenon DEF SyncLog
<1>3. Secured \subseteq Secured' /\ Buffered \subseteq Buffered' /\ Buffered \subseteq Secured'
  <2>1. Secured \subseteq Secured' /\ Buffered \subseteq Buffered'
    BY <1>2, GrowsSecures, Zenon
  <2>2. SeqOps(logs[wal])' \subseteq Secured'
    BY Zenon DEF Secured
  <2> QED BY <1>2, <2>1, <2>2, Zenon
<1>4. MemoryVersions' = MemoryVersions
  BY Zenon DEF SyncLog, MemoryVersions, locals
<1>5. \A u \in Thread : SeqOps(batch[u])' = SeqOps(batch[u])
  BY <1>1, Zenon DEF SeqOps
<1>6. ASSUME NEW u \in Thread
      PROVE  /\ pc'[u] = "sync" => SeqOps(batch[u])' \subseteq Buffered'
             /\ pc'[u] = "apply" => SeqOps(batch[u])' \subseteq Secured'
  BY <1>1, <1>3, <1>5, Zenon DEF WritesLogged
<1> QED BY <1>3, <1>4, <1>6, Zenon DEF WritesLogged

LEMMA ApplyWrites ==
    ASSUME TypeInv, WritesLogged, mode = "up", NEW t \in Thread, Apply(t)
    PROVE  WritesLogged'
<1> DEFINE v0 == [op |-> batch[t][applied[t] + 1], seq |-> base[t] + applied[t]]
<1>1. /\ wal' = wal /\ logs' = logs /\ walBuf' = walBuf /\ pc[t] = "apply"
      /\ memtable' = memtable \cup {v0} /\ immutable' = immutable
  BY Zenon DEF Apply, disk
<1>2. v0.op \in SeqOps(batch[t])
  <2>1. applied[t] + 1 \in DOMAIN batch[t]
    BY <1>1 DEF TypeInv, LocalsOK, BatchReady
  <2> QED BY <2>1, Zenon DEF SeqOps
<1>3. /\ \A u \in Thread : held'[u] \subseteq held[u]
      /\ \A u \in Thread : pc'[u] \in {"sync", "apply"} => pc'[u] = pc[u] /\ batch'[u] = batch[u]
  <2>1. CASE Return(t, Ids(batch[t]))
    BY <2>1, Zenon DEF Return, Goto, TypeInv, LocalsOK
  <2>2. CASE ~Return(t, Ids(batch[t]))
    BY <1>1, <2>2, Zenon DEF Apply, Goto, TypeInv, LocalsOK
  <2> QED BY <2>1, <2>2, Zenon
<1> HIDE DEF v0
<1>4. MemoryVersions' \subseteq MemoryVersions \cup {v0}
  BY <1>1, <1>3, InMemoryVersions, InMemoryVersionsNext, Zenon
<1>5. Secured' = Secured /\ Buffered' = Buffered
  BY <1>1, Zenon DEF Secured, Buffered, SeqOps
<1>6. \A v \in MemoryVersions' : v.op \in Secured'
  BY <1>1, <1>2, <1>4, <1>5, Zenon DEF WritesLogged
<1>7. ASSUME NEW u \in Thread
      PROVE  /\ pc'[u] = "sync" => SeqOps(batch[u])' \subseteq Buffered'
             /\ pc'[u] = "apply" => SeqOps(batch[u])' \subseteq Secured'
  BY <1>3, <1>5, Zenon DEF WritesLogged, SeqOps
<1> QED BY <1>6, <1>7, Zenon DEF WritesLogged

(* While a flush rotates the log there is nothing in memory.               *)
LEMMA RotatingEmpty ==
    ASSUME CallsMatch, Exclusive, FlushEmpties, NEW t \in Thread, pc[t] \in RotateSteps
    PROVE  MemoryVersions = {}
<1>1. memtable = {} /\ immutable = <<>>
  BY Zenon DEF FlushEmpties
<1>2. \A u \in Thread : held[u] = {}
  <2>1. \A u \in Thread \ {t} : pc[u] = "idle"
    BY Alone, Zenon DEF AloneSteps
  <2> QED BY <2>1, Zenon DEF FlushEmpties, Holding, RotateSteps
<1> QED BY <1>1, <1>2, InMemoryVersions

LEMMA RotateWrites ==
    ASSUME TypeInv, CallsMatch, Exclusive, FlushEmpties, mode = "up",
           NEW t \in Thread, RotateOpen(t) \/ RotateSwap(t) \/ RotateRemove(t)
    PROVE  WritesLogged'
<1>1. pc[t] \in RotateSteps
  BY Zenon DEF RotateOpen, RotateSwap, RotateRemove, RotateSteps
<1>2. MemoryVersions' = {}
  <2>1. Calm
    BY CalmSteps, Zenon
  <2> QED BY <1>1, <2>1, CalmVersions, RotatingEmpty, Zenon
<1>3. \A u \in Thread : pc'[u] \notin {"sync", "apply"}
  <2>1. \A u \in Thread \ {t} : pc[u] = "idle"
    BY <1>1, Alone, Zenon DEF AloneSteps
  <2> QED BY <2>1, Zenon DEF RotateOpen, RotateSwap, RotateRemove, Goto, TypeInv, LocalsOK
<1> QED BY <1>2, <1>3, Zenon DEF WritesLogged

(* A failed append may leave a part of its batch in the buffer.            *)
LEMMA FailGrows ==
    ASSUME TypeInv, LogCurrent, mode = "up", NEW t \in Thread, Fail(t) PROVE LogGrows
<1>0. walBuf \in Seq(Op) /\ batch[t] \in Seq(Op)
  BY BufferTypes, Zenon
<1>1. wal' = wal /\ logs' = logs
  BY Zenon DEF Fail
<1>2. CASE UNCHANGED walBuf
  BY <1>1, <1>2, SameLog, Zenon
<1>3. CASE ~UNCHANGED walBuf
  <2>1. PICK n \in 1 .. Len(batch[t]) : walBuf' = walBuf \o SubSeq(batch[t], 1, n)
    BY <1>3, Zenon DEF Fail
  <2>2. SubSeq(batch[t], 1, n) \in Seq(Op)
    BY <1>0, <2>1
  <2>3. SeqOps(walBuf)' = SeqOps(walBuf) \cup SeqOps(SubSeq(batch[t], 1, n))
    <3>1. SeqOps(walBuf)' = SeqOps(walBuf \o SubSeq(batch[t], 1, n))
      BY <2>1, Zenon DEF SeqOps
    <3> QED BY <1>0, <2>2, <3>1, SeqOpsConcat, Zenon
  <2>4. SeqOps(logs[wal])' = SeqOps(logs[wal])
    BY <1>1, Zenon DEF SeqOps
  <2> QED BY <2>3, <2>4, Zenon DEF LogGrows
<1> QED BY <1>2, <1>3, Zenon

LEMMA ReturnPending ==
    ASSUME TypeInv, NEW t \in Thread, NEW ids, Return(t, ids)
    PROVE  \A u \in Thread : pc'[u] \in {"sync", "apply"} => pc'[u] = pc[u] /\ batch'[u] = batch[u]
BY Zenon DEF Return, Goto, TypeInv, LocalsOK

(* The steps that leave the pending writes alone.                          *)
LEMMA OtherPending ==
    ASSUME TypeInv, NEW t \in Thread,
           \/ CheckSize(t) \/ Flush(t) \/ Close(t) \/ Drop(t)
           \/ FlushCreate(t) \/ FlushBuild(t) \/ FlushInstall(t)
           \/ Compact(t) \/ CompactPick(t) \/ CompactCreate(t) \/ CompactMerge(t)
           \/ CompactInstall(t) \/ CompactDelete(t) \/ Fail(t)
    PROVE  \A u \in Thread : pc'[u] \in {"sync", "apply"} => pc'[u] = pc[u] /\ batch'[u] = batch[u]
<1> USE DEF Goto, TypeInv, LocalsOK, locals
<1>1. CASE \E ids : Return(t, ids)
  BY <1>1, ReturnPending, Zenon
<1>2. CASE EndCompact(t)
  BY <1>1, <1>2, Zenon DEF EndCompact
<1>3. CASE CheckSize(t) /\ ~\E ids : Return(t, ids)
  BY <1>3, Zenon DEF CheckSize
<1>4. CASE Flush(t) \/ Close(t) \/ Drop(t) \/ Compact(t)
  BY <1>4, Zenon DEF Flush, Close, Drop, BeginFlush, Compact
<1>5. CASE FlushCreate(t) \/ FlushBuild(t) \/ FlushInstall(t) \/ CompactCreate(t) \/ CompactInstall(t)
  BY <1>5, Zenon DEF FlushCreate, FlushBuild, FlushInstall, CompactCreate, CompactInstall
<1>6. CASE (CompactPick(t) \/ CompactMerge(t) \/ CompactDelete(t)) /\ ~EndCompact(t)
  BY <1>6, Zenon DEF CompactPick, CompactMerge, MergeTo, CompactDelete
<1>7. CASE Fail(t) /\ ~\E ids : Return(t, ids)
  BY <1>7, Zenon DEF Fail
<1> QED BY <1>1, <1>2, <1>3, <1>4, <1>5, <1>6, <1>7, Zenon

LEMMA OtherWrites ==
    ASSUME TypeInv, LogCurrent, WritesLogged, mode = "up", NEW t \in Thread,
           \/ CheckSize(t) \/ Flush(t) \/ Close(t) \/ Drop(t)
           \/ FlushCreate(t) \/ FlushBuild(t) \/ FlushInstall(t)
           \/ Compact(t) \/ CompactPick(t) \/ CompactCreate(t) \/ CompactMerge(t)
           \/ CompactInstall(t) \/ CompactDelete(t) \/ Fail(t)
    PROVE  WritesLogged'
<1>1. MemoryVersions' \subseteq MemoryVersions
  BY CalmSteps, CalmVersions, Zenon
<1>2. LogGrows
  <2>1. CASE Fail(t)
    BY <2>1, FailGrows, Zenon
  <2>2. CASE ~Fail(t)
    <3>1. UNCHANGED <<wal, logs, walBuf>>
      BY <2>2, Zenon DEF CheckSize, Flush, Close, Drop, BeginFlush, FlushCreate, FlushBuild, FlushInstall,
         Compact, CompactPick, CompactCreate, CompactMerge, CompactInstall, CompactDelete, memory, disk
    <3> QED BY <3>1, SameLog, Zenon
  <2> QED BY <2>1, <2>2, Zenon
<1> QED BY <1>1, <1>2, OtherPending, WritesBy, Zenon

LEMMA CloseWrites ==
    ASSUME TypeInv, LogCurrent, WritesLogged, mode = "up", NEW t \in Thread, CloseSync(t)
    PROVE  WritesLogged'
<1>1. CASE Vanish
  BY <1>1, Zenon DEF Vanish, WritesLogged
<1>2. CASE ~Vanish
  <2>1. Return(t, {}) /\ FlushBuffer /\ UNCHANGED <<sequence, memtable, immutable, wal>>
    BY <1>2, Zenon DEF CloseSync
  <2>2. LogGrows
    BY <2>1, FlushBufferGrows, Zenon
  <2>3. MemoryVersions' \subseteq MemoryVersions
    BY <2>1, ReturnCalm, CalmVersions, Zenon
  <2> QED BY <2>1, <2>2, <2>3, ReturnPending, WritesBy, Zenon
<1> QED BY <1>1, <1>2, Zenon

LEMMA ThreadWrites ==
    ASSUME UseWal, TypeInv, CallsMatch, Exclusive, FlushEmpties, LogCurrent, WritesLogged,
           mode = "up", NEW t \in Thread, ThreadNext(t)
    PROVE  WritesLogged'
<1>1. CASE Freeze(t) \/ FlushTake(t)
  <2>1. LogGrows
    <3>1. UNCHANGED <<wal, logs, walBuf>>
      BY <1>1, Zenon DEF Freeze, FlushTake, disk
    <3> QED BY <3>1, SameLog, Zenon
  <2>2. /\ MemoryVersions' \subseteq MemoryVersions
        /\ \A u \in Thread : pc'[u] \in {"sync", "apply"} => pc'[u] = pc[u] /\ batch'[u] = batch[u]
    BY <1>1, RenameKeeps, Zenon DEF PendingSteps
  <2> QED BY <2>1, <2>2, WritesBy, Zenon
<1>2. CASE ~(Freeze(t) \/ FlushTake(t))
  BY <1>2, BeginWrites, AppendWrites, SyncWrites, ApplyWrites, RotateWrites, OtherWrites, CloseWrites, Zenon
  DEF ThreadNext
<1> QED BY <1>1, <1>2, Zenon

(* open replays the log that it goes on to use.                            *)
LEMMA OpenLog ==
    ASSUME SeqInv, CallsMatch, Exclusive, Open
    PROVE  CallsMatch' /\ Exclusive' /\ FlushEmpties' /\ LogCurrent' /\ WritesLogged'
<1>1. PICK n \in LatestLogs : /\ wal' = n /\ walNumber' = n
                              /\ logs' = With(logs, n, Entries(n))
                              /\ memtable' = Replay(Entries(n))
  BY Zenon DEF Open
<1>2. /\ immutable' = <<>> /\ pc' = pc /\ call' = call
      /\ \A t \in Thread : pc'[t] = "idle" /\ held'[t] = {}
  BY Zenon DEF Open, SeqInv, DownEmpty, locals
<1>3. CallsMatch' /\ Exclusive'
  BY <1>2, Zenon DEF CallsMatch, Exclusive
<1>4. FlushEmpties'
  BY <1>2, Zenon DEF FlushEmpties, Holding, RotateSteps
<1>5. DOMAIN logs' = DOMAIN logs \cup {n} /\ logs'[n] = Entries(n)
  BY <1>1, Zenon DEF With
<1>6. n \in Nat /\ Entries(n) \in Seq(Op)
  <2>1. DiskOK
    BY Zenon DEF SeqInv, TypeInv
  <2>2. n \in Nat
    BY <1>1, <2>1 DEF DiskOK, LatestLogs
  <2> QED BY <2>1, <2>2, EntriesType, Zenon
<1>7. LogCurrent'
  <2>1. \A m \in DOMAIN logs : m <= n
    BY <1>1, Zenon DEF LatestLogs
  <2>2. \A m \in DOMAIN logs' : m <= n
    BY <1>5, <1>6, <2>1
  <2> QED BY <1>1, <1>2, <1>5, <2>2, Zenon DEF LogCurrent
<1>8. \A v \in MemoryVersions' : v \in Replay(Entries(n))
  <2>1. memtable' = Replay(Entries(n)) /\ immutable' = <<>> /\ \A t \in Thread : held'[t] = {}
    BY <1>1, <1>2, Zenon
  <2>2. DOMAIN immutable' = {}
    BY <2>1
  <2> QED BY <2>1, <2>2, InMemoryVersionsNext, Zenon
<1>9. \A v \in Replay(Entries(n)) : v.op \in SeqOps(Entries(n))
  BY SMTT(20) DEF Replay, SeqOps
<1>10. SeqOps(Entries(n)) \subseteq Secured'
  BY <1>1, <1>5, Zenon DEF Secured, SeqOps
<1>11. WritesLogged'
  BY <1>2, <1>8, <1>9, <1>10, Zenon DEF WritesLogged
<1> QED BY <1>3, <1>4, <1>7, <1>11, Zenon

LEMMA VanishLog ==
    ASSUME Vanish PROVE FlushEmpties' /\ LogCurrent' /\ WritesLogged'
BY Zenon DEF Vanish, FlushEmpties, Holding, RotateSteps, LogCurrent, WritesLogged

LEMMA SpillLog ==
    ASSUME TypeInv, CallsMatch, Exclusive, FlushEmpties, LogCurrent, WritesLogged, Spill
    PROVE  CallsMatch' /\ Exclusive' /\ FlushEmpties' /\ LogCurrent' /\ WritesLogged'
<1>1. /\ UNCHANGED <<mode, memtable, immutable, wal, walNumber, pc, call, batch, held, num>>
      /\ DOMAIN logs' = DOMAIN logs /\ mode = "up"
  BY Zenon DEF Spill, locals
<1>2. CallsMatch' /\ Exclusive' /\ FlushEmpties' /\ LogCurrent'
  BY <1>1, Zenon DEF CallsMatch, Exclusive, FlushEmpties, LogCurrent
<1>3. LogGrows
  BY <1>1, SpillGrows, Zenon
<1>4. MemoryVersions' = MemoryVersions
  BY <1>1, Zenon DEF MemoryVersions
<1> QED BY <1>1, <1>2, <1>3, <1>4, WritesBy, Zenon

LEMMA LogStep ==
    ASSUME UseWal, ExclusiveFlush, LogInv, [Next]_vars PROVE LogInv'
<1>0. SeqInv' /\ SeqInv /\ TypeInv
  BY SeqStep, Zenon DEF LogInv, SeqInv
<1>1. ASSUME NEW t \in Thread, ThreadNext(t) PROVE LogInv'
  <2>1. mode = "up"
    BY <1>0, <1>1, ThreadUp, Zenon DEF SeqInv
  <2> QED BY <1>0, <1>1, <2>1, ThreadCalls, ThreadEmpties, ThreadCurrent, ThreadWrites, Zenon DEF LogInv
<1>2. CASE Open
  BY <1>0, <1>2, OpenLog, Zenon DEF LogInv
<1>3. CASE Crash
  BY <1>0, <1>3, VanishCalls, VanishLog, Zenon DEF Crash, LogInv
<1>4. CASE Spill
  BY <1>0, <1>4, SpillLog, Zenon DEF LogInv
<1>5. CASE UNCHANGED vars
  <2>1. CallsMatch' /\ Exclusive' /\ FlushEmpties' /\ LogCurrent'
    BY <1>5, Zenon DEF vars, memory, disk, locals, LogInv, CallsMatch, Exclusive, FlushEmpties, LogCurrent
  <2>2. WritesLogged'
    <3>1. UNCHANGED <<mode, memtable, immutable, held, wal, logs, walBuf, pc, batch>>
      BY <1>5, Zenon DEF vars, memory, disk, locals
    <3>2. UNCHANGED <<MemoryVersions, Secured, Buffered>>
      BY <3>1, Zenon DEF MemoryVersions, Secured, Buffered, SeqOps
    <3> QED BY <3>1, <3>2, Zenon DEF LogInv, WritesLogged, SeqOps
  <2> QED BY <1>0, <2>1, <2>2, Zenon DEF LogInv
<1> QED BY <1>1, <1>2, <1>3, <1>4, <1>5, Zenon DEF Next, Rest

(* The invariant gives the property: the log in use is the one open would  *)
(* choose, or there is nothing in memory.                                  *)
LEMMA LogInvLogged == ASSUME LogInv PROVE MemoryLogged
<1>0. SeqInv /\ CallsMatch /\ Exclusive /\ FlushEmpties /\ LogCurrent /\ WritesLogged
  BY Zenon DEF LogInv
<1>1. CASE MemoryVersions = {}
  BY <1>1, Zenon DEF MemoryLogged
<1>2. CASE MemoryVersions # {}
  <2>1. mode = "up"
    <3>1. mode = "down" => MemoryVersions = {}
      BY <1>0, InMemoryVersions DEF SeqInv, DownEmpty
    <3> QED BY <1>0, <1>2, <3>1, Zenon DEF SeqInv, TypeInv, MemoryOK
  <2>2. \A t \in Thread : pc[t] # "swap"
    BY <1>0, <1>2, RotatingEmpty, Zenon DEF RotateSteps
  <2>3. wal \in LatestLogs /\ Entries(wal) = logs[wal]
    BY <1>0, <2>1, <2>2, Zenon DEF LogCurrent, LatestLogs, Entries
  <2>4. SeqOps(logs[wal]) \subseteq LogOps
    BY <2>3, Zenon DEF LogOps
  <2>5. \A v \in MemoryVersions : v.op \in Secured
    BY <1>0, <2>1, Zenon DEF WritesLogged
  <2> QED BY <2>4, <2>5, Zenon DEF MemoryLogged, Secured
<1> QED BY <1>1, <1>2, Zenon

(* A thread that inserts keeps every flush, and so every rotation, out.    *)
LEMMA LogInvBatch == ASSUME LogInv, ExclusiveFlush PROVE BatchLoggedFirst
<1>0. SeqInv /\ CallsMatch /\ Exclusive /\ LogCurrent /\ WritesLogged
  BY Zenon DEF LogInv
<1> SUFFICES ASSUME NEW t \in Thread, pc[t] = "apply"
             PROVE  SeqOps(batch[t]) \subseteq LogOps \cup (IF SyncWal THEN {} ELSE SeqOps(walBuf))
  BY Zenon DEF BatchLoggedFirst
<1>1. mode = "up"
  BY <1>0, Zenon DEF SeqInv, DownEmpty, TypeInv, MemoryOK
<1>2. \A u \in Thread : pc[u] # "swap"
  BY <1>0, Zenon DEF CallsMatch, Exclusive, RotateSteps
<1>3. wal \in LatestLogs /\ Entries(wal) = logs[wal]
  BY <1>0, <1>1, <1>2, Zenon DEF LogCurrent, LatestLogs, Entries
<1>4. SeqOps(logs[wal]) \subseteq LogOps
  BY <1>3, Zenon DEF LogOps
<1>5. SeqOps(batch[t]) \subseteq Secured
  BY <1>0, <1>1, Zenon DEF WritesLogged
<1> QED BY <1>4, <1>5, Zenon DEF Secured

(* "Write to WAL first" (lib.rs:373): as long as flush has the database to *)
(* itself, everything in memory is in the log that the next open replays   *)
(* (or in its writer's buffer, without sync_wal), for every number of      *)
(* writers, every batch size, and across crashes, I/O errors and sessions. *)
THEOREM MemoryIsLogged == Spec => []MemoryLogged
<1>1. CASE UseWal /\ ExclusiveFlush
  <2>1. LogInv /\ [Next]_vars => LogInv'
    BY <1>1, LogStep, Zenon
  <2>2. LogInv => MemoryLogged
    BY LogInvLogged, Zenon
  <2> QED BY <2>1, <2>2, LogInit, PTL DEF Spec
<1>2. CASE ~(UseWal /\ ExclusiveFlush)
  <2>1. MemoryLogged
    BY <1>2, Zenon DEF MemoryLogged
  <2> QED BY <2>1, PTL
<1> QED BY <1>1, <1>2, Zenon

(* A batch is logged as a whole before it is inserted in part (lib.rs:684, *)
(* 708), for every batch size and number of writers, and across crashes,   *)
(* I/O errors and sessions, as long as flush has the database to itself.   *)
THEOREM BatchesLogged == Spec => []BatchLoggedFirst
<1>1. CASE UseWal /\ ExclusiveFlush
  <2>1. LogInv /\ [Next]_vars => LogInv'
    BY <1>1, LogStep, Zenon
  <2>2. LogInv => BatchLoggedFirst
    BY <1>1, LogInvBatch, Zenon
  <2> QED BY <2>1, <2>2, LogInit, PTL DEF Spec
<1>2. CASE ~(UseWal /\ ExclusiveFlush)
  <2>1. BatchLoggedFirst
    BY <1>2, Zenon DEF BatchLoggedFirst
  <2> QED BY <2>1, PTL
<1> QED BY <1>1, <1>2, Zenon

(***************************************************************************)
(* The files.                                                              *)
(***************************************************************************)
Building == {"build", "install", "cmerge", "cinstall"}
Merging == {"ccreate", "cmerge", "cinstall"}

(* File numbers are handed out once: every number in use is below the      *)
(* counter, and no two builders share one.                                 *)
NumbersFresh ==
    /\ \A n \in DOMAIN files : n < nextFile
    /\ \A t \in Thread : pc[t] \in Building => num[t] < nextFile
    /\ \A t, u \in Thread :
          pc[t] \in Building /\ pc[u] \in Building /\ t # u => num[t] # num[u]

(* The file of a builder is unfinished until it is about to be opened.     *)
OutputsKnown ==
    \A t \in Thread : pc[t] \in Building /\ num[t] \in DOMAIN files =>
        /\ files[num[t]].gen = opens
        /\ files[num[t]].done <=> pc[t] \in {"install", "cinstall"}

(* An open table is not under construction, and its file number is its own.*)
TablesDistinct ==
    \A l \in Level : \A h \in levels[l] :
        /\ h.file < nextFile
        /\ \A t \in Thread : pc[t] \in Building => num[t] # h.file
        /\ \A m \in Level : \A g \in levels[m] : g.file = h.file => g = h /\ m = l

(* The inputs of a compaction are not under construction; until it installs*)
(* its output they are in its level or nowhere, and afterwards nowhere.    *)
InputsTracked ==
    \A u \in Thread : pc[u] \in Merging \cup {"cdelete"} =>
        \A h \in task[u].inputs :
            /\ h.file < nextFile
            /\ \A t \in Thread : pc[t] \in Building => num[t] # h.file
            /\ \A m \in Level : \A g \in levels[m] :
                  g.file = h.file => pc[u] \in Merging /\ g = h /\ m = task[u].level

OnDisk ==
    \A l \in Level : \A h \in levels[l] :
        /\ h.file \in DOMAIN files
        /\ files[h.file] = [gen |-> h.gen, done |-> TRUE, data |-> h.data]

(* While the first session runs.                                           *)
Session == NumbersFresh /\ OutputsKnown /\ TablesDistinct /\ InputsTracked /\ OnDisk

FileInv ==
    /\ TypeInv /\ DownEmpty
    /\ mode = "down" => \A l \in Level : levels[l] = {}
    /\ opens = 0 => mode = "down" /\ DOMAIN files = {}
    /\ mode = "up" /\ opens <= 1 => Session

(* The steps that build nothing: the table list stays, at most one file    *)
(* that no open table uses is removed, and every thread in a flush or a    *)
(* compaction stays where it is or leaves it.                              *)
Busy == Building \cup Merging \cup {"cdelete"}

Aside ==
    /\ UNCHANGED <<levels, opens>>
    /\ nextFile' >= nextFile
    /\ \/ files' = files
       \/ \E n : /\ files' = Without(files, n)
                 /\ \A l \in Level : \A h \in levels[l] : h.file # n
    /\ \A u \in Thread : pc'[u] \in Busy =>
          /\ pc'[u] = pc[u] /\ num'[u] = num[u]
          /\ task'[u].level = task[u].level /\ task'[u].inputs \subseteq task[u].inputs

(* Types that the arguments below use.                                     *)
LEMMA FileTypes ==
    ASSUME TypeInv
    PROVE  /\ nextFile \in Nat /\ rank \in Nat /\ opens \in Nat
           /\ \A n \in DOMAIN files : n \in Nat /\ files[n] \in File
           /\ \A l \in Level : \A h \in levels[l] : h \in Handle /\ h.file \in Nat
           /\ \A t \in Thread : /\ num[t] \in Nat
                                /\ task[t].level \in Level /\ task[t].level + 1 \in Level
                                /\ \A h \in task[t].inputs : h \in Handle /\ h.file \in Nat
<1>1. nextFile \in Nat /\ rank \in Nat /\ opens \in Nat
  BY Zenon DEF TypeInv, MemoryOK, GhostsOK
<1>2. \A n \in DOMAIN files : n \in Nat /\ files[n] \in File
  BY Zenon DEF TypeInv, DiskOK
<1>3. \A l \in Level : \A h \in levels[l] : h \in Handle /\ h.file \in Nat
  BY DEF TypeInv, MemoryOK, Handle
<1>4. \A t \in Thread : /\ num[t] \in Nat /\ task[t].level \in 0 .. MaxLevels - 2
                        /\ \A h \in task[t].inputs : h \in Handle /\ h.file \in Nat
  BY DEF TypeInv, LocalsOK, Task, Handle
<1> QED BY <1>1, <1>2, <1>3, <1>4, LevelFacts, Zenon

LEMMA FreshNumber ==
    ASSUME TypeInv, Session PROVE nextFile \in Nat /\ nextFile \notin DOMAIN files
<1>1. nextFile \in Nat
  BY Zenon DEF TypeInv, MemoryOK
<1>2. \A n \in DOMAIN files : n < nextFile
  BY Zenon DEF Session, NumbersFresh
<1> QED BY <1>1, <1>2

LEMMA AsideKeeps == ASSUME TypeInv, TypeInv', Session, Aside PROVE Session'
<1>0. nextFile \in Nat /\ nextFile' \in Nat
  BY Zenon DEF TypeInv, MemoryOK
<1>1. /\ DOMAIN files' \subseteq DOMAIN files
      /\ \A n \in DOMAIN files' : files'[n] = files[n]
      /\ \A l \in Level : \A h \in levels[l] : h.file \in DOMAIN files => h.file \in DOMAIN files'
  BY Zenon DEF Aside, Without
<1>2. NumbersFresh'
  BY <1>0, <1>1, FileTypes DEF Aside, Busy, Session, NumbersFresh
<1>3. OutputsKnown'
  BY <1>1 DEF Aside, Busy, Session, OutputsKnown
<1>4. TablesDistinct'
  BY <1>0, FileTypes DEF Aside, Busy, Session, TablesDistinct
<1>5. InputsTracked'
  <2> SUFFICES ASSUME NEW u \in Thread, pc'[u] \in Merging \cup {"cdelete"},
                      NEW h \in task'[u].inputs
               PROVE  /\ h.file < nextFile'
                      /\ \A t \in Thread : pc'[t] \in Building => num'[t] # h.file
                      /\ \A m \in Level : \A g \in levels'[m] :
                            g.file = h.file => pc'[u] \in Merging /\ g = h /\ m = task'[u].level
    BY Zenon DEF InputsTracked
  <2>1. pc'[u] = pc[u] /\ task'[u].level = task[u].level /\ h \in task[u].inputs
    BY Zenon DEF Aside, Busy
  <2> QED BY <1>0, <2>1, FileTypes DEF Aside, Busy, Session, InputsTracked
<1>6. OnDisk'
  BY <1>1, Zenon DEF Aside, Session, OnDisk
<1> QED BY <1>2, <1>3, <1>4, <1>5, <1>6, Zenon DEF Session

(* The end of a call, and of a compaction, leaves Busy.                    *)
LEMMA ReturnLeaves ==
    ASSUME TypeInv, NEW t \in Thread, (\E ids : Return(t, ids)) \/ EndCompact(t)
    PROVE  \A u \in Thread : pc'[u] \in Busy =>
              pc'[u] = pc[u] /\ num'[u] = num[u] /\ task'[u] = task[u]
<1> USE DEF Goto, Busy, Building, Merging, TypeInv, LocalsOK
<1>1. CASE \E ids : Return(t, ids)
  BY <1>1 DEF Return
<1>2. CASE ~\E ids : Return(t, ids)
  BY <1>2 DEF EndCompact
<1> QED BY <1>1, <1>2, Zenon

(* A step that leaves the files alone and lets threads leave Busy.         *)
Leaving ==
    \A u \in Thread : pc'[u] \in Busy => pc'[u] = pc[u] /\ num'[u] = num[u] /\ task'[u] = task[u]

LEMMA AsideBy ==
    ASSUME TypeInv, UNCHANGED <<levels, opens, files>>, nextFile' \in {nextFile, nextFile + 1},
           Leaving
    PROVE  Aside
<1>1. nextFile' >= nextFile
  BY DEF TypeInv, MemoryOK
<1>2. \A u \in Thread : pc'[u] \in Busy =>
          /\ pc'[u] = pc[u] /\ num'[u] = num[u]
          /\ task'[u].level = task[u].level /\ task'[u].inputs \subseteq task[u].inputs
  BY Zenon DEF Leaving
<1> QED BY <1>1, <1>2, Zenon DEF Aside

LEMMA ReturnLeaving ==
    ASSUME TypeInv, NEW t \in Thread, NEW ids, Return(t, ids) PROVE Leaving
BY ReturnLeaves, Zenon DEF Leaving

(* A thread that goes to a step outside Busy and keeps the others.         *)
LEMMA GotoLeaving ==
    ASSUME TypeInv, NEW t \in Thread, NEW s, s \notin Busy, Goto(t, s), UNCHANGED task,
           \A u \in Thread \ {t} : num'[u] = num[u]
    PROVE  Leaving
<1>1. pc'[t] = s /\ \A u \in Thread \ {t} : pc'[u] = pc[u]
  BY Zenon DEF Goto, TypeInv, LocalsOK
<1> QED BY <1>1, Zenon DEF Leaving

LEMMA AsideSteps ==
    ASSUME TypeInv, NEW t \in Thread,
           \/ Put(t) \/ Delete(t) \/ Write(t) \/ AppendLog(t) \/ SyncLog(t) \/ Apply(t)
           \/ CheckSize(t) \/ Freeze(t) \/ Flush(t) \/ Close(t) \/ Drop(t) \/ FlushTake(t)
           \/ RotateOpen(t) \/ RotateSwap(t) \/ RotateRemove(t) \/ Compact(t) \/ Fail(t)
    PROVE  Aside
<1> DEFINE Same == UNCHANGED <<levels, opens, files>> /\ nextFile' \in {nextFile, nextFile + 1}
           Stays == UNCHANGED task /\ \A u \in Thread \ {t} : num'[u] = num[u]
<1> USE DEF memory, disk, locals, ghosts
<1>0. /\ num \in [Thread -> Nat]
      /\ \A s \in {"log", "sync", "apply", "check", "freeze", "take", "create", "closing"}
                    \cup RotateSteps \cup {"pick"} : s \notin Busy
  BY Zenon DEF Busy, Building, Merging, RotateSteps, TypeInv, LocalsOK
<1>1. CASE Put(t) \/ Delete(t) \/ Write(t)
  <2>1. PICK c, items : BeginWrite(t, c, items)
    BY <1>1, Zenon DEF Put, Delete, Write
  <2>2. Same /\ Stays /\ Goto(t, IF UseWal THEN "log" ELSE "apply")
    BY <2>1, Zenon DEF BeginWrite
  <2> QED BY <1>0, <2>2, GotoLeaving, AsideBy, Zenon
<1>2. CASE AppendLog(t) \/ SyncLog(t)
  <2>1. Same /\ Stays
    BY <1>2, Zenon DEF AppendLog, SyncLog
  <2>2. Goto(t, "sync") \/ Goto(t, "apply")
    BY <1>2, Zenon DEF AppendLog, SyncLog
  <2> QED BY <1>0, <2>1, <2>2, GotoLeaving, AsideBy, Zenon
<1>3. CASE Apply(t) \/ CheckSize(t) \/ Freeze(t)
  <2>1. Same
    BY <1>3, Zenon DEF Apply, CheckSize, Freeze
  <2>2. CASE Return(t, Ids(batch[t]))
    BY <2>1, <2>2, ReturnLeaving, AsideBy, Zenon
  <2>3. CASE ~Return(t, Ids(batch[t]))
    <3>1. Stays
      BY <1>3, <2>3, Zenon DEF Apply, CheckSize, Freeze
    <3>2. Goto(t, "apply") \/ Goto(t, "check") \/ Goto(t, "freeze") \/ Goto(t, "take")
      BY <1>3, <2>3, Zenon DEF Apply, CheckSize, Freeze
    <3> QED BY <1>0, <2>1, <3>1, <3>2, GotoLeaving, AsideBy, Zenon
  <2> QED BY <2>2, <2>3, Zenon
<1>4. CASE Flush(t) \/ Close(t) \/ Drop(t) \/ Compact(t)
  <2>1. Same /\ Stays
    BY <1>4, Zenon DEF Flush, Close, Drop, BeginFlush, Compact
  <2>2. Goto(t, "take") \/ Goto(t, "freeze") \/ Goto(t, "pick")
    BY <1>4, Zenon DEF Flush, Close, Drop, BeginFlush, Compact
  <2> QED BY <1>0, <2>1, <2>2, GotoLeaving, AsideBy, Zenon
<1>5. CASE FlushTake(t)
  <2>1. Same /\ Stays
    BY <1>5, Zenon DEF FlushTake
  <2>2. Goto(t, "rotate") \/ Goto(t, "create")
    BY <1>5, Zenon DEF FlushTake
  <2> QED BY <1>0, <2>1, <2>2, GotoLeaving, AsideBy, Zenon DEF RotateSteps
<1>6. CASE RotateOpen(t) \/ RotateSwap(t) \/ RotateRemove(t)
  <2>1. Same
    BY <1>6, Zenon DEF RotateOpen, RotateSwap, RotateRemove
  <2>2. Stays
    BY <1>0, <1>6, Zenon DEF RotateOpen, RotateSwap, RotateRemove
  <2>3. Goto(t, "swap") \/ Goto(t, "unlink") \/ Goto(t, "pick")
    BY <1>6, Zenon DEF RotateOpen, RotateSwap, RotateRemove
  <2> QED BY <1>0, <2>1, <2>2, <2>3, GotoLeaving, AsideBy, Zenon DEF RotateSteps
<1>7. CASE Fail(t)
  <2>1. Same
    BY <1>7, Zenon DEF Fail
  <2>2. CASE Return(t, {})
    BY <2>1, <2>2, ReturnLeaving, AsideBy, Zenon
  <2>3. CASE ~Return(t, {})
    <3>1. Goto(t, "closing") /\ num' = num /\ task' = [task EXCEPT ![t] = NoTask]
      BY <1>7, <2>3, Zenon DEF Fail
    <3>2. Leaving
      BY <1>0, <3>1, Zenon DEF Leaving, Goto, TypeInv, LocalsOK
    <3> QED BY <2>1, <3>2, AsideBy, Zenon
  <2> QED BY <2>2, <2>3, Zenon
<1> QED BY <1>1, <1>2, <1>3, <1>4, <1>5, <1>6, <1>7, Zenon

(* A new file has a number that nothing else has.                          *)
LEMMA CreateKeeps ==
    ASSUME TypeInv, Session, NEW t \in Thread, FlushCreate(t) \/ CompactCreate(t)
    PROVE  Session'
<1>0. /\ num' = [num EXCEPT ![t] = nextFile] /\ nextFile' = nextFile + 1
      /\ files' = With(files, nextFile, [gen |-> opens, done |-> FALSE, data |-> {}])
      /\ UNCHANGED <<levels, opens, task>>
  BY Zenon DEF FlushCreate, CompactCreate, CreateFile, ghosts
<1>1. /\ pc'[t] \in {"build", "cmerge"} /\ num'[t] = nextFile
      /\ pc'[t] \in Merging => pc[t] \in Merging
      /\ pc'[t] # "cdelete"
      /\ \A u \in Thread \ {t} : pc'[u] = pc[u] /\ num'[u] = num[u]
  BY <1>0, Zenon DEF FlushCreate, CompactCreate, Goto, Merging, TypeInv, LocalsOK
<1>2. /\ nextFile \in Nat /\ nextFile \notin DOMAIN files
      /\ DOMAIN files' = DOMAIN files \cup {nextFile}
      /\ \A n \in DOMAIN files : files'[n] = files[n]
      /\ files'[nextFile] = [gen |-> opens, done |-> FALSE, data |-> {}]
  <2>1. nextFile \in Nat /\ nextFile \notin DOMAIN files
    BY FreshNumber, Zenon
  <2> QED BY <1>0, <2>1, Zenon DEF With
<1>a. /\ \A n \in DOMAIN files : n \in Nat /\ n < nextFile
      /\ \A u \in Thread : num[u] \in Nat
      /\ \A u \in Thread : pc[u] \in Building => num[u] < nextFile
      /\ \A u, w \in Thread : pc[u] \in Building /\ pc[w] \in Building /\ u # w => num[u] # num[w]
  BY FileTypes, Zenon DEF Session, NumbersFresh
<1>3. NumbersFresh'
  <2>1. \A n \in DOMAIN files' : n < nextFile'
    BY <1>0, <1>2, <1>a, SMTT(30)
  <2>2. \A u \in Thread : pc'[u] \in Building => num'[u] < nextFile'
    BY <1>0, <1>1, <1>2, <1>a, SMTT(40)
  <2>3. ASSUME NEW u \in Thread, NEW w \in Thread, u # w, pc'[u] \in Building, pc'[w] \in Building
        PROVE  num'[u] # num'[w]
    <3>1. CASE u # t /\ w # t
      BY <1>1, <1>a, <2>3, <3>1, Zenon
    <3>2. CASE u = t \/ w = t
      BY <1>1, <1>2, <1>a, <2>3, <3>2, SMTT(30)
    <3> QED BY <3>1, <3>2, Zenon
  <2> QED BY <2>1, <2>2, <2>3, Zenon DEF NumbersFresh
<1>4. OutputsKnown'
  <2> SUFFICES ASSUME NEW u \in Thread, pc'[u] \in Building, num'[u] \in DOMAIN files'
               PROVE  /\ files'[num'[u]].gen = opens'
                      /\ files'[num'[u]].done <=> pc'[u] \in {"install", "cinstall"}
    BY Zenon DEF OutputsKnown
  <2>1. CASE u = t
    <3>1. files'[num'[u]] = [gen |-> opens, done |-> FALSE, data |-> {}] /\ opens' = opens
      BY <1>0, <1>1, <1>2, <2>1, Zenon
    <3>2. files'[num'[u]].gen = opens' /\ ~files'[num'[u]].done
      BY <3>1
    <3>3. pc'[u] \notin {"install", "cinstall"}
      BY <1>1, <2>1, Zenon
    <3> QED BY <3>2, <3>3, Zenon
  <2>2. CASE u # t
    <3>a. pc[u] \in Building /\ num'[u] = num[u]
      BY <1>1, <2>2, Zenon
    <3>b. num[u] < nextFile /\ num[u] \in Nat
      BY <1>a, <3>a, Zenon
    <3>c. num[u] # nextFile
      BY <1>2, <3>b
    <3>1. num[u] < nextFile /\ num[u] \in DOMAIN files
      BY <1>2, <3>a, <3>b, <3>c, Zenon
    <3>2. /\ pc[u] \in Building /\ pc'[u] = pc[u] /\ opens' = opens
          /\ files'[num'[u]] = files[num[u]]
      BY <1>0, <1>1, <1>2, <2>2, <3>1, Zenon
    <3>3. /\ files[num[u]].gen = opens
          /\ files[num[u]].done <=> pc[u] \in {"install", "cinstall"}
      BY <3>1, <3>2, Zenon DEF Session, OutputsKnown
    <3> QED BY <3>2, <3>3, Zenon
  <2> QED BY <2>1, <2>2, Zenon
<1>5. TablesDistinct'
  BY <1>0, <1>1, <1>2, FileTypes, SMTT(40) DEF Session, TablesDistinct, Building
<1>6. InputsTracked'
  BY <1>0, <1>1, <1>2, FileTypes, SMTT(40) DEF Session, InputsTracked, Building
<1>7. OnDisk'
  BY <1>0, <1>2, Zenon DEF Session, OnDisk
<1> QED BY <1>3, <1>4, <1>5, <1>6, <1>7, Zenon DEF Session

(* A builder finishes its own file, which is not a finished one.           *)
LEMMA FinishKeeps ==
    ASSUME TypeInv, Session, NEW t \in Thread, NEW contents,
           FinishFile(num[t], contents), pc[t] \in {"build", "cmerge"},
           pc' = [pc EXCEPT ![t] = IF pc[t] = "build" THEN "install" ELSE "cinstall"],
           UNCHANGED <<levels, opens, nextFile, num, task>>
    PROVE  Session'
<1>1. /\ pc'[t] \in {"install", "cinstall"}
      /\ pc'[t] \in Merging => pc[t] \in Merging
      /\ \A u \in Thread \ {t} : pc'[u] = pc[u]
  BY Zenon DEF TypeInv, LocalsOK, Merging
<1>2. /\ DOMAIN files' = DOMAIN files
      /\ \A n \in DOMAIN files : n # num[t] => files'[n] = files[n]
      /\ num[t] \in DOMAIN files =>
            files'[num[t]] = [gen |-> files[num[t]].gen, done |-> TRUE, data |-> contents]
  BY Zenon DEF FinishFile
<1>3. \A u \in Thread : pc'[u] \in Building <=> pc[u] \in Building
  BY <1>1, Zenon DEF Building
<1>4. NumbersFresh'
  BY <1>2, <1>3, Zenon DEF Session, NumbersFresh
<1>5. OutputsKnown'
  <2> SUFFICES ASSUME NEW u \in Thread, pc'[u] \in Building, num[u] \in DOMAIN files
               PROVE  /\ files'[num[u]].gen = opens
                      /\ files'[num[u]].done <=> pc'[u] \in {"install", "cinstall"}
    BY <1>2, Zenon DEF OutputsKnown
  <2>1. CASE u = t
    <3>1. files[num[t]].gen = opens
      BY <1>3, <2>1, Zenon DEF Session, OutputsKnown
    <3> QED BY <1>1, <1>2, <2>1, <3>1, SMTT(40)
  <2>2. CASE u # t
    <3>1. num[u] # num[t]
      BY <1>3, <2>2, Zenon DEF Session, NumbersFresh, Building
    <3>2. pc[u] \in Building /\ pc'[u] = pc[u] /\ files'[num[u]] = files[num[u]]
      BY <1>1, <1>2, <2>2, <3>1, Zenon
    <3>3. /\ files[num[u]].gen = opens
          /\ files[num[u]].done <=> pc[u] \in {"install", "cinstall"}
      BY <3>2, Zenon DEF Session, OutputsKnown
    <3> QED BY <3>2, <3>3, Zenon
  <2> QED BY <2>1, <2>2, Zenon
<1>6. TablesDistinct'
  BY <1>3 DEF Session, TablesDistinct
<1>7. InputsTracked'
  BY <1>1, <1>3 DEF Session, InputsTracked
<1>8. OnDisk'
  <2>1. \A l \in Level : \A h \in levels[l] : h.file # num[t]
    BY Zenon DEF Session, TablesDistinct, Building
  <2> QED BY <1>2, <2>1, Zenon DEF Session, OnDisk
<1> QED BY <1>4, <1>5, <1>6, <1>7, <1>8, Zenon DEF Session

(* What is opened is a finished file of this session.                      *)
LEMMA ReaderOnDisk ==
    ASSUME TypeInv, Session, NEW t \in Thread, NEW r, Openable(t), pc[t] \in {"install", "cinstall"}
    PROVE  /\ Reader(t, r).file = num[t] /\ num[t] \in DOMAIN files
           /\ files[num[t]] = [gen |-> Reader(t, r).gen, done |-> TRUE, data |-> Reader(t, r).data]
<1>1. num[t] \in DOMAIN files /\ files[num[t]] \in File
  BY FileTypes, Zenon DEF Openable
<1>2. files[num[t]].gen = opens /\ files[num[t]].done
  BY <1>1, Zenon DEF Session, OutputsKnown, Building
<1>3. files[num[t]].done = TRUE
  BY <1>1, <1>2, Zenon DEF File
<1> QED BY <1>1, <1>2, <1>3, Zenon DEF Reader, File

LEMMA FlushInstallKeeps ==
    ASSUME TypeInv, Session, NEW t \in Thread, FlushInstall(t) PROVE Session'
<1> DEFINE new == Reader(t, -(rank + 1))
<1>0. /\ new.file = num[t] /\ num[t] \in DOMAIN files /\ num[t] < nextFile
      /\ files[num[t]] = [gen |-> new.gen, done |-> TRUE, data |-> new.data]
  BY ReaderOnDisk DEF FlushInstall, Session, NumbersFresh, Building
<1> HIDE DEF new
<1>1. /\ UNCHANGED <<files, opens, nextFile, num, task>>
      /\ \A l \in Level : \A h \in levels'[l] : h \in levels[l] \/ (h = new /\ l = 0)
      /\ \A l \in Level : levels[l] \subseteq levels'[l]
      /\ \A u \in Thread : pc'[u] \in Busy => pc'[u] = pc[u] /\ u # t
  BY Zenon DEF FlushInstall, Goto, disk, ghosts, new, TypeInv, MemoryOK, LocalsOK, Busy, Building, Merging
<1>2. /\ pc[t] \in Building
      /\ \A l \in Level : \A h \in levels[l] : h.file # num[t]
      /\ \A u \in Thread : pc[u] \in Merging \cup {"cdelete"} =>
            \A h \in task[u].inputs : h.file # num[t]
      /\ \A u \in Thread : u # t /\ pc[u] \in Building => num[u] # num[t]
  BY Zenon DEF FlushInstall, Session, NumbersFresh, TablesDistinct, InputsTracked, Building
<1>b. \A u \in Thread : pc'[u] \in Building => pc[u] \in Building /\ pc'[u] = pc[u] /\ u # t
  BY <1>1, Zenon DEF Busy
<1>3. NumbersFresh'
  BY <1>1, <1>b, Zenon DEF Session, NumbersFresh
<1>4. OutputsKnown'
  BY <1>1, <1>b, Zenon DEF Session, OutputsKnown
<1>5. TablesDistinct'
  <2> SUFFICES ASSUME NEW l \in Level, NEW h \in levels'[l]
               PROVE  /\ h.file < nextFile
                      /\ \A u \in Thread : pc'[u] \in Building => num[u] # h.file
                      /\ \A m \in Level : \A g \in levels'[m] : g.file = h.file => g = h /\ m = l
    BY <1>1, Zenon DEF TablesDistinct
  <2>1. CASE h \in levels[l]
    <3>1. /\ h.file < nextFile
          /\ \A u \in Thread : pc[u] \in Building => num[u] # h.file
          /\ \A m \in Level : \A g \in levels[m] : g.file = h.file => g = h /\ m = l
      BY <2>1, Zenon DEF Session, TablesDistinct
    <3>2. h.file # num[t]
      BY <1>2, <2>1, Zenon
    <3> QED BY <1>0, <1>1, <1>b, <3>1, <3>2, Zenon
  <2>2. CASE h = new /\ l = 0
    BY <1>0, <1>1, <1>2, <1>b, <2>2, Zenon
  <2> QED BY <1>1, <2>1, <2>2, Zenon
<1>6. InputsTracked'
  <2>0. nextFile' = nextFile /\ num' = num /\ task' = task
    BY <1>1, Zenon
  <2>1. ASSUME NEW u \in Thread, pc'[u] \in Merging \cup {"cdelete"}, NEW h \in task[u].inputs
        PROVE  /\ h.file < nextFile
               /\ \A w \in Thread : pc'[w] \in Building => num[w] # h.file
               /\ \A m \in Level : \A g \in levels'[m] :
                     g.file = h.file => pc'[u] \in Merging /\ g = h /\ m = task[u].level
    <3>1. pc'[u] = pc[u] /\ pc[u] \in Merging \cup {"cdelete"}
      BY <1>1, <2>1, Zenon DEF Busy
    <3>2. /\ h.file < nextFile
          /\ \A w \in Thread : pc[w] \in Building => num[w] # h.file
          /\ \A m \in Level : \A g \in levels[m] :
                g.file = h.file => pc[u] \in Merging /\ g = h /\ m = task[u].level
      BY <3>1, Zenon DEF Session, InputsTracked
    <3>3. h.file # num[t]
      BY <1>2, <3>1, Zenon
    <3>4. ASSUME NEW m \in Level, NEW g \in levels'[m], g.file = h.file PROVE g \in levels[m]
      BY <1>0, <1>1, <3>3, <3>4, Zenon
    <3> QED BY <1>b, <3>1, <3>2, <3>4, Zenon
  <2>2. ASSUME NEW u \in Thread, pc'[u] \in Merging \cup {"cdelete"}, NEW h \in task'[u].inputs
        PROVE  /\ h.file < nextFile'
               /\ \A w \in Thread : pc'[w] \in Building => num'[w] # h.file
               /\ \A m \in Level : \A g \in levels'[m] :
                     g.file = h.file => pc'[u] \in Merging /\ g = h /\ m = task'[u].level
    BY <2>0, <2>1, <2>2, Zenon
  <2> QED BY <2>2, Zenon DEF InputsTracked
<1>7. OnDisk'
  <2> SUFFICES ASSUME NEW l \in Level, NEW h \in levels'[l]
               PROVE  /\ h.file \in DOMAIN files
                      /\ files[h.file] = [gen |-> h.gen, done |-> TRUE, data |-> h.data]
    BY <1>1, Zenon DEF OnDisk
  <2>1. CASE h \in levels[l]
    BY <2>1, Zenon DEF Session, OnDisk
  <2>2. CASE h = new
    BY <1>0, <2>2, Zenon
  <2> QED BY <1>1, <2>1, <2>2, Zenon
<1> QED BY <1>3, <1>4, <1>5, <1>6, <1>7, ZenonT(40) DEF Session

(* A compaction swaps its inputs for its output in one step: afterwards no *)
(* open table uses the files it is about to delete.                        *)
LEMMA CompactInstallKeeps ==
    ASSUME TypeInv, Session, NEW t \in Thread, CompactInstall(t) PROVE Session'
<1> DEFINE new == Reader(t, rank + 1)
<1>0. /\ new.file = num[t] /\ num[t] \in DOMAIN files /\ num[t] < nextFile
      /\ files[num[t]] = [gen |-> new.gen, done |-> TRUE, data |-> new.data]
  BY ReaderOnDisk, Zenon DEF CompactInstall, Session, NumbersFresh, Building
<1> HIDE DEF new
<1>1. /\ UNCHANGED <<files, opens, nextFile, num, task>>
      /\ \A u \in Thread : pc'[u] \in Building \cup Merging => pc'[u] = pc[u] /\ u # t
      /\ \A u \in Thread : pc'[u] = "cdelete" => pc[u] = "cdelete" \/ u = t
      /\ pc'[t] = "cdelete"
  BY Zenon DEF CompactInstall, Goto, locals, ghosts, TypeInv, LocalsOK, Building, Merging
<1>2. \A l \in Level : \A h \in levels'[l] :
          \/ h \in levels[l] /\ (l = task[t].level => h \notin task[t].inputs)
          \/ h = new /\ l = task[t].level + 1
  <2>1. task[t].level \in Level /\ task[t].level + 1 \in Level /\ task[t].level # task[t].level + 1
    <3>1. task[t].level \in Level /\ task[t].level + 1 \in Level
      BY FileTypes, Zenon
    <3>2. task[t].level \in Int
      BY <3>1 DEF Level
    <3> QED BY <3>1, <3>2
  <2> QED BY <2>1, Zenon DEF CompactInstall, new, TypeInv, MemoryOK
<1>3. /\ pc[t] \in Building /\ pc[t] \in Merging
      /\ \A l \in Level : \A h \in levels[l] : h.file # num[t]
      /\ \A u \in Thread : pc[u] \in Merging \cup {"cdelete"} =>
            \A h \in task[u].inputs : h.file # num[t]
      /\ \A u \in Thread : u # t /\ pc[u] \in Building => num[u] # num[t]
  BY Zenon DEF CompactInstall, Session, NumbersFresh, TablesDistinct, InputsTracked, Building, Merging
<1>4. NumbersFresh'
  BY <1>1, Zenon DEF Session, NumbersFresh
<1>5. OutputsKnown'
  BY <1>1, Zenon DEF Session, OutputsKnown
<1>6. TablesDistinct'
  <2> SUFFICES ASSUME NEW l \in Level, NEW h \in levels'[l]
               PROVE  /\ h.file < nextFile
                      /\ \A u \in Thread : pc'[u] \in Building => num[u] # h.file
                      /\ \A m \in Level : \A g \in levels'[m] : g.file = h.file => g = h /\ m = l
    BY <1>1, Zenon DEF TablesDistinct
  <2>1. CASE h \in levels[l]
    <3>1. /\ h.file < nextFile
          /\ \A u \in Thread : pc[u] \in Building => num[u] # h.file
          /\ \A m \in Level : \A g \in levels[m] : g.file = h.file => g = h /\ m = l
      BY <2>1, Zenon DEF Session, TablesDistinct
    <3>2. h.file # num[t]
      BY <1>3, <2>1, Zenon
    <3> QED BY <1>0, <1>1, <1>2, <3>1, <3>2, Zenon
  <2>2. CASE h = new /\ l = task[t].level + 1
    <3>1. \A u \in Thread : pc'[u] \in Building => num[u] # num[t]
      BY <1>1, <1>3, Zenon
    <3>2. \A m \in Level : \A g \in levels'[m] : g.file = num[t] => g = new /\ m = task[t].level + 1
      BY <1>2, <1>3, Zenon
    <3> QED BY <1>0, <2>2, <3>1, <3>2, Zenon
  <2> QED BY <1>2, <2>1, <2>2, Zenon
<1>7. InputsTracked'
  <2> SUFFICES ASSUME NEW u \in Thread, pc'[u] \in Merging \cup {"cdelete"},
                      NEW h \in task[u].inputs
               PROVE  /\ h.file < nextFile
                      /\ \A w \in Thread : pc'[w] \in Building => num[w] # h.file
                      /\ \A m \in Level : \A g \in levels'[m] :
                            g.file = h.file => pc'[u] \in Merging /\ g = h /\ m = task[u].level
    BY <1>1 DEF InputsTracked
  <2>1. pc[u] \in Merging \cup {"cdelete"}
    BY <1>1, <1>3, Zenon
  <2>2. h.file < nextFile /\ \A w \in Thread : pc'[w] \in Building => num[w] # h.file
    BY <1>1, <2>1, Zenon DEF Session, InputsTracked
  <2>3. ASSUME NEW m \in Level, NEW g \in levels'[m], g.file = h.file
        PROVE  pc'[u] \in Merging /\ g = h /\ m = task[u].level
    <3>1. g \in levels[m] /\ (m = task[t].level => g \notin task[t].inputs)
      BY <1>0, <1>2, <1>3, <2>1, <2>3, Zenon
    <3>2. pc[u] \in Merging /\ g = h /\ m = task[u].level
      BY <2>1, <2>3, <3>1, Zenon DEF Session, InputsTracked
    <3>3. u # t
      BY <3>1, <3>2, Zenon
    <3> QED BY <1>1, <3>2, <3>3, Zenon DEF CompactInstall, Goto, TypeInv, LocalsOK
  <2> QED BY <2>2, <2>3, Zenon
<1>8. OnDisk'
  <2> SUFFICES ASSUME NEW l \in Level, NEW h \in levels'[l]
               PROVE  /\ h.file \in DOMAIN files
                      /\ files[h.file] = [gen |-> h.gen, done |-> TRUE, data |-> h.data]
    BY <1>1, Zenon DEF OnDisk
  <2>1. CASE h \in levels[l]
    BY <2>1, Zenon DEF Session, OnDisk
  <2>2. CASE h = new
    BY <1>0, <2>2, Zenon
  <2> QED BY <1>2, <2>1, <2>2, Zenon
<1> QED BY <1>4, <1>5, <1>6, <1>7, <1>8, Zenon DEF Session

(* A picked task merges open tables of one level.                          *)
LEMMA CompactPickKeeps ==
    ASSUME TypeInv, TypeInv', Session, NEW t \in Thread, CompactPick(t) PROVE Session'
<1>0. UNCHANGED <<levels, files, opens, nextFile>> /\ nextFile \in Nat
  BY Zenon DEF CompactPick, memory, disk, TypeInv, MemoryOK
<1>1. CASE EndCompact(t)
  <2>1. Aside
    BY <1>0, <1>1, ReturnLeaves, AsideBy, Zenon DEF Leaving
  <2> QED BY <2>1, AsideKeeps, Zenon
<1>2. CASE ~EndCompact(t)
  <2>1. PICK p \in PickCompaction : task' = [task EXCEPT ![t] = p]
    BY <1>2, Zenon DEF CompactPick
  <2>2. p.level \in Level /\ p.inputs \subseteq levels[p.level]
    <3>1. p \in Task
      BY PickType, Zenon
    <3>2. p.level \in Level
      BY <3>1, LevelFacts, Zenon DEF Task
    <3> QED BY <3>2 DEF PickCompaction, Foremost
  <2>3. /\ num' = num /\ pc'[t] = "ccreate" /\ task'[t] = p
        /\ \A u \in Thread \ {t} : pc'[u] = pc[u] /\ task'[u] = task[u]
    BY <1>2, <2>1, Zenon DEF CompactPick, Goto, TypeInv, LocalsOK
  <2>4. \A u \in Thread : pc'[u] \in Building => pc[u] \in Building /\ pc'[u] = pc[u]
    BY <2>3, Zenon DEF Building
  <2>5. NumbersFresh' /\ OutputsKnown'
    <3>1. NumbersFresh'
      <4>1. NumbersFresh
        BY Zenon DEF Session
      <4>2. \A n \in DOMAIN files' : n < nextFile'
        BY <1>0, <4>1, Zenon DEF NumbersFresh
      <4>3. \A u \in Thread : pc'[u] \in Building => num'[u] < nextFile'
        BY <1>0, <2>3, <2>4, <4>1, Zenon DEF NumbersFresh
      <4>4. \A u, w \in Thread :
               pc'[u] \in Building /\ pc'[w] \in Building /\ u # w => num'[u] # num'[w]
        BY <2>3, <2>4, <4>1, Zenon DEF NumbersFresh
      <4> QED BY <4>2, <4>3, <4>4, Zenon DEF NumbersFresh
    <3>2. OutputsKnown'
      <4>1. OutputsKnown
        BY Zenon DEF Session
      <4> SUFFICES ASSUME NEW u \in Thread, pc'[u] \in Building, num[u] \in DOMAIN files
                   PROVE  /\ files[num[u]].gen = opens
                          /\ files[num[u]].done <=> pc'[u] \in {"install", "cinstall"}
        BY <1>0, <2>3, Zenon DEF OutputsKnown
      <4>2. pc[u] \in Building /\ pc'[u] = pc[u]
        BY <2>4, Zenon
      <4> QED BY <4>1, <4>2, Zenon DEF OutputsKnown
    <3> QED BY <3>1, <3>2, Zenon
  <2>6. TablesDistinct' /\ OnDisk'
    <3>1. TablesDistinct'
      <4>1. TablesDistinct
        BY Zenon DEF Session
      <4>2. ASSUME NEW l \in Level, NEW h \in levels[l]
            PROVE  /\ h.file < nextFile
                   /\ \A u \in Thread : pc'[u] \in Building => num[u] # h.file
                   /\ \A m \in Level : \A g \in levels[m] : g.file = h.file => g = h /\ m = l
        BY <2>4, <4>1, Zenon DEF TablesDistinct
      <4>3. levels' = levels /\ nextFile' = nextFile /\ num' = num
        BY <1>0, <2>3, Zenon
      <4> QED BY <4>2, <4>3, Zenon DEF TablesDistinct
    <3>2. OnDisk'
      BY <1>0, Zenon DEF Session, OnDisk
    <3> QED BY <3>1, <3>2, Zenon
  <2>7. InputsTracked'
    <3> SUFFICES ASSUME NEW u \in Thread, pc'[u] \in Merging \cup {"cdelete"},
                        NEW h \in task'[u].inputs
                 PROVE  /\ h.file < nextFile
                        /\ \A w \in Thread : pc'[w] \in Building => num[w] # h.file
                        /\ \A m \in Level : \A g \in levels[m] :
                              g.file = h.file => pc'[u] \in Merging /\ g = h /\ m = task'[u].level
      <4>1. levels' = levels /\ nextFile' = nextFile /\ num' = num
        BY <1>0, <2>3, Zenon
      <4> QED BY <4>1, Zenon DEF InputsTracked
    <3>1. CASE u = t
      <4>1. h \in levels[p.level]
        BY <2>2, <2>3, <3>1, Zenon
      <4>2. /\ h.file < nextFile
            /\ \A w \in Thread : pc[w] \in Building => num[w] # h.file
            /\ \A m \in Level : \A g \in levels[m] : g.file = h.file => g = h /\ m = p.level
        BY <2>2, <4>1, Zenon DEF Session, TablesDistinct
      <4>3. pc'[u] \in Merging /\ task'[u].level = p.level
        BY <2>3, <3>1, Zenon DEF Merging
      <4> QED BY <2>4, <4>2, <4>3, Zenon
    <3>2. CASE u # t
      <4>1. pc'[u] = pc[u] /\ task'[u] = task[u]
        BY <2>3, <3>2, Zenon
      <4>2. /\ h.file < nextFile
            /\ \A w \in Thread : pc[w] \in Building => num[w] # h.file
            /\ \A m \in Level : \A g \in levels[m] :
                  g.file = h.file => pc[u] \in Merging /\ g = h /\ m = task[u].level
        BY <4>1, Zenon DEF Session, InputsTracked
      <4> QED BY <2>4, <4>1, <4>2, Zenon
    <3> QED BY <3>1, <3>2, Zenon
  <2> QED BY <2>5, <2>6, <2>7, Zenon DEF Session
<1> QED BY <1>1, <1>2, Zenon

(* An output without entries is removed; it was nobody's table.            *)
LEMMA AbandonAside ==
    ASSUME TypeInv, Session, NEW t \in Thread, pc[t] \in Building,
           files' = Without(files, num[t]), UNCHANGED <<levels, opens, nextFile>>,
           \A u \in Thread : pc'[u] \in Busy =>
              pc'[u] = pc[u] /\ num'[u] = num[u] /\ task'[u] = task[u]
    PROVE  Aside
<1>1. \A l \in Level : \A h \in levels[l] : h.file # num[t]
  BY Zenon DEF Session, TablesDistinct
<1>2. nextFile' >= nextFile
  BY FileTypes
<1> QED BY <1>1, <1>2, Zenon DEF Aside

LEMMA FlushBuildKeeps ==
    ASSUME TypeInv, TypeInv', Session, NEW t \in Thread, FlushBuild(t) PROVE Session'
<1>0. UNCHANGED <<levels, opens, nextFile, num, task>> /\ pc[t] = "build"
  BY Zenon DEF FlushBuild, memory, locals, ghosts
<1>1. CASE held[t] = {}
  <2>1. \A u \in Thread : pc'[u] \in Busy => pc'[u] = pc[u]
    BY <1>1, Zenon DEF FlushBuild, Goto, TypeInv, LocalsOK, Busy, Building, Merging
  <2>2. Aside
    BY <1>0, <1>1, <2>1, AbandonAside, Zenon DEF FlushBuild, Building
  <2> QED BY <2>2, AsideKeeps, Zenon
<1>2. CASE held[t] # {}
  BY <1>0, <1>2, FinishKeeps, Zenon DEF FlushBuild, Goto
<1> QED BY <1>1, <1>2, Zenon

LEMMA CompactMergeKeeps ==
    ASSUME TypeInv, TypeInv', Session, NEW t \in Thread, CompactMerge(t) PROVE Session'
<1>0. UNCHANGED <<levels, opens, nextFile>> /\ pc[t] = "cmerge"
  BY Zenon DEF CompactMerge, memory
<1>1. PICK merged : MergeTo(t, merged)
  BY Zenon DEF CompactMerge
<1> DEFINE out == MergeOutput(merged, task[t].level + 1)
<1>2. CASE out = {}
  <2>1. files' = Without(files, num[t]) /\ EndCompact(t)
    BY <1>1, <1>2, Zenon DEF MergeTo
  <2>2. Aside
    BY <1>0, <2>1, ReturnLeaves, AbandonAside, Zenon DEF Building
  <2> QED BY <2>2, AsideKeeps, Zenon
<1>3. CASE out # {}
  BY <1>0, <1>1, <1>3, FinishKeeps, Zenon DEF MergeTo, Goto, locals
<1> QED BY <1>2, <1>3, Zenon

LEMMA CompactDeleteKeeps ==
    ASSUME TypeInv, TypeInv', Session, NEW t \in Thread, CompactDelete(t) PROVE Session'
<1>0. UNCHANGED <<levels, opens, nextFile>> /\ pc[t] = "cdelete" /\ nextFile \in Nat
  BY Zenon DEF CompactDelete, memory, TypeInv, MemoryOK
<1>1. PICK h \in Foremost(task[t].inputs) :
         /\ files' = Without(files, h.file)
         /\ IF task[t].inputs = {h}
            THEN EndCompact(t)
            ELSE /\ task' = [task EXCEPT ![t].inputs = @ \ {h}]
                 /\ UNCHANGED <<pc, call, batch, base, applied, held, num, must, acked>>
  BY Zenon DEF CompactDelete
<1>2. \A l \in Level : \A g \in levels[l] : g.file # h.file
  BY <1>0, <1>1, Zenon DEF Session, InputsTracked, Merging, Foremost
<1>3. \A u \in Thread : pc'[u] \in Busy =>
          /\ pc'[u] = pc[u] /\ num'[u] = num[u]
          /\ task'[u].level = task[u].level /\ task'[u].inputs \subseteq task[u].inputs
  <2>1. CASE EndCompact(t)
    BY <2>1, ReturnLeaves, Zenon
  <2>2. CASE ~EndCompact(t)
    <3>1. task' = [task EXCEPT ![t].inputs = @ \ {h}] /\ pc' = pc /\ num' = num
      BY <1>1, <2>2, Zenon
    <3> QED BY <3>1, Zenon DEF TypeInv, LocalsOK, Task
  <2> QED BY <2>1, <2>2, Zenon
<1>4. Aside
  BY <1>0, <1>1, <1>2, <1>3, SMTT(30) DEF Aside
<1> QED BY <1>4, AsideKeeps, Zenon

(* The first open finds an empty directory.                                *)
LEMMA OpenStarts == ASSUME FileInv, TypeInv', Open, opens = 0 PROVE Session'
<1>1. DOMAIN files = {} /\ files' = files /\ LoadedTables = {}
  BY Zenon DEF FileInv, Open, LoadedTables
<1>2. \A l \in Level : levels'[l] = {}
  BY <1>1, Zenon DEF Open
<1>3. \A t \in Thread : pc'[t] = "idle"
  BY Zenon DEF Open, FileInv, DownEmpty
<1> QED BY <1>1, <1>2, <1>3, Zenon DEF Session, NumbersFresh, OutputsKnown, TablesDistinct, InputsTracked,
                                OnDisk, Building, Merging

LEMMA ThreadKeeps ==
    ASSUME TypeInv, TypeInv', Session, NEW t \in Thread, ThreadNext(t), ~CloseSync(t) PROVE Session'
BY AsideSteps, AsideKeeps, CreateKeeps, FlushBuildKeeps, FlushInstallKeeps, CompactPickKeeps,
   CompactMergeKeeps, CompactInstallKeeps, CompactDeleteKeeps, Zenon
DEF ThreadNext

LEMMA FileInit == Init => FileInv
<1> SUFFICES ASSUME Init PROVE FileInv
  BY Zenon
<1>1. TypeInv /\ DownEmpty
  BY TypeInit, SeqInit, Zenon DEF SeqInv
<1>2. mode = "down" /\ opens = 0 /\ \A l \in Level : levels[l] = {}
  BY Zenon DEF Init
<1>3. DOMAIN files = {}
  BY DEF Init
<1> QED BY <1>1, <1>2, <1>3, Zenon DEF FileInv

LEMMA FileStep == ASSUME SeqInv, SeqInv', FileInv, [Next]_vars PROVE FileInv'
<1>0. TypeInv' /\ DownEmpty'
  BY Zenon DEF SeqInv
<1>1. ASSUME NEW t \in Thread, ThreadNext(t) PROVE FileInv'
  <2>0. mode = "up" /\ opens # 0 /\ opens' = opens
    BY <1>1, ThreadUp, SameSession, Zenon DEF FileInv
  <2>1. CASE CloseSync(t)
    <3>1. CASE Vanish
      BY <1>0, <2>0, <3>1, Zenon DEF FileInv, Vanish
    <3>2. CASE ~Vanish
      <4>1. /\ Return(t, {})
            /\ UNCHANGED <<mode, sequence, memtable, immutable, levels, rank, nextFile, wal, walNumber>>
            /\ UNCHANGED <<files, version, hist, purged, opens, faults>>
        BY <2>1, <3>2, Zenon DEF CloseSync
      <4>2. Aside
        BY <4>1, ReturnLeaving, AsideBy, Zenon DEF FileInv
      <4> QED BY <1>0, <2>0, <4>1, <4>2, AsideKeeps, Zenon DEF FileInv
    <3> QED BY <3>1, <3>2, Zenon
  <2>2. CASE ~CloseSync(t)
    BY <1>0, <1>1, <2>0, <2>2, ThreadKeeps, SameSession, Zenon DEF FileInv
  <2> QED BY <2>1, <2>2, Zenon
<1>2. CASE Open
  <2>1. opens \in Nat /\ opens' = opens + 1 /\ mode' = "up"
    BY <1>2, Zenon DEF Open, FileInv, TypeInv, GhostsOK
  <2>2. opens' <= 1 => opens = 0
    BY <2>1
  <2> QED BY <1>0, <1>2, <2>1, <2>2, OpenStarts, SMTT(30) DEF FileInv
<1>3. CASE Crash
  BY <1>0, <1>3, Zenon DEF Crash, Vanish, ghosts, disk, FileInv
<1>4. CASE Spill \/ UNCHANGED vars
  <2>1. UNCHANGED <<mode, levels, opens, nextFile, files, pc, num, task>>
    BY <1>4, Zenon DEF Spill, vars, memory, disk, locals, ghosts
  <2>2. Aside
    BY <2>1, AsideBy, Zenon DEF Leaving, FileInv
  <2> QED BY <1>0, <2>1, <2>2, AsideKeeps, Zenon DEF FileInv
<1> QED BY <1>1, <1>2, <1>3, <1>4, Zenon DEF Next, Rest

LEMMA FileInvariant == Spec => []FileInv
<1>1. Init => FileInv
  BY FileInit, Zenon
<1>2. SeqInv /\ SeqInv' /\ FileInv /\ [Next]_vars => FileInv'
  BY FileStep, Zenon
<1> QED BY <1>1, <1>2, SeqInvariant, PTL DEF Spec

(* In the first session every open table has its finished file on disk,    *)
(* with the contents it was opened on, for every number of overlapping     *)
(* flushes and compactions and every I/O error.                            *)
THEOREM OpenTablesOnDisk == Spec => []TablesOnDisk
<1>1. FileInv => TablesOnDisk
  <2> SUFFICES ASSUME FileInv, opens <= 1 PROVE OnDisk
    BY Zenon DEF TablesOnDisk, OnDisk
  <2>1. CASE mode = "down"
    BY <2>1, Zenon DEF FileInv, OnDisk
  <2>2. CASE mode = "up"
    BY <2>2, Zenon DEF FileInv, Session
  <2> QED BY <2>1, <2>2, Zenon DEF FileInv, TypeInv, MemoryOK
<1> QED BY <1>1, FileInvariant, PTL

(* The step of a thread never changes a finished file.                     *)
LEMMA ThreadFilesKept ==
    ASSUME TypeInv, Session, NEW t \in Thread, ThreadNext(t) PROVE FilesKept
<1>1. CASE UNCHANGED files
  BY <1>1, Zenon DEF FilesKept
<1>2. ASSUME NEW n, files' = Without(files, n) PROVE FilesKept
  BY <1>2, Zenon DEF FilesKept, Without
<1>3. CASE FlushCreate(t) \/ CompactCreate(t)
  <2>1. nextFile \notin DOMAIN files
    BY FreshNumber, Zenon
  <2> QED BY <1>3, <2>1, Zenon DEF FlushCreate, CompactCreate, CreateFile, With, FilesKept
<1>4. ASSUME NEW contents, FinishFile(num[t], contents), pc[t] \in {"build", "cmerge"}
      PROVE  FilesKept
  <2>1. num[t] \in DOMAIN files => ~files[num[t]].done
    BY <1>4, Zenon DEF Session, OutputsKnown, Building
  <2>2. \A n \in DOMAIN files : n # num[t] => files'[n] = files[n]
    BY <1>4, Zenon DEF FinishFile
  <2> QED BY <2>1, <2>2, Zenon DEF FilesKept
<1>5. CASE FlushBuild(t)
  BY <1>2, <1>4, <1>5, Zenon DEF FlushBuild
<1>6. CASE CompactMerge(t)
  BY <1>2, <1>4, <1>6, Zenon DEF CompactMerge, MergeTo
<1>7. CASE CompactDelete(t)
  BY <1>2, <1>7, Zenon DEF CompactDelete
<1>8. CASE Put(t) \/ Delete(t) \/ Write(t) \/ AppendLog(t) \/ SyncLog(t) \/ Apply(t) \/ CheckSize(t)
           \/ Freeze(t) \/ Flush(t) \/ Close(t) \/ Drop(t) \/ FlushTake(t)
  BY <1>1, <1>8, Zenon DEF Put, Delete, Write, BeginWrite, AppendLog, SyncLog, Apply, CheckSize, Freeze,
                    Flush, Close, Drop, BeginFlush, FlushTake, disk
<1>9. CASE FlushInstall(t) \/ RotateOpen(t) \/ RotateSwap(t) \/ RotateRemove(t) \/ Compact(t)
           \/ CompactPick(t) \/ CompactInstall(t) \/ CloseSync(t) \/ Fail(t)
  BY <1>1, <1>9, Zenon DEF FlushInstall, RotateOpen, RotateSwap, RotateRemove, Compact, CompactPick,
                    CompactInstall, CloseSync, Fail, disk
<1> QED BY <1>3, <1>5, <1>6, <1>7, <1>8, <1>9, Zenon DEF ThreadNext

(* SSTables are immutable in the first session: a finished file may be     *)
(* deleted but is never truncated or rewritten.                            *)
THEOREM FinishedFilesImmutable == Spec => FinishedFilesKept
<1>1. SeqInv /\ FileInv /\ [Next]_vars => [opens <= 1 => FilesKept]_vars
  <2> SUFFICES ASSUME SeqInv, FileInv, Next, opens <= 1 PROVE FilesKept
    BY Zenon
  <2>1. ASSUME NEW t \in Thread, ThreadNext(t) PROVE FilesKept
    BY <2>1, ThreadUp, ThreadFilesKept, Zenon DEF FileInv
  <2>2. CASE Open \/ Crash \/ Spill \/ Rest
    BY <2>2, Zenon DEF Open, Crash, Spill, Rest, vars, disk, FilesKept
  <2> QED BY <2>1, <2>2, Zenon DEF Next
<1> QED BY <1>1, SeqInvariant, FileInvariant, PTL DEF Spec, FinishedFilesKept

(***************************************************************************)
(* The version set and the table list.                                     *)
(***************************************************************************)
VersionInv == (opens = 0 => version = {}) /\ CompactedSynced

(* Synced, entry by entry.                                                 *)
LEMMA SyncedAt ==
    ASSUME TypeInv, NEW l
    PROVE  Synced(l) <=> \A n : <<l, n>> \in version <=> \E h \in levels[l] : h.file = n
<1>1. \A e \in version : e = <<e[1], e[2]>>
  BY DEF TypeInv, DiskOK
<1>2. \A n : n \in {e[2] : e \in {d \in version : d[1] = l}} <=> <<l, n>> \in version
  BY <1>1, Zenon
<1>3. \A n : n \in {h.file : h \in levels[l]} <=> \E h \in levels[l] : h.file = n
  BY Zenon
<1> QED BY <1>2, <1>3, Zenon DEF Synced

LEMMA SyncedAtNext ==
    ASSUME TypeInv', NEW l
    PROVE  Synced(l)' <=> \A n : <<l, n>> \in version' <=> \E h \in levels'[l] : h.file = n
<1>1. \A e \in version' : e = <<e[1], e[2]>>
  BY DEF TypeInv, DiskOK
<1>2. \A n : n \in {e[2] : e \in {d \in version' : d[1] = l}} <=> <<l, n>> \in version'
  BY <1>1, Zenon
<1>3. \A n : n \in {h.file : h \in levels'[l]} <=> \E h \in levels'[l] : h.file = n
  BY Zenon
<1> QED BY <1>2, <1>3, Zenon DEF Synced

(* The edits of a compaction say of every level above 0 what its change of *)
(* the table list does: an input is in its level or in no level, and its   *)
(* file number is its own.                                                 *)
LEMMA InstallSynced ==
    ASSUME TypeInv, TypeInv', Session, NEW t \in Thread, CompactInstall(t),
           NEW l \in Level \ {0}, Synced(l)
    PROVE  Synced(l)'
<1> DEFINE L == task[t].level
           new == Reader(t, rank + 1)
<1>0. new.file = num[t] /\ L \in Level /\ L + 1 \in Level /\ L # L + 1
  <2>1. L \in Level /\ L + 1 \in Level
    BY FileTypes, Zenon
  <2>2. \A k \in Level : k # k + 1
    BY DEF Level
  <2>3. new.file = num[t]
    BY Zenon DEF Reader
  <2> QED BY <2>1, <2>2, <2>3, Zenon
<1>1. /\ version' = (version \cup {<<L + 1, num[t]>>}) \ {<<L, h.file>> : h \in task[t].inputs}
      /\ levels' = [levels EXCEPT ![L] = @ \ task[t].inputs, ![L + 1] = @ \cup {new}]
      /\ pc[t] \in Merging
  BY Zenon DEF CompactInstall, LoggedEdits, Merging
<1>2. levels \in [Level -> SUBSET Handle]
  BY Zenon DEF TypeInv, MemoryOK
<1>3. \A h \in task[t].inputs : \A g \in levels[L] : g.file = h.file => g = h
  BY <1>0, <1>1, Zenon DEF Session, InputsTracked
<1> HIDE DEF L, new
<1>4. \A n : <<l, n>> \in version <=> \E h \in levels[l] : h.file = n
  BY SyncedAt, Zenon
<1>5. CASE l = L
  <2>1. levels'[l] = levels[l] \ task[t].inputs
    BY <1>0, <1>1, <1>2, <1>5, Zenon
  <2>2. \A n : <<l, n>> \in version' <=> <<l, n>> \in version /\ \A h \in task[t].inputs : h.file # n
    BY <1>0, <1>1, <1>5, Zenon
  <2>3. ASSUME NEW n PROVE <<l, n>> \in version' <=> \E h \in levels'[l] : h.file = n
    BY <1>3, <1>4, <1>5, <2>1, <2>2, SMTT(30)
  <2> QED BY <2>3, SyncedAtNext, Zenon
<1>6. CASE l = L + 1
  <2>1. levels'[l] = levels[l] \cup {new}
    BY <1>0, <1>1, <1>2, <1>6, Zenon
  <2>2. \A n : <<l, n>> \in version' <=> <<l, n>> \in version \/ n = num[t]
    BY <1>0, <1>1, <1>6, Zenon
  <2>3. ASSUME NEW n PROVE <<l, n>> \in version' <=> \E h \in levels'[l] : h.file = n
    BY <1>0, <1>4, <2>1, <2>2, Zenon
  <2> QED BY <2>3, SyncedAtNext, Zenon
<1>7. CASE l # L /\ l # L + 1
  <2>1. levels'[l] = levels[l]
    BY <1>0, <1>1, <1>2, <1>7, Zenon
  <2>2. \A n : <<l, n>> \in version' <=> <<l, n>> \in version
    BY <1>1, <1>7, Zenon
  <2> QED BY <1>4, <2>1, <2>2, SyncedAtNext, Zenon
<1> QED BY <1>5, <1>6, <1>7, Zenon

(* A failed edit leaves the version set alone unless a fault is counted.   *)
LEMMA FailSynced ==
    ASSUME TypeInv, NEW t \in Thread, Fail(t), faults' = 0 PROVE version' = version
<1>1. faults \in Nat
  BY Zenon DEF TypeInv, GhostsOK
<1>2. faults' # faults + 1
  BY <1>1
<1>3. ~(pc[t] = "cinstall" /\ Openable(t))
  BY <1>2, Zenon DEF Fail, Faulty
<1> QED BY <1>3, Zenon DEF Fail

LEMMA VersionStep ==
    ASSUME FileInv, TypeInv', VersionInv, [Next]_vars PROVE VersionInv'
<1>0. TypeInv /\ opens \in Nat /\ faults \in Nat
  BY Zenon DEF FileInv, TypeInv, GhostsOK
<1>1. ASSUME NEW t \in Thread, ThreadNext(t) PROVE VersionInv'
  <2>0. mode = "up" /\ opens # 0 /\ opens' = opens
    BY <1>1, ThreadUp, SameSession, Zenon DEF FileInv
  <2> SUFFICES ASSUME mode' = "up", opens = 1, faults' = 0, NEW l \in Level \ {0} PROVE Synced(l)'
    BY <2>0, Zenon DEF VersionInv, CompactedSynced
  <2>1. faults = 0 => Synced(l)
    BY <2>0, Zenon DEF VersionInv, CompactedSynced
  <2>2. CASE CompactInstall(t)
    <3>1. faults' = faults
      BY <2>2, Zenon DEF CompactInstall, ghosts
    <3>2. opens <= 1
      OBVIOUS
    <3>3. Session
      BY <2>0, <3>2, Zenon DEF FileInv
    <3> QED BY <1>0, <2>1, <2>2, <3>1, <3>3, InstallSynced, Zenon
  <2>3. CASE FlushInstall(t)
    <3>1. faults = 0 /\ version' = version /\ levels'[l] = levels[l]
      BY <1>0, <2>3, Zenon DEF FlushInstall, ghosts, disk, TypeInv, MemoryOK
    <3> QED BY <2>1, <3>1, Zenon DEF Synced
  <2>4. CASE ~CompactInstall(t) /\ ~FlushInstall(t)
    <3>1. levels' = levels /\ version' = version /\ faults = 0
      <4>1. CASE Put(t) \/ Delete(t) \/ Write(t) \/ AppendLog(t) \/ SyncLog(t) \/ Apply(t)
                 \/ CheckSize(t) \/ Freeze(t) \/ Flush(t) \/ Close(t) \/ Drop(t) \/ FlushTake(t)
                 \/ FlushCreate(t)
        BY <4>1, Zenon DEF Put, Delete, Write, BeginWrite, AppendLog, SyncLog, Apply, CheckSize, Freeze,
                    Flush, Close, Drop, BeginFlush, FlushTake, FlushCreate, memory, disk, ghosts
      <4>2. CASE FlushBuild(t) \/ RotateOpen(t) \/ RotateSwap(t) \/ RotateRemove(t) \/ Compact(t)
                 \/ CompactPick(t) \/ CompactCreate(t) \/ CompactDelete(t)
        BY <4>2, Zenon DEF FlushBuild, RotateOpen, RotateSwap, RotateRemove, Compact, CompactPick,
                    CompactCreate, CompactDelete, memory, disk, ghosts
      <4>3. CASE CompactMerge(t)
        <5>1. /\ levels' = levels /\ version' = version
              /\ faults' = faults + 1 \/ faults' = faults
          BY <4>3, Zenon DEF CompactMerge, memory
        <5> QED BY <1>0, <5>1
      <4>4. CASE CloseSync(t)
        BY <4>4, Zenon DEF CloseSync, Vanish
      <4>5. CASE Fail(t)
        <5>0. faults' = faults + 1 \/ faults' = faults
          BY <4>5, Zenon DEF Fail, Faulty
        <5>1. faults = 0
          BY <1>0, <5>0
        <5> QED BY <1>0, <4>5, <5>1, FailSynced, Zenon DEF Fail
      <4> QED BY <1>1, <2>4, <4>1, <4>2, <4>3, <4>4, <4>5, Zenon DEF ThreadNext
    <3> QED BY <2>1, <3>1, Zenon DEF Synced
  <2> QED BY <2>2, <2>3, <2>4, Zenon
<1>2. CASE Open
  <2> SUFFICES ASSUME opens' = 1, NEW l \in Level \ {0} PROVE Synced(l)'
    BY <1>0, <1>2, SMTT(30) DEF Open, VersionInv, CompactedSynced
  <2>1. version' = {} /\ levels'[l] = {}
    BY <1>0, <1>2 DEF Open, VersionInv
  <2> QED BY <2>1, Zenon DEF Synced
<1>3. CASE Crash
  BY <1>3, Zenon DEF Crash, Vanish, disk, ghosts, VersionInv, CompactedSynced
<1>4. CASE Spill \/ UNCHANGED vars
  BY <1>4, Zenon DEF Spill, vars, memory, disk, ghosts, VersionInv, CompactedSynced, Synced
<1> QED BY <1>1, <1>2, <1>3, <1>4, Zenon DEF Next, Rest

(* In the first session the version set and the table list agree on every  *)
(* level that compaction fills, for every number of overlapping flushes    *)
(* and compactions, as long as no manifest write fails (lib.rs:1018).      *)
THEOREM CompactionSyncsVersion == Spec => []CompactedSynced
<1>1. Init => VersionInv
  BY Zenon DEF Init, VersionInv, CompactedSynced
<1>2. FileInv /\ FileInv' /\ VersionInv /\ [Next]_vars => VersionInv'
  BY VersionStep, Zenon DEF FileInv
<1>3. VersionInv => CompactedSynced
  BY Zenon DEF VersionInv
<1> QED BY <1>1, <1>2, <1>3, FileInvariant, PTL DEF Spec

(***************************************************************************)
(* What the flushing and compacting thread has in hand.                    *)
(***************************************************************************)
(* What a flushing thread has in hand.                                     *)
FlushHand(t) ==
    /\ held[t] # {} => pc[t] \in Holding
    /\ pc[t] \in Building => num[t] \in DOMAIN files
    /\ pc[t] = "install" => files[num[t]].data = FlushContents(held[t])
FlushOK ==
    /\ \A t \in Thread : FlushHand(t)
    /\ \A h \in levels[0] : -rank <= h.rank

(* What a compacting thread has in hand.                                   *)
Losers(inputs) == {o \in MergeWinners(inputs) : o.kind # "put"}
MergeHand(t) ==
    /\ pc[t] \in Merging =>
          /\ task[t].inputs \subseteq levels[task[t].level]
          /\ task[t].level = 0 => task[t].inputs = levels[0]
          /\ task[t].level # 0 =>
                \A g \in task[t].inputs : \A h \in levels[task[t].level] : g.rank <= h.rank
    /\ pc[t] = "cinstall" =>
          /\ files[num[t]].data = MergeOutput(MergeWinners(task[t].inputs), task[t].level + 1)
          /\ Losers(task[t].inputs) \subseteq purged
CompactOK ==
    /\ \A l \in Level : \A h \in levels[l] : h.gen = opens
    /\ \A l \in Level \ {0} : \A h \in levels[l] : h.rank <= rank
    /\ \A t \in Thread : MergeHand(t)

Inside == Holding \cup Building \cup Merging

LEMMA InsideFlushes ==
    ASSUME CallsMatch, NEW t \in Thread,
           pc[t] \in {"take"} \cup Inside \cup RotateSteps \cup CompactSteps
    PROVE  call[t] \in Flushes
BY Zenon DEF CallsMatch, Inside, Holding, Building, Merging, RotateSteps, CompactSteps, Flushes

(* The others are not flushing.                                            *)
LEMMA OthersAway ==
    ASSUME CallsMatch, OneFlush, FlushOK, NEW t \in Thread, call[t] \in Flushes
    PROVE  \A u \in Thread \ {t} :
              /\ pc[u] \notin {"take"} \cup Inside \cup RotateSteps \cup CompactSteps
              /\ held[u] = {}
<1> SUFFICES ASSUME NEW u \in Thread \ {t}
             PROVE  /\ pc[u] \notin {"take"} \cup Inside \cup RotateSteps \cup CompactSteps
                    /\ held[u] = {}
  BY Zenon
<1>1. call[u] \notin Flushes
  BY Zenon DEF OneFlush
<1>2. pc[u] \notin {"take"} \cup Inside \cup RotateSteps \cup CompactSteps
  BY <1>1, InsideFlushes, Zenon
<1>3. held[u] = {}
  BY <1>2, Zenon DEF FlushOK, FlushHand, Inside
<1> QED BY <1>2, <1>3, Zenon

(* A step that neither builds nor installs a table.                        *)
Still ==
    /\ UNCHANGED <<levels, rank, files, opens>> /\ purged \subseteq purged'
    /\ \A u \in Thread :
          \/ pc'[u] = pc[u] /\ num'[u] = num[u] /\ task'[u] = task[u] /\ held'[u] = held[u]
          \/ held'[u] = {} /\ pc'[u] \notin Inside

LEMMA StillKeeps == ASSUME FlushOK, CompactOK, Still PROVE FlushOK' /\ CompactOK'
<1>1. ASSUME NEW t \in Thread PROVE FlushHand(t)' /\ MergeHand(t)'
  <2>1. CASE pc'[t] = pc[t] /\ num'[t] = num[t] /\ task'[t] = task[t] /\ held'[t] = held[t]
    BY <2>1, Zenon DEF FlushOK, FlushHand, CompactOK, MergeHand, Still
  <2>2. CASE held'[t] = {} /\ pc'[t] \notin Inside
    BY <2>2, Zenon DEF Inside, Building, Merging, FlushHand, MergeHand
  <2> QED BY <2>1, <2>2, Zenon DEF Still
<1> QED BY <1>1, Zenon DEF FlushOK, CompactOK, Still

LEMMA ReturnStill ==
    ASSUME TypeInv, NEW t \in Thread, NEW ids, Return(t, ids),
           UNCHANGED <<levels, rank, files, opens, purged>>
    PROVE  Still
BY Zenon DEF Return, Goto, Still, TypeInv, LocalsOK, Inside, Holding, Building, Merging

(* A step of t to a place outside of Inside.                               *)
LEMMA GotoStill ==
    ASSUME TypeInv, FlushOK, NEW t \in Thread, NEW s, s \notin Inside, Goto(t, s), pc[t] \notin Holding,
           UNCHANGED <<levels, rank, files, opens, purged, task, held>>,
           \A u \in Thread \ {t} : num'[u] = num[u]
    PROVE  Still
<1>1. held[t] = {} /\ pc'[t] = s /\ \A u \in Thread \ {t} : pc'[u] = pc[u]
  BY Zenon DEF FlushOK, FlushHand, Goto, TypeInv, LocalsOK
<1> QED BY <1>1, Zenon DEF Still

LEMMA StillSteps ==
    ASSUME TypeInv, FlushOK, NEW t \in Thread, mode' = "up",
           \/ Put(t) \/ Delete(t) \/ Write(t) \/ AppendLog(t) \/ SyncLog(t) \/ Apply(t)
           \/ CheckSize(t) \/ Freeze(t) \/ Flush(t) \/ Close(t) \/ Drop(t) \/ Compact(t)
           \/ RotateOpen(t) \/ RotateSwap(t) \/ RotateRemove(t) \/ CloseSync(t)
           \/ (FlushTake(t) /\ immutable = <<>>)
    PROVE  Still
<1> DEFINE Same == /\ UNCHANGED <<levels, rank, files, opens, purged, task, held>>
                   /\ \A u \in Thread \ {t} : num'[u] = num[u]
<1> USE DEF memory, disk, locals, ghosts
<1>0. /\ num \in [Thread -> Nat]
      /\ \A s \in {"idle", "log", "sync", "apply", "check", "freeze", "take", "closing", "pick"}
                    \cup RotateSteps : s \notin Inside /\ s \notin Holding
  BY Zenon DEF Inside, Holding, Building, Merging, RotateSteps, TypeInv, LocalsOK
<1>1. CASE Put(t) \/ Delete(t) \/ Write(t)
  <2>1. PICK c, items : BeginWrite(t, c, items)
    BY <1>1, Zenon DEF Put, Delete, Write
  <2>2. Same /\ Goto(t, IF UseWal THEN "log" ELSE "apply") /\ pc[t] = "idle"
    BY <2>1, Zenon DEF BeginWrite, MayWrite
  <2> QED BY <1>0, <2>2, GotoStill, Zenon
<1>2. CASE AppendLog(t) \/ SyncLog(t)
  <2>1. Same /\ pc[t] \in {"log", "sync"}
    BY <1>2, Zenon DEF AppendLog, SyncLog
  <2>2. Goto(t, "sync") \/ Goto(t, "apply")
    BY <1>2, Zenon DEF AppendLog, SyncLog
  <2> QED BY <1>0, <2>1, <2>2, GotoStill, Zenon
<1>3. CASE Apply(t) \/ CheckSize(t) \/ Freeze(t)
  <2>1. UNCHANGED <<levels, rank, files, opens, purged>>
    BY <1>3, Zenon DEF Apply, CheckSize, Freeze
  <2>2. CASE Return(t, Ids(batch[t]))
    BY <2>1, <2>2, ReturnStill, Zenon
  <2>3. CASE ~Return(t, Ids(batch[t]))
    <3>1. Same /\ pc[t] \in {"apply", "check", "freeze"}
      BY <1>3, <2>3, Zenon DEF Apply, CheckSize, Freeze
    <3>2. Goto(t, "apply") \/ Goto(t, "check") \/ Goto(t, "freeze") \/ Goto(t, "take")
      BY <1>3, <2>3, Zenon DEF Apply, CheckSize, Freeze
    <3> QED BY <1>0, <3>1, <3>2, GotoStill, Zenon
  <2> QED BY <2>2, <2>3, Zenon
<1>4. CASE Flush(t) \/ Close(t) \/ Drop(t) \/ Compact(t)
  <2>1. Same /\ pc[t] = "idle"
    BY <1>4, Zenon DEF Flush, Close, Drop, BeginFlush, Compact, MayFlush
  <2>2. Goto(t, "take") \/ Goto(t, "freeze") \/ Goto(t, "pick")
    BY <1>4, Zenon DEF Flush, Close, Drop, BeginFlush, Compact
  <2> QED BY <1>0, <2>1, <2>2, GotoStill, Zenon
<1>5. CASE RotateOpen(t) \/ RotateSwap(t) \/ RotateRemove(t)
  <2>1. Same
    BY <1>0, <1>5, Zenon DEF RotateOpen, RotateSwap, RotateRemove
  <2>2. (Goto(t, "swap") \/ Goto(t, "unlink") \/ Goto(t, "pick")) /\ pc[t] \in RotateSteps
    BY <1>5, Zenon DEF RotateOpen, RotateSwap, RotateRemove, RotateSteps
  <2> QED BY <1>0, <2>1, <2>2, GotoStill, Zenon DEF RotateSteps
<1>6. CASE CloseSync(t)
  <2>1. Return(t, {}) /\ UNCHANGED <<levels, rank, files, opens, purged>>
    BY <1>6, Zenon DEF CloseSync, Vanish
  <2> QED BY <2>1, ReturnStill, Zenon
<1>7. CASE FlushTake(t) /\ immutable = <<>>
  <2>1. Same /\ Goto(t, "rotate") /\ pc[t] = "take"
    BY <1>7, Zenon DEF FlushTake
  <2> QED BY <1>0, <2>1, GotoStill, Zenon DEF RotateSteps
<1> QED BY <1>1, <1>2, <1>3, <1>4, <1>5, <1>6, <1>7, Zenon

(* A step of the flushing thread: the others have nothing in hand.         *)
LEMMA AloneKeeps ==
    ASSUME CallsMatch, OneFlush, FlushOK, NEW t \in Thread, call[t] \in Flushes,
           \A u \in Thread \ {t} : pc'[u] = pc[u] /\ held'[u] = held[u],
           FlushHand(t)', MergeHand(t)'
    PROVE  \A u \in Thread : FlushHand(u)' /\ MergeHand(u)'
<1> SUFFICES ASSUME NEW u \in Thread \ {t} PROVE FlushHand(u)' /\ MergeHand(u)'
  BY Zenon
<1>1. pc'[u] \notin Inside /\ held'[u] = {}
  BY OthersAway, Zenon
<1> QED BY <1>1, Zenon DEF FlushHand, MergeHand, Inside, Building, Merging

LEMMA EndCompactStill ==
    ASSUME TypeInv, FlushOK, NEW t \in Thread, pc[t] \in CompactSteps, EndCompact(t),
           UNCHANGED <<levels, rank, opens, purged>>
    PROVE  /\ pc'[t] \notin Inside /\ held'[t] = {}
           /\ \A u \in Thread \ {t} : pc'[u] = pc[u] /\ held'[u] = held[u]
<1>1. held[t] = {}
  BY Zenon DEF FlushOK, FlushHand, Holding, CompactSteps
<1>2. CASE call[t] \in {"close", "drop"}
  BY <1>1, <1>2, ZenonT(40) DEF EndCompact, Goto, Inside, Holding, Building, Merging, TypeInv, LocalsOK
<1>3. CASE call[t] \notin {"close", "drop"}
  BY <1>3 DEF EndCompact, Return, Goto, Inside, Holding, Building, Merging, TypeInv, LocalsOK
<1> QED BY <1>2, <1>3, Zenon

(* A step of t after which it has nothing in hand; files may go.           *)
LEMMA LeaveKeeps ==
    ASSUME CallsMatch, OneFlush, FlushOK, CompactOK, NEW t \in Thread, call[t] \in Flushes,
           UNCHANGED <<levels, rank, opens>>,
           pc'[t] \notin Inside, held'[t] = {},
           \A u \in Thread \ {t} : pc'[u] = pc[u] /\ held'[u] = held[u]
    PROVE  FlushOK' /\ CompactOK'
<1>1. FlushHand(t)' /\ MergeHand(t)'
  BY Zenon DEF FlushHand, MergeHand, Inside, Building, Merging
<1>2. \A u \in Thread : FlushHand(u)' /\ MergeHand(u)'
  BY <1>1, AloneKeeps, Zenon
<1> QED BY <1>2, Zenon DEF FlushOK, CompactOK

LEMMA TakeHand ==
    ASSUME TypeInv, CallsMatch, OneFlush, FlushOK, CompactOK, NEW t \in Thread, FlushTake(t),
           immutable # <<>>
    PROVE  FlushOK' /\ CompactOK'
<1> USE DEF ghosts, disk
<1>1. /\ pc[t] = "take" /\ pc'[t] = "create" /\ UNCHANGED <<levels, rank, opens>>
      /\ \A u \in Thread \ {t} : pc'[u] = pc[u] /\ held'[u] = held[u]
  BY Zenon DEF FlushTake, Goto, TypeInv, LocalsOK
<1>2. FlushHand(t)' /\ MergeHand(t)'
  BY <1>1, Zenon DEF FlushHand, MergeHand, Holding, Building, Merging
<1>3. call[t] \in Flushes
  BY <1>1, InsideFlushes, Zenon
<1>4. \A u \in Thread : FlushHand(u)' /\ MergeHand(u)'
  BY <1>1, <1>2, <1>3, AloneKeeps, Zenon
<1> QED BY <1>1, <1>4, Zenon DEF FlushOK, CompactOK

LEMMA CreateHand ==
    ASSUME TypeInv, CallsMatch, OneFlush, FlushOK, CompactOK, NEW t \in Thread,
           FlushCreate(t) \/ CompactCreate(t)
    PROVE  FlushOK' /\ CompactOK'
<1> USE DEF ghosts, disk
<1>1. /\ UNCHANGED <<levels, rank, opens, held, task>> /\ num'[t] \in DOMAIN files'
      /\ \A u \in Thread \ {t} : pc'[u] = pc[u]
      /\ \/ pc[t] = "create" /\ pc'[t] = "build"
         \/ pc[t] = "ccreate" /\ pc'[t] = "cmerge"
  BY Zenon DEF FlushCreate, CompactCreate, CreateFile, With, Goto, TypeInv, LocalsOK
<1>2. FlushHand(t)' /\ MergeHand(t)'
  <2>1. FlushHand(t) /\ MergeHand(t)
    BY Zenon DEF FlushOK, CompactOK
  <2> QED BY <1>1, <2>1, Zenon DEF FlushHand, MergeHand, Holding, Building, Merging
<1>3. call[t] \in Flushes
  BY <1>1, InsideFlushes, Zenon DEF Inside, Holding, Merging
<1>4. \A u \in Thread : FlushHand(u)' /\ MergeHand(u)'
  BY <1>1, <1>2, <1>3, AloneKeeps, Zenon
<1> QED BY <1>1, <1>4, Zenon DEF FlushOK, CompactOK

LEMMA BuildHand ==
    ASSUME TypeInv, CallsMatch, OneFlush, FlushOK, CompactOK, NEW t \in Thread, FlushBuild(t)
    PROVE  FlushOK' /\ CompactOK'
<1> USE DEF ghosts, disk, locals, memory
<1>1. /\ UNCHANGED <<levels, rank, opens, held, num>> /\ pc[t] = "build"
      /\ \A u \in Thread \ {t} : pc'[u] = pc[u]
  BY Zenon DEF FlushBuild, Goto, TypeInv, LocalsOK
<1>2. call[t] \in Flushes
  BY <1>1, InsideFlushes, Zenon DEF Inside, Holding
<1>3. CASE held[t] = {}
  <2>1. pc'[t] = "take"
    BY <1>3, Zenon DEF FlushBuild, Goto, TypeInv, LocalsOK
  <2> QED BY <1>1, <1>2, <1>3, <2>1, LeaveKeeps, Zenon DEF Inside, Holding, Building, Merging
<1>4. CASE held[t] # {}
  <2>1. pc'[t] = "install" /\ FinishFile(num[t], FlushContents(held[t]))
    BY <1>4, Zenon DEF FlushBuild, Goto, TypeInv, LocalsOK
  <2>2. num[t] \in DOMAIN files
    BY <1>1, Zenon DEF FlushOK, FlushHand, Building
  <2>3. num[t] \in DOMAIN files' /\ files'[num[t]].data = FlushContents(held[t])
    BY <2>1, <2>2, Zenon DEF FinishFile
  <2>4. FlushHand(t)' /\ MergeHand(t)'
    BY <1>1, <2>1, <2>3, Zenon DEF FlushHand, MergeHand, Holding, Building, Merging
  <2>5. \A u \in Thread : FlushHand(u)' /\ MergeHand(u)'
    BY <1>1, <1>2, <2>4, AloneKeeps, Zenon
  <2> QED BY <1>1, <2>5, Zenon DEF FlushOK, CompactOK
<1> QED BY <1>3, <1>4, Zenon

(* Ranks are given in ascending order below level 0.                       *)
LEMMA LowerRanks ==
    ASSUME TypeInv, CompactOK
    PROVE  /\ rank + 1 <= rank + 1
           /\ \A l \in Level \ {0} : \A h \in levels[l] : h.rank <= rank + 1
<1>1. rank \in Nat /\ \A l \in Level : \A h \in levels[l] : h.rank \in Int
  BY DEF TypeInv, MemoryOK, Handle
<1>2. \A l \in Level \ {0} : \A h \in levels[l] : h.rank <= rank
  BY Zenon DEF CompactOK
<1>3. rank + 1 <= rank + 1 /\ \A n \in Int : n <= rank => n <= rank + 1
  BY <1>1
<1> QED BY <1>1, <1>2, <1>3, Zenon

LEMMA InstallHand ==
    ASSUME TypeInv, CallsMatch, OneFlush, FlushOK, CompactOK, NEW t \in Thread, FlushInstall(t)
    PROVE  FlushOK' /\ CompactOK'
<1> USE DEF ghosts, disk
<1>1. /\ pc[t] = "install" /\ pc'[t] = "take" /\ held'[t] = {} /\ rank' = rank + 1
      /\ opens' = opens
      /\ \A u \in Thread \ {t} : pc'[u] = pc[u] /\ held'[u] = held[u]
  BY Zenon DEF FlushInstall, Goto, TypeInv, LocalsOK
<1>2. call[t] \in Flushes
  BY <1>1, InsideFlushes, Zenon DEF Inside, Holding
<1>3. FlushHand(t)' /\ MergeHand(t)'
  BY <1>1, Zenon DEF FlushHand, MergeHand, Building, Merging
<1>4. \A u \in Thread : FlushHand(u)' /\ MergeHand(u)'
  BY <1>1, <1>2, <1>3, AloneKeeps, Zenon
<1>5. \A l \in Level : \A h \in levels'[l] : h \in levels[l] \/ (l = 0 /\ h = Reader(t, -(rank + 1)))
  BY Zenon DEF FlushInstall, TypeInv, MemoryOK
<1>6. \A l \in Level : \A h \in levels'[l] : h.gen = opens'
  <2>1. Reader(t, -(rank + 1)).gen = opens
    BY Zenon DEF Reader
  <2> QED BY <1>1, <1>5, <2>1, Zenon DEF CompactOK
<1>7. \A h \in levels'[0] : -rank' <= h.rank
  <2>1. 0 \in Level /\ rank \in Nat /\ \A h \in levels[0] : h.rank \in Int
    BY LevelFacts DEF TypeInv, MemoryOK, Handle
  <2>2. \A h \in levels[0] : -rank <= h.rank
    BY Zenon DEF FlushOK
  <2>3. Reader(t, -(rank + 1)).rank = -(rank + 1)
    BY Zenon DEF Reader
  <2>4. \A h \in levels'[0] : h \in levels[0] \/ h = Reader(t, -(rank + 1))
    BY <1>5, <2>1, Zenon
  <2>5. -(rank + 1) <= -(rank + 1) /\ \A n \in Int : -rank <= n => -(rank + 1) <= n
    BY <2>1
  <2> QED BY <1>1, <2>1, <2>2, <2>3, <2>4, <2>5, Zenon
<1>8. \A l \in Level \ {0} : \A h \in levels'[l] : h.rank <= rank'
  BY <1>1, <1>5, LowerRanks, Zenon DEF CompactOK
<1> QED BY <1>4, <1>6, <1>7, <1>8, ZenonT(40) DEF FlushOK, CompactOK

LEMMA FaultsGrow ==
    ASSUME NEW t \in Thread, ThreadNext(t) PROVE faults' = faults \/ faults' = faults + 1
<1> USE DEF ghosts
<1>1. CASE Put(t) \/ Delete(t) \/ Write(t)
  BY <1>1, Zenon DEF Put, Delete, Write, BeginWrite
<1>2. CASE AppendLog(t) \/ SyncLog(t) \/ Apply(t) \/ CheckSize(t) \/ Freeze(t)
  BY <1>2, Zenon DEF AppendLog, SyncLog, Apply, CheckSize, Freeze
<1>3. CASE Flush(t) \/ Close(t) \/ Drop(t) \/ Compact(t)
  BY <1>3, Zenon DEF Flush, Close, Drop, BeginFlush, Compact
<1>4. CASE FlushTake(t) \/ FlushCreate(t) \/ FlushBuild(t) \/ FlushInstall(t)
  BY <1>4, Zenon DEF FlushTake, FlushCreate, FlushBuild, FlushInstall
<1>5. CASE RotateOpen(t) \/ RotateSwap(t) \/ RotateRemove(t)
  BY <1>5, Zenon DEF RotateOpen, RotateSwap, RotateRemove
<1>6. CASE CompactPick(t) \/ CompactCreate(t) \/ CompactInstall(t) \/ CompactDelete(t)
  BY <1>6, Zenon DEF CompactPick, CompactCreate, CompactInstall, CompactDelete
<1>7. CASE CompactMerge(t)
  BY <1>7, Zenon DEF CompactMerge
<1>8. CASE CloseSync(t)
  BY <1>8, Zenon DEF CloseSync
<1>9. CASE Fail(t)
  BY <1>9, Zenon DEF Fail, Faulty
<1> QED BY <1>1, <1>2, <1>3, <1>4, <1>5, <1>6, <1>7, <1>8, <1>9, Zenon DEF ThreadNext

(* The inputs of a merge were opened in this session.                      *)
LEMMA InputsCurrent ==
    ASSUME TypeInv, CompactOK, NEW t \in Thread, pc[t] \in Merging
    PROVE  \A h \in task[t].inputs : ~Overwritten(h)
<1> SUFFICES ASSUME NEW h \in task[t].inputs PROVE ~Overwritten(h)
  BY Zenon
<1>1. task[t].level \in Level /\ opens \in Nat
  BY FileTypes, Zenon
<1>2. h \in levels[task[t].level]
  BY Zenon DEF CompactOK, MergeHand
<1>3. h.gen = opens
  BY <1>1, <1>2, Zenon DEF CompactOK
<1> QED BY <1>1, <1>3 DEF Overwritten

(* Without an I/O error no call fails.                                     *)
LEMMA NoFail ==
    ASSUME TypeInv, FlushOK, CompactOK, NEW t \in Thread, Fail(t), faults' = 0
    PROVE  FALSE
<1>1. faults \in Nat
  BY Zenon DEF TypeInv, GhostsOK
<1>2. faults' # faults + 1
  BY <1>1
<1>3. \/ pc[t] \in {"ccreate", "cmerge"} /\ \E h \in task[t].inputs : Overwritten(h)
      \/ pc[t] \in {"install", "cinstall"} /\ ~Openable(t)
  BY <1>2, Zenon DEF Fail, Faulty
<1>4. CASE pc[t] \in {"ccreate", "cmerge"} /\ \E h \in task[t].inputs : Overwritten(h)
  BY <1>4, InputsCurrent, Zenon DEF Merging
<1>5. CASE pc[t] \in {"install", "cinstall"} /\ ~Openable(t)
  BY <1>5, Zenon DEF FlushOK, FlushHand, Building, Openable
<1> QED BY <1>3, <1>4, <1>5, Zenon

(* Without an I/O error a merge is the whole merge.                        *)
LEMMA MergeWhole ==
    ASSUME TypeInv, CompactOK, NEW t \in Thread, CompactMerge(t), faults' = 0
    PROVE  MergeTo(t, MergeWinners(task[t].inputs))
<1>1. faults \in Nat
  BY Zenon DEF TypeInv, GhostsOK
<1>2. faults' # faults + 1
  BY <1>1
<1>3. PICK merged \in MergeOutcomes(t) : MergeTo(t, merged)
  BY <1>2, Zenon DEF CompactMerge
<1>4. pc[t] = "cmerge"
  BY Zenon DEF CompactMerge
<1>5. \A h \in task[t].inputs : ~Overwritten(h)
  BY <1>4, InputsCurrent, Zenon DEF Merging
<1>6. MergeOutcomes(t) = {MergeWinners(task[t].inputs)}
  <2>1. {h \in task[t].inputs : Overwritten(h)} = {}
    BY <1>5, Zenon
  <2> QED BY <2>1, Zenon DEF MergeOutcomes
<1> QED BY <1>3, <1>6, Zenon

LEMMA PickHand ==
    ASSUME TypeInv, CallsMatch, OneFlush, FlushOK, CompactOK, NEW t \in Thread, CompactPick(t)
    PROVE  FlushOK' /\ CompactOK'
<1> USE DEF memory, disk
<1>1. pc[t] = "pick" /\ UNCHANGED <<levels, rank, files, opens, purged>>
  BY Zenon DEF CompactPick
<1>2. call[t] \in Flushes
  BY <1>1, InsideFlushes, Zenon DEF CompactSteps
<1>3. CASE PickCompaction = {}
  <2>1. EndCompact(t)
    BY <1>3, Zenon DEF CompactPick
  <2>2. /\ pc'[t] \notin Inside /\ held'[t] = {}
        /\ \A u \in Thread \ {t} : pc'[u] = pc[u] /\ held'[u] = held[u]
    BY <1>1, <2>1, EndCompactStill, Zenon DEF CompactSteps
  <2> QED BY <1>1, <1>2, <2>2, LeaveKeeps, Zenon
<1>4. CASE PickCompaction # {}
  <2>1. PICK p \in PickCompaction : task' = [task EXCEPT ![t] = p]
    BY <1>4, Zenon DEF CompactPick
  <2>2. UNCHANGED <<held, num>> /\ Goto(t, "ccreate")
    BY <1>4, Zenon DEF CompactPick
  <2>3. /\ task'[t] = p /\ pc'[t] = "ccreate"
        /\ \A u \in Thread \ {t} : pc'[u] = pc[u] /\ held'[u] = held[u]
    BY <2>1, <2>2, Zenon DEF Goto, TypeInv, LocalsOK
  <2>4. /\ p.inputs \subseteq levels[p.level]
        /\ p.level = 0 => p.inputs = levels[0]
        /\ p.level # 0 => \A g \in p.inputs : \A h \in levels[p.level] : g.rank <= h.rank
    <3>1. CASE Cardinality(levels[0]) >= MaxLevel0Files
      BY <3>1 DEF PickCompaction
    <3>2. CASE ~(Cardinality(levels[0]) >= MaxLevel0Files)
      <4>1. PICK l \in Oversized : p = [level |-> l, inputs |-> Foremost(levels[l])]
        BY <3>2, Zenon DEF PickCompaction
      <4>2. l # 0 /\ l \in Level
        BY ConstantsAssumption, SMTT(30) DEF Oversized, Level
      <4>3. p.level = l /\ p.inputs = Foremost(levels[l])
        BY <4>1, Zenon
      <4>4. \A g \in Foremost(levels[l]) : g \in levels[l] /\ \A h \in levels[l] : g.rank <= h.rank
        BY Zenon DEF Foremost
      <4> QED BY <4>2, <4>3, <4>4, Zenon
    <3> QED BY <3>1, <3>2, Zenon
  <2>5. MergeHand(t)'
    BY <1>1, <2>3, <2>4, Zenon DEF MergeHand
  <2>6. FlushHand(t)'
    <3>1. held[t] = {}
      BY <1>1, Zenon DEF FlushOK, FlushHand, Holding
    <3> QED BY <2>2, <2>3, <3>1, Zenon DEF FlushHand, Building
  <2>7. \A u \in Thread : FlushHand(u)' /\ MergeHand(u)'
    BY <1>2, <2>3, <2>5, <2>6, AloneKeeps, Zenon
  <2> QED BY <1>1, <2>7, Zenon DEF FlushOK, CompactOK
<1> QED BY <1>3, <1>4, Zenon

LEMMA MergeKeepsHand ==
    ASSUME TypeInv, CallsMatch, OneFlush, FlushOK, CompactOK, NEW t \in Thread,
           CompactMerge(t), faults' = 0
    PROVE  FlushOK' /\ CompactOK'
<1> USE DEF memory, disk
<1> DEFINE out == MergeOutput(MergeWinners(task[t].inputs), task[t].level + 1)
<1>1. pc[t] = "cmerge" /\ UNCHANGED <<levels, rank, opens>>
  BY Zenon DEF CompactMerge
<1>2. call[t] \in Flushes
  BY <1>1, InsideFlushes, Zenon DEF CompactSteps
<1>3. MergeTo(t, MergeWinners(task[t].inputs))
  BY MergeWhole, Zenon
<1>4. CASE out = {}
  <2>1. EndCompact(t) /\ purged' = purged
    BY <1>3, <1>4, Zenon DEF MergeTo
  <2>2. /\ pc'[t] \notin Inside /\ held'[t] = {}
        /\ \A u \in Thread \ {t} : pc'[u] = pc[u] /\ held'[u] = held[u]
    BY <1>1, <2>1, EndCompactStill, Zenon DEF CompactSteps
  <2> QED BY <1>1, <1>2, <2>2, LeaveKeeps, Zenon
<1>5. CASE out # {}
  <2>1. /\ FinishFile(num[t], out) /\ Goto(t, "cinstall") /\ UNCHANGED <<held, num, task>>
        /\ purged' = purged \cup Losers(task[t].inputs)
    BY <1>3, <1>5, Zenon DEF MergeTo, locals, Losers
  <2>2. pc'[t] = "cinstall" /\ \A u \in Thread \ {t} : pc'[u] = pc[u] /\ held'[u] = held[u]
    BY <2>1, Zenon DEF Goto, TypeInv, LocalsOK
  <2>3. num[t] \in DOMAIN files /\ held[t] = {}
    BY <1>1, Zenon DEF FlushOK, FlushHand, Building, Holding
  <2>4. num[t] \in DOMAIN files' /\ files'[num[t]].data = out
    BY <2>1, <2>3, Zenon DEF FinishFile
  <2>5. FlushHand(t)'
    BY <2>1, <2>2, <2>3, <2>4, Zenon DEF FlushHand
  <2>6. MergeHand(t)'
    <3>1. MergeHand(t)
      BY Zenon DEF CompactOK
    <3> QED BY <1>1, <2>1, <2>2, <2>4, <3>1, Zenon DEF MergeHand, Merging
  <2>7. \A u \in Thread : FlushHand(u)' /\ MergeHand(u)'
    BY <1>2, <2>2, <2>5, <2>6, AloneKeeps, Zenon
  <2> QED BY <1>1, <2>7, Zenon DEF FlushOK, CompactOK
<1> QED BY <1>4, <1>5, Zenon

LEMMA CompactInstallHand ==
    ASSUME TypeInv, CallsMatch, OneFlush, FlushOK, CompactOK, NEW t \in Thread,
           CompactInstall(t)
    PROVE  FlushOK' /\ CompactOK'
<1> USE DEF locals, ghosts
<1>1. /\ pc[t] = "cinstall" /\ rank' = rank + 1 /\ UNCHANGED <<opens, held>>
      /\ pc'[t] = "cdelete" /\ \A u \in Thread \ {t} : pc'[u] = pc[u]
  BY Zenon DEF CompactInstall, Goto, TypeInv, LocalsOK
<1>2. call[t] \in Flushes
  BY <1>1, InsideFlushes, Zenon DEF CompactSteps
<1>3. held[t] = {}
  BY <1>1, Zenon DEF FlushOK, FlushHand, Holding
<1>4. FlushHand(t)' /\ MergeHand(t)'
  BY <1>1, <1>3, Zenon DEF FlushHand, MergeHand, Building, Merging
<1>5. \A u \in Thread : FlushHand(u)' /\ MergeHand(u)'
  BY <1>1, <1>2, <1>4, AloneKeeps, ZenonT(40)
<1>6. task[t].level \in Level /\ task[t].level + 1 \in Level /\ 0 # task[t].level + 1
  <2>1. task[t].level \in Level /\ task[t].level + 1 \in Level
    BY FileTypes, Zenon
  <2> QED BY <2>1 DEF Level
<1>7. \A l \in Level : \A h \in levels'[l] :
          h \in levels[l] \/ (l = task[t].level + 1 /\ h = Reader(t, rank + 1))
  BY <1>6, Zenon DEF CompactInstall, TypeInv, MemoryOK
<1>8. \A l \in Level : \A h \in levels'[l] : h.gen = opens'
  <2>1. Reader(t, rank + 1).gen = opens
    BY Zenon DEF Reader
  <2>2. \A l \in Level : \A h \in levels[l] : h.gen = opens
    BY Zenon DEF CompactOK
  <2> QED BY <1>1, <1>7, <2>1, <2>2, Zenon
<1>9. \A h \in levels'[0] : -rank' <= h.rank
  <2>1. 0 \in Level /\ rank \in Nat /\ \A h \in levels[0] : h.rank \in Int
    BY LevelFacts DEF TypeInv, MemoryOK, Handle
  <2>2. \A h \in levels[0] : -rank <= h.rank
    BY Zenon DEF FlushOK
  <2>3. \A h \in levels'[0] : h \in levels[0]
    BY <1>6, <1>7, <2>1, Zenon
  <2> QED BY <1>1, <2>1, <2>2, <2>3, SMTT(30)
<1>10. \A l \in Level \ {0} : \A h \in levels'[l] : h.rank <= rank'
  <2>1. Reader(t, rank + 1).rank = rank + 1
    BY Zenon DEF Reader
  <2> QED BY <1>1, <1>7, <2>1, LowerRanks, Zenon
<1> QED BY <1>5, <1>8, <1>9, <1>10, Zenon DEF FlushOK, CompactOK

LEMMA DeleteHand ==
    ASSUME TypeInv, CallsMatch, OneFlush, FlushOK, CompactOK, NEW t \in Thread,
           CompactDelete(t)
    PROVE  FlushOK' /\ CompactOK'
<1> USE DEF memory
<1>1. pc[t] = "cdelete" /\ UNCHANGED <<levels, rank, opens, purged>>
  BY Zenon DEF CompactDelete
<1>2. call[t] \in Flushes
  BY <1>1, InsideFlushes, Zenon DEF CompactSteps
<1>3. /\ pc'[t] \notin Inside /\ held'[t] = {}
      /\ \A u \in Thread \ {t} : pc'[u] = pc[u] /\ held'[u] = held[u]
  <2>1. CASE EndCompact(t)
    BY <1>1, <2>1, EndCompactStill, Zenon DEF CompactSteps
  <2>2. CASE ~EndCompact(t)
    <3>1. UNCHANGED <<pc, held>>
      BY <2>2, Zenon DEF CompactDelete
    <3> QED BY <1>1, <3>1, Zenon DEF FlushOK, FlushHand, Inside, Holding, Building, Merging
  <2> QED BY <2>1, <2>2, Zenon
<1> QED BY <1>1, <1>2, <1>3, LeaveKeeps, Zenon

LEMMA HandsStep ==
    ASSUME TypeInv, CallsMatch, OneFlush, FlushOK, CompactOK, NEW t \in Thread,
           ThreadNext(t), mode' = "up", faults' = 0
    PROVE  FlushOK' /\ CompactOK'
<1>1. CASE \/ Put(t) \/ Delete(t) \/ Write(t) \/ AppendLog(t) \/ SyncLog(t) \/ Apply(t)
           \/ CheckSize(t) \/ Freeze(t) \/ Flush(t) \/ Close(t) \/ Drop(t) \/ Compact(t)
           \/ RotateOpen(t) \/ RotateSwap(t) \/ RotateRemove(t) \/ CloseSync(t)
           \/ (FlushTake(t) /\ immutable = <<>>)
  BY <1>1, StillSteps, StillKeeps, Zenon
<1>2. CASE FlushTake(t) /\ immutable # <<>>
  BY <1>2, TakeHand, Zenon
<1>3. CASE FlushCreate(t) \/ CompactCreate(t)
  BY <1>3, CreateHand, Zenon
<1>4. CASE FlushBuild(t)
  BY <1>4, BuildHand, Zenon
<1>5. CASE FlushInstall(t)
  BY <1>5, InstallHand, Zenon
<1>6. CASE CompactPick(t)
  BY <1>6, PickHand, Zenon
<1>7. CASE CompactMerge(t)
  BY <1>7, MergeKeepsHand, Zenon
<1>8. CASE CompactInstall(t)
  BY <1>8, CompactInstallHand, Zenon
<1>9. CASE CompactDelete(t)
  BY <1>9, DeleteHand, Zenon
<1>10. CASE Fail(t)
  BY <1>10, NoFail, Zenon
<1> QED BY <1>1, <1>2, <1>3, <1>4, <1>5, <1>6, <1>7, <1>8, <1>9, <1>10, Zenon DEF ThreadNext
=============================================================================
