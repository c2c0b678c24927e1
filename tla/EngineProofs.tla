---------------------------- MODULE EngineProofs ----------------------------
(***************************************************************************)
(* Proofs about the engine, for every number of threads, keys, operations, *)
(* sessions and faults: types, sequence numbers, and the calls and the     *)
(* history that the other proofs rest on.                                  *)
(***************************************************************************)
EXTENDS EngineProps, TLAPS

(* Facts about numbers and lists that the arguments below use by name.     *)
LEMMA NoneIn == DOMAIN <<>> = {}
OBVIOUS

LEMMA ListFacts ==
    ASSUME NEW S, NEW s \in Seq(S)
    PROVE  Len(s) \in Nat /\ DOMAIN s = 1 .. Len(s) /\ \A j \in DOMAIN s : s[j] \in S
OBVIOUS

LEMMA TableFacts ==
    ASSUME NEW n \in Nat, NEW S, NEW f \in [1 .. n -> S] PROVE Len(f) = n /\ f \in Seq(S)
OBVIOUS

(* r is s followed by f.                                                   *)
Joins(r, s, f) ==
    /\ Len(r) = Len(s) + Len(f)
    /\ \A i \in 1 .. Len(s) : r[i] = s[i]
    /\ \A j \in 1 .. Len(f) : r[Len(s) + j] = f[j]

LEMMA ConcatFacts ==
    ASSUME NEW S, NEW T, NEW s \in Seq(S), NEW f \in Seq(T), NEW r, r = s \o f PROVE Joins(r, s, f)
BY DEF Joins

LEMMA AddSwap == ASSUME NEW h \in Nat, NEW j \in Nat PROVE (h + 1) + j = (h + j) + 1
OBVIOUS

LEMMA LeqRefl == ASSUME NEW n \in Nat PROVE n <= n
OBVIOUS

LEMMA NextFits == ASSUME NEW n \in Nat, NEW m \in Nat, n < m PROVE n + 1 <= m
OBVIOUS

LEMMA NoneLen == 0 <= Len(<<>>) /\ Len(<<>>) = 0
OBVIOUS

(* Places behind the first h of a list of h + k.                           *)
LEMMA Behind ==
    ASSUME NEW h \in Nat, NEW k \in Nat, NEW j \in 1 .. k
    PROVE  h + j \in 1 .. h + k /\ h + j \notin 1 .. h
OBVIOUS

(* TypeOK by the groups of variables of module Engine.                     *)
MemoryOK ==
    /\ mode \in {"up", "down"}
    /\ sequence \in Nat /\ memtable \in SUBSET Version
    /\ immutable \in Seq(SUBSET Version)
    /\ levels \in [Level -> SUBSET Handle] /\ rank \in Nat
    /\ nextFile \in Nat /\ wal \in Nat /\ walNumber \in Nat /\ walBuf \in Seq(Op)

DiskOK ==
    /\ \A n \in DOMAIN logs : n \in Nat /\ logs[n] \in Seq(Op)
    /\ \A n \in DOMAIN files : n \in Nat /\ files[n] \in File
    /\ version \subseteq Level \X Nat

LocalsOK ==
    /\ pc \in [Thread -> Step] /\ call \in [Thread -> Call]
    /\ batch \in [Thread -> Seq(Op)]
    /\ base \in [Thread -> Nat] /\ applied \in [Thread -> Nat] /\ num \in [Thread -> Nat]
    /\ held \in [Thread -> SUBSET Version]
    /\ task \in [Thread -> Task]
    /\ must \in [Thread -> SUBSET Nat]

GhostsOK ==
    /\ hist \in Seq(Issued)
    /\ acked \subseteq Nat /\ purged \subseteq Op
    /\ opens \in Nat /\ faults \in Nat

(* A write has an operation left to insert until it leaves "apply"; a      *)
(* thread outside every call has inserted none.                            *)
BatchReady ==
    \A t \in Thread :
        /\ pc[t] \in {"log", "sync", "apply"} => applied[t] < Len(batch[t])
        /\ pc[t] = "idle" => applied[t] = 0

TypeInv == MemoryOK /\ DiskOK /\ LocalsOK /\ GhostsOK /\ BatchReady

(* The grouped invariant gives the type invariant of EngineProps.          *)
LEMMA TypeInvTypeOK == TypeInv => TypeOK
BY Zenon DEF TypeInv, MemoryOK, DiskOK, LocalsOK, GhostsOK, TypeOK

(* Level 0 and the level below a compaction's output exist.                *)
LEMMA LevelFacts ==
    /\ 0 \in Level
    /\ \A l \in 0 .. MaxLevels - 2 : l \in Level /\ l + 1 \in Level
    /\ NoTask \in Task
<1>1. MaxLevels \in Nat /\ MaxLevels >= 2
  BY ConstantsAssumption
<1> QED BY <1>1 DEF Level, NoTask, Task, Handle

LEMMA TypeInit == Init => TypeInv
<1> SUFFICES ASSUME Init PROVE TypeInv
  BY Zenon
<1>1. MemoryOK
  BY DEF Init, MemoryOK
<1>2. DiskOK
  BY DEF Init, DiskOK
<1>3. LocalsOK
  BY LevelFacts DEF Init, LocalsOK, Step, Call
<1>4. GhostsOK
  BY DEF Init, GhostsOK
<1>5. BatchReady
  BY Zenon DEF Init, BatchReady
<1> QED BY <1>1, <1>2, <1>3, <1>4, <1>5, Zenon DEF TypeInv

(* Outside of every call the locals have their types.                      *)
LEMMA VanishType ==
    ASSUME TypeInv, Vanish
    PROVE  MemoryOK' /\ LocalsOK' /\ BatchReady'
<1>1. MemoryOK'
  BY DEF Vanish, MemoryOK
<1>2. LocalsOK' /\ BatchReady'
  BY LevelFacts DEF Vanish, LocalsOK, BatchReady, Step, Call
<1> QED BY <1>1, <1>2, Zenon

LEMMA ReturnType ==
    ASSUME TypeInv, NEW t \in Thread, NEW ids \in SUBSET Nat, Return(t, ids)
    PROVE  LocalsOK' /\ BatchReady' /\ acked' \subseteq Nat
<1>1. LocalsOK'
  BY LevelFacts DEF TypeInv, LocalsOK, Return, Goto, Step, Call
<1>2. BatchReady'
  BY <1>1, Zenon DEF TypeInv, LocalsOK, BatchReady, Return, Goto
<1>3. acked' \subseteq Nat
  BY Zenon DEF TypeInv, GhostsOK, Return
<1> QED BY <1>1, <1>2, <1>3, Zenon

LEMMA IdsType ==
    ASSUME NEW s \in Seq(Op) PROVE Ids(s) \subseteq Nat
<1>1. \A i \in DOMAIN s : s[i] \in Op
  OBVIOUS
<1>2. \A i \in DOMAIN s : s[i].id \in Nat
  BY <1>1, Zenon DEF Op
<1> QED BY <1>2, Zenon DEF Ids

(* What is read from the directory has the type of what was written.       *)
LEMMA EntriesType ==
    ASSUME DiskOK, NEW n \in Nat
    PROVE  /\ Entries(n) \in Seq(Op)
           /\ Replay(Entries(n)) \in SUBSET Version
           /\ \A m \in DOMAIN With(logs, n, Entries(n)) :
                 m \in Nat /\ With(logs, n, Entries(n))[m] \in Seq(Op)
<1>1. Entries(n) \in Seq(Op)
  BY DEF DiskOK, Entries
<1>2. \A i \in DOMAIN Entries(n) : Entries(n)[i] \in Op /\ i \in Nat
  BY <1>1
<1>3. Replay(Entries(n)) \in SUBSET Version
  BY <1>2 DEF Replay, Version
<1> QED BY <1>1, <1>3, Zenon DEF With, DiskOK

LEMMA OpenType == ASSUME TypeInv, Open PROVE TypeInv'
<1>1. PICK n \in LatestLogs :
          /\ wal' = n /\ walNumber' = n
          /\ logs' = With(logs, n, Entries(n))
          /\ sequence' = Len(Entries(n))
          /\ memtable' = Replay(Entries(n))
  BY Zenon DEF Open
<1>2. n \in Nat
  BY <1>1 DEF LatestLogs, TypeInv, DiskOK
<1>3. LoadedTables \in SUBSET Handle
  BY DEF LoadedTables, TypeInv, DiskOK, File, Handle
<1>4. levels' \in [Level -> SUBSET Handle]
  BY <1>3, Zenon DEF Open
<1>5. MemoryOK'
  <2>1. Entries(n) \in Seq(Op) /\ Replay(Entries(n)) \in SUBSET Version
    BY <1>2, EntriesType, Zenon DEF TypeInv
  <2>2. Len(Entries(n)) \in Nat
    BY <2>1
  <2> QED BY <1>1, <1>2, <1>4, <2>1, <2>2, Zenon DEF Open, TypeInv, MemoryOK
<1>6. DiskOK'
  BY <1>1, <1>2, EntriesType, Zenon DEF Open, TypeInv, DiskOK
<1>7. LocalsOK' /\ GhostsOK' /\ BatchReady'
  BY DEF Open, TypeInv, LocalsOK, GhostsOK, BatchReady, locals
<1> QED BY <1>5, <1>6, <1>7, Zenon DEF TypeInv

LEMMA CrashType == ASSUME TypeInv, Crash PROVE TypeInv'
<1>1. DiskOK' /\ GhostsOK'
  BY Zenon DEF Crash, TypeInv, DiskOK, GhostsOK, disk, ghosts
<1> QED BY <1>1, VanishType, Zenon DEF Crash, TypeInv

LEMMA SpillType == ASSUME TypeInv, Spill PROVE TypeInv'
<1>1. Head(walBuf) \in Op /\ Tail(walBuf) \in Seq(Op)
  BY DEF Spill, TypeInv, MemoryOK
<1>2. \A n \in DOMAIN logs : Append(logs[n], Head(walBuf)) \in Seq(Op)
  BY <1>1 DEF TypeInv, DiskOK
<1>3. MemoryOK'
  BY <1>1, Zenon DEF Spill, TypeInv, MemoryOK
<1>4. DiskOK'
  BY <1>2, Zenon DEF Spill, TypeInv, DiskOK
<1>5. LocalsOK' /\ GhostsOK' /\ BatchReady'
  BY Zenon DEF Spill, TypeInv, LocalsOK, GhostsOK, BatchReady, locals, ghosts
<1> QED BY <1>3, <1>4, <1>5, Zenon DEF TypeInv

LEMMA FlushBufferType ==
    ASSUME TypeInv, FlushBuffer
    PROVE  /\ walBuf' \in Seq(Op)
           /\ \A n \in DOMAIN logs' : n \in Nat /\ logs'[n] \in Seq(Op)
<1>1. \A n \in DOMAIN logs : logs[n] \o walBuf \in Seq(Op)
  BY DEF TypeInv, DiskOK, MemoryOK
<1> QED BY <1>1 DEF FlushBuffer, TypeInv, DiskOK

(* What a client asks for.                                                 *)
Item == [key : Key, kind : Kind]

LEMMA BeginWriteType ==
    ASSUME TypeInv, NEW t \in Thread, NEW c \in Call,
           NEW items \in Seq(Item), items # <<>>,
           BeginWrite(t, c, items)
    PROVE  TypeInv'
<1> DEFINE ops == [i \in 1 .. Len(items) |->
                     [id |-> Len(hist) + i, key |-> items[i].key, kind |-> items[i].kind]]
           news == [i \in 1 .. Len(items) |-> [op |-> ops[i], after |-> acked]]
<1>1. /\ batch' = [batch EXCEPT ![t] = ops]
      /\ hist' = hist \o news
  BY Zenon DEF BeginWrite
<1>2. Len(items) \in Nat /\ Len(items) > 0 /\ Len(hist) \in Nat
  BY DEF TypeInv, GhostsOK
<1>3. \A i \in 1 .. Len(items) : items[i] \in Item
  OBVIOUS
<1>4. \A i \in 1 .. Len(items) : ops[i] \in Op
  BY <1>2, <1>3 DEF Op, Item
<1>5. ops \in Seq(Op) /\ Len(ops) = Len(items)
  BY <1>2, <1>4
<1>6. news \in Seq(Issued)
  BY <1>2, <1>4 DEF TypeInv, GhostsOK, Issued
<1> HIDE DEF ops, news
<1>7. MemoryOK' /\ DiskOK'
  BY <1>2 DEF BeginWrite, TypeInv, MemoryOK, DiskOK, disk
<1>8. LocalsOK'
  <2>1. /\ base' = [base EXCEPT ![t] = sequence + 1] /\ call' = [call EXCEPT ![t] = c]
        /\ Goto(t, IF UseWal THEN "log" ELSE "apply")
        /\ UNCHANGED <<applied, held, num, task, must>>
    BY Zenon DEF BeginWrite
  <2>2. sequence + 1 \in Nat /\ LocalsOK
    BY DEF TypeInv, MemoryOK
  <2>3. pc' \in [Thread -> Step]
    BY <2>1, <2>2, Zenon DEF Goto, LocalsOK, Step, WriteSteps
  <2>4. batch' \in [Thread -> Seq(Op)]
    BY <1>1, <1>5, <2>2, Zenon DEF LocalsOK
  <2> QED BY <2>1, <2>2, <2>3, <2>4, Zenon DEF LocalsOK
<1>9. GhostsOK'
  <2>1. hist' \in Seq(Issued)
    BY <1>1, <1>6 DEF TypeInv, GhostsOK
  <2> QED BY <2>1, Zenon DEF BeginWrite, TypeInv, GhostsOK
<1>10. BatchReady'
  BY <1>1, <1>2, <1>5, <1>8 DEF BeginWrite, MayWrite, Goto, TypeInv, LocalsOK, BatchReady
<1> QED BY <1>7, <1>8, <1>9, <1>10, Zenon DEF TypeInv

LEMMA WritesType ==
    ASSUME TypeInv, NEW t \in Thread, Put(t) \/ Delete(t) \/ Write(t) PROVE TypeInv'
<1>0. {"write", "delete"} \subseteq Call /\ Kinds \subseteq Kind
  BY ConstantsAssumption, Zenon DEF Call, Writing
<1>1. \A x \in Item : <<x>> \in Seq(Item) /\ <<x>> # <<>>
  OBVIOUS
<1>2. CASE Put(t)
  <2>1. PICK k \in Key, kind \in Kinds \ {"delete"} :
              BeginWrite(t, "write", <<[key |-> k, kind |-> kind]>>)
    BY <1>2, Zenon DEF Put
  <2>2. [key |-> k, kind |-> kind] \in Item
    BY <1>0, Zenon DEF Item
  <2> QED BY <1>0, <1>1, <2>1, <2>2, BeginWriteType, Zenon
<1>3. CASE Delete(t)
  <2>1. PICK k \in Key : BeginWrite(t, "delete", <<[key |-> k, kind |-> "delete"]>>)
    BY <1>3, Zenon DEF Delete
  <2>2. [key |-> k, kind |-> "delete"] \in Item
    BY Zenon DEF Item, Kind
  <2> QED BY <1>0, <1>1, <2>1, <2>2, BeginWriteType, Zenon
<1>4. CASE Write(t)
  <2>1. PICK n \in 1 .. MaxBatch : \E items \in [1 .. n -> [key : Key, kind : Kinds]] :
              BeginWrite(t, "write", items)
    BY <1>4, Zenon DEF Write
  <2>2. PICK items \in [1 .. n -> [key : Key, kind : Kinds]] : BeginWrite(t, "write", items)
    BY <2>1, Zenon
  <2>3. n \in Nat /\ n > 0
    BY ConstantsAssumption
  <2>4. items \in [1 .. n -> Item]
    BY <1>0, Zenon DEF Item
  <2>5. items \in Seq(Item) /\ Len(items) = n
    BY <2>3, <2>4
  <2> QED BY <1>0, <2>2, <2>3, <2>5, BeginWriteType
<1> QED BY <1>2, <1>3, <1>4, Zenon

LEMMA LogType ==
    ASSUME TypeInv, NEW t \in Thread, AppendLog(t) \/ SyncLog(t) PROVE TypeInv'
<1>1. GhostsOK' /\ BatchReady'
  BY Zenon DEF AppendLog, SyncLog, Goto, TypeInv, LocalsOK, GhostsOK, BatchReady, locals, ghosts
<1>2. LocalsOK'
  BY Zenon DEF AppendLog, SyncLog, Goto, TypeInv, LocalsOK, Step, WriteSteps, locals
<1>3. CASE AppendLog(t)
  <2>1. walBuf' \in Seq(Op)
    BY <1>3 DEF AppendLog, TypeInv, MemoryOK, LocalsOK
  <2>2. MemoryOK' /\ DiskOK'
    BY <1>3, <2>1, Zenon DEF AppendLog, TypeInv, MemoryOK, DiskOK, disk
  <2> QED BY <1>1, <1>2, <2>2, Zenon DEF TypeInv
<1>4. CASE SyncLog(t)
  <2>1. MemoryOK' /\ DiskOK'
    BY <1>4, FlushBufferType, Zenon DEF SyncLog, TypeInv, MemoryOK, DiskOK
  <2> QED BY <1>1, <1>2, <2>1, Zenon DEF TypeInv
<1> QED BY <1>3, <1>4, Zenon

LEMMA ApplyType == ASSUME TypeInv, NEW t \in Thread, Apply(t) PROVE TypeInv'
<1> DEFINE i == applied[t] + 1
<1>1. i \in 1 .. Len(batch[t]) /\ Len(batch[t]) \in Nat /\ base[t] + applied[t] \in Nat
  BY DEF Apply, TypeInv, LocalsOK, BatchReady
<1>2. batch[t][i] \in Op
  BY <1>1 DEF TypeInv, LocalsOK
<1>3. memtable' \in SUBSET Version
  <2>1. memtable' = memtable \cup {[op |-> batch[t][i], seq |-> base[t] + applied[t]]}
    BY Zenon DEF Apply
  <2>2. [op |-> batch[t][i], seq |-> base[t] + applied[t]] \in Version
    BY <1>1, <1>2, Zenon DEF Version
  <2> QED BY <2>1, <2>2, Zenon DEF TypeInv, MemoryOK
<1>4. MemoryOK' /\ DiskOK'
  BY <1>3, Zenon DEF Apply, TypeInv, MemoryOK, DiskOK, disk
<1>5. CASE Return(t, Ids(batch[t]))
  <2>1. Ids(batch[t]) \in SUBSET Nat
    BY IdsType, Zenon DEF TypeInv, LocalsOK
  <2>2. LocalsOK' /\ BatchReady' /\ acked' \subseteq Nat
    BY <1>5, <2>1, ReturnType, Zenon
  <2> QED BY <1>4, <2>2, Zenon DEF Apply, TypeInv, GhostsOK
<1>6. CASE ~Return(t, Ids(batch[t]))
  <2>1. /\ applied' = [applied EXCEPT ![t] = i]
        /\ Goto(t, IF i = Len(batch[t]) THEN "check" ELSE "apply")
        /\ UNCHANGED <<call, batch, base, held, num, task, must, acked>>
    BY <1>6, Zenon DEF Apply
  <2>2. LocalsOK'
    BY <1>1, <2>1 DEF Goto, TypeInv, LocalsOK, Step, WriteSteps
  <2>3. BatchReady'
    BY <1>1, <2>1, <2>2 DEF Goto, TypeInv, LocalsOK, BatchReady
  <2> QED BY <1>4, <2>1, <2>2, <2>3, Zenon DEF Apply, TypeInv, GhostsOK
<1> QED BY <1>5, <1>6, Zenon

LEMMA CheckSizeType == ASSUME TypeInv, NEW t \in Thread, CheckSize(t) PROVE TypeInv'
<1>1. MemoryOK' /\ DiskOK'
  BY Zenon DEF CheckSize, TypeInv, MemoryOK, DiskOK, memory, disk
<1>2. CASE Return(t, Ids(batch[t]))
  <2>1. Ids(batch[t]) \in SUBSET Nat
    BY IdsType, Zenon DEF TypeInv, LocalsOK
  <2>2. LocalsOK' /\ BatchReady' /\ acked' \subseteq Nat
    BY <1>2, <2>1, ReturnType, Zenon
  <2> QED BY <1>1, <2>2, Zenon DEF CheckSize, TypeInv, GhostsOK
<1>3. CASE Goto(t, "freeze") /\ UNCHANGED <<locals, acked>>
  BY <1>1, <1>3, Zenon DEF CheckSize, Goto, TypeInv, GhostsOK, LocalsOK, BatchReady, Step, WriteSteps, locals
<1> QED BY <1>2, <1>3, Zenon DEF CheckSize

LEMMA FreezeType == ASSUME TypeInv, NEW t \in Thread, Freeze(t) PROVE TypeInv'
<1>1. Append(immutable, memtable) \in Seq(SUBSET Version)
  BY DEF TypeInv, MemoryOK
<1>2. MemoryOK' /\ DiskOK'
  BY <1>1, Zenon DEF Freeze, TypeInv, MemoryOK, DiskOK, disk
<1>3. CASE Return(t, Ids(batch[t]))
  <2>1. Ids(batch[t]) \in SUBSET Nat
    BY IdsType, Zenon DEF TypeInv, LocalsOK
  <2>2. LocalsOK' /\ BatchReady' /\ acked' \subseteq Nat
    BY <1>3, <2>1, ReturnType, Zenon
  <2> QED BY <1>2, <2>2, Zenon DEF Freeze, TypeInv, GhostsOK
<1>4. CASE Goto(t, "take") /\ UNCHANGED <<locals, acked>>
  BY <1>2, <1>4, Zenon DEF Freeze, Goto, TypeInv, GhostsOK, LocalsOK, BatchReady, Step, FlushSteps, locals
<1> QED BY <1>3, <1>4, Zenon DEF Freeze

LEMMA BeginFlushType ==
    ASSUME TypeInv, NEW t \in Thread, Flush(t) \/ Close(t) \/ Drop(t) \/ Compact(t) PROVE TypeInv'
<1>1. CASE Flush(t) \/ Close(t) \/ Drop(t)
  <2>1. PICK c \in Flushing : BeginFlush(t, c)
    BY <1>1, Zenon DEF Flush, Close, Drop, Flushing
  <2>2. MemoryOK' /\ DiskOK' /\ GhostsOK' /\ BatchReady'
    BY <2>1, Zenon DEF BeginFlush, Goto, TypeInv, MemoryOK, DiskOK, GhostsOK, LocalsOK, BatchReady,
                memory, disk, ghosts
  <2>3. LocalsOK'
    BY <2>1, Zenon DEF BeginFlush, Goto, TypeInv, GhostsOK, LocalsOK, Step, FlushSteps, Call
  <2> QED BY <2>2, <2>3, Zenon DEF TypeInv
<1>2. CASE Compact(t)
  <2>1. MemoryOK' /\ DiskOK' /\ GhostsOK' /\ BatchReady'
    BY <1>2, Zenon DEF Compact, Goto, TypeInv, MemoryOK, DiskOK, GhostsOK, LocalsOK, BatchReady,
                memory, disk, ghosts
  <2>2. LocalsOK'
    BY <1>2, Zenon DEF Compact, Goto, TypeInv, LocalsOK, Step, CompactSteps, Call
  <2> QED BY <2>1, <2>2, Zenon DEF TypeInv
<1> QED BY <1>1, <1>2, Zenon

(* The steps that only move a thread, in its locals, beside the tables.    *)
LEMMA FlushTakeType == ASSUME TypeInv, NEW t \in Thread, FlushTake(t) PROVE TypeInv'
<1>1. immutable # <<>> => Head(immutable) \in SUBSET Version /\ Tail(immutable) \in Seq(SUBSET Version)
  BY DEF TypeInv, MemoryOK
<1>2. MemoryOK' /\ DiskOK' /\ GhostsOK'
  BY <1>1, Zenon DEF FlushTake, TypeInv, MemoryOK, DiskOK, GhostsOK, disk, ghosts
<1>3. LocalsOK'
  BY <1>1, Zenon DEF FlushTake, Goto, TypeInv, LocalsOK, Step, FlushSteps, RotateSteps
<1>4. BatchReady'
  BY Zenon DEF FlushTake, Goto, TypeInv, LocalsOK, BatchReady
<1> QED BY <1>2, <1>3, <1>4, Zenon DEF TypeInv

LEMMA CreateType ==
    ASSUME TypeInv, NEW t \in Thread, FlushCreate(t) \/ CompactCreate(t) PROVE TypeInv'
<1>1. [gen |-> opens, done |-> FALSE, data |-> {}] \in File
  BY Zenon DEF TypeInv, GhostsOK, File
<1>2. CreateFile(t)
  BY Zenon DEF FlushCreate, CompactCreate
<1>3. \A n \in DOMAIN files' : n \in Nat /\ files'[n] \in File
  BY <1>1, <1>2, Zenon DEF CreateFile, With, TypeInv, MemoryOK, DiskOK
<1>4. MemoryOK' /\ DiskOK' /\ GhostsOK'
  <2>1. nextFile' \in Nat
    BY <1>2 DEF CreateFile, TypeInv, MemoryOK
  <2> QED BY <1>3, <2>1, Zenon DEF FlushCreate, CompactCreate, TypeInv, MemoryOK, DiskOK, GhostsOK, ghosts
<1>5. LocalsOK'
  BY <1>2, Zenon DEF FlushCreate, CompactCreate, CreateFile, Goto, TypeInv, MemoryOK, LocalsOK, Step,
              FlushSteps, CompactSteps
<1>6. BatchReady'
  BY Zenon DEF FlushCreate, CompactCreate, Goto, TypeInv, LocalsOK, BatchReady
<1> QED BY <1>4, <1>5, <1>6, Zenon DEF TypeInv

(* Finishing or removing a file keeps the directory well typed.            *)
LEMMA FileType ==
    ASSUME TypeInv, NEW n, NEW contents \in SUBSET Op,
           FinishFile(n, contents) \/ files' = Without(files, n)
    PROVE  \A m \in DOMAIN files' : m \in Nat /\ files'[m] \in File
<1>1. CASE FinishFile(n, contents)
  <2>1. \A m \in DOMAIN files :
            [gen |-> files[m].gen, done |-> TRUE, data |-> contents] \in File
    BY Zenon DEF TypeInv, DiskOK, File
  <2> QED BY <1>1, <2>1, Zenon DEF FinishFile, TypeInv, DiskOK
<1>2. CASE files' = Without(files, n)
  BY <1>2, Zenon DEF Without, TypeInv, DiskOK
<1> QED BY <1>1, <1>2, Zenon

LEMMA FlushBuildType == ASSUME TypeInv, NEW t \in Thread, FlushBuild(t) PROVE TypeInv'
<1>1. FlushContents(held[t]) \in SUBSET Op
  BY DEF FlushContents, TypeInv, LocalsOK, Version
<1>2. FinishFile(num[t], FlushContents(held[t])) \/ files' = Without(files, num[t])
  BY Zenon DEF FlushBuild
<1>3. \A n \in DOMAIN files' : n \in Nat /\ files'[n] \in File
  BY <1>1, <1>2, FileType, Zenon
<1>4. MemoryOK' /\ DiskOK' /\ GhostsOK'
  BY <1>3, Zenon DEF FlushBuild, TypeInv, MemoryOK, DiskOK, GhostsOK, memory, ghosts
<1>5. LocalsOK' /\ BatchReady'
  BY Zenon DEF FlushBuild, Goto, TypeInv, LocalsOK, BatchReady, Step, FlushSteps, locals
<1> QED BY <1>4, <1>5, Zenon DEF TypeInv

LEMMA ReaderType ==
    ASSUME TypeInv, NEW t \in Thread, Openable(t), NEW r \in Int PROVE Reader(t, r) \in Handle
BY Zenon DEF Reader, Openable, Handle, File, TypeInv, DiskOK, GhostsOK

LEMMA FlushInstallType == ASSUME TypeInv, NEW t \in Thread, FlushInstall(t) PROVE TypeInv'
<1>1. -(rank + 1) \in Int /\ rank + 1 \in Nat
  BY DEF TypeInv, MemoryOK
<1>2. Reader(t, -(rank + 1)) \in Handle
  BY <1>1, ReaderType, Zenon DEF FlushInstall
<1>3. levels' \in [Level -> SUBSET Handle]
  BY <1>2, Zenon DEF FlushInstall, TypeInv, MemoryOK
<1>4. MemoryOK' /\ DiskOK' /\ GhostsOK'
  BY <1>1, <1>3, Zenon DEF FlushInstall, TypeInv, MemoryOK, DiskOK, GhostsOK, disk, ghosts
<1>5. LocalsOK' /\ BatchReady'
  BY Zenon DEF FlushInstall, Goto, TypeInv, LocalsOK, BatchReady, Step, FlushSteps
<1> QED BY <1>4, <1>5, Zenon DEF TypeInv

LEMMA RotateType ==
    ASSUME TypeInv, NEW t \in Thread, RotateOpen(t) \/ RotateSwap(t) \/ RotateRemove(t)
    PROVE  TypeInv'
<1>1. GhostsOK' /\ BatchReady'
  BY Zenon DEF RotateOpen, RotateSwap, RotateRemove, Goto, TypeInv, GhostsOK, LocalsOK, BatchReady,
         locals, ghosts
<1>2. LocalsOK'
  <2>1. CASE RotateOpen(t)
    <3>1. /\ num' = [num EXCEPT ![t] = walNumber + 1] /\ Goto(t, "swap")
          /\ UNCHANGED <<call, batch, base, applied, held, task, must>>
      BY <2>1, Zenon DEF RotateOpen
    <3>2. walNumber + 1 \in Nat /\ LocalsOK
      BY DEF TypeInv, MemoryOK
    <3> QED BY <3>1, <3>2, Zenon DEF Goto, LocalsOK, Step, RotateSteps
  <2>2. CASE RotateSwap(t)
    BY <2>2, Zenon DEF RotateSwap, Goto, TypeInv, MemoryOK, LocalsOK, Step, RotateSteps
  <2>3. CASE RotateRemove(t)
    BY <2>3, Zenon DEF RotateRemove, Goto, TypeInv, LocalsOK, Step, CompactSteps, locals
  <2> QED BY <2>1, <2>2, <2>3, Zenon
<1>3. CASE RotateOpen(t)
  <2>1. walNumber + 1 \in Nat
    BY DEF TypeInv, MemoryOK
  <2>2. \A n \in DOMAIN logs' : n \in Nat /\ logs'[n] \in Seq(Op)
    BY <1>3, <2>1, EntriesType, Zenon DEF RotateOpen, TypeInv
  <2>3. MemoryOK' /\ DiskOK'
    BY <1>3, <2>1, <2>2, Zenon DEF RotateOpen, TypeInv, MemoryOK, DiskOK
  <2> QED BY <1>1, <1>2, <2>3, Zenon DEF TypeInv
<1>4. CASE RotateSwap(t)
  <2>1. walBuf' \in Seq(Op) /\ \A n \in DOMAIN logs' : n \in Nat /\ logs'[n] \in Seq(Op)
    BY <1>4, FlushBufferType, Zenon DEF RotateSwap
  <2>2. MemoryOK' /\ DiskOK'
    BY <1>4, <2>1, Zenon DEF RotateSwap, TypeInv, MemoryOK, DiskOK, LocalsOK
  <2> QED BY <1>1, <1>2, <2>2, Zenon DEF TypeInv
<1>5. CASE RotateRemove(t)
  <2>1. MemoryOK' /\ DiskOK'
    BY <1>5, Zenon DEF RotateRemove, Without, TypeInv, MemoryOK, DiskOK, memory
  <2> QED BY <1>1, <1>2, <2>1, Zenon DEF TypeInv
<1> QED BY <1>3, <1>4, <1>5, Zenon

LEMMA EndCompactType ==
    ASSUME TypeInv, NEW t \in Thread, EndCompact(t)
    PROVE  LocalsOK' /\ BatchReady' /\ acked' \subseteq Nat
<1>1. CASE Return(t, {})
  BY <1>1, ReturnType, Zenon
<1>2. CASE ~Return(t, {})
  <2>1. /\ Goto(t, "closing")
        /\ task' = [task EXCEPT ![t] = NoTask]
        /\ UNCHANGED <<call, batch, base, applied, held, num, must, acked>>
    BY <1>2, Zenon DEF EndCompact
  <2> QED BY <2>1, LevelFacts, Zenon DEF Goto, TypeInv, LocalsOK, BatchReady, GhostsOK, Step
<1> QED BY <1>1, <1>2, Zenon

LEMMA PickType == ASSUME TypeInv PROVE PickCompaction \subseteq Task
<1>1. \A l \in Level : levels[l] \subseteq Handle /\ Foremost(levels[l]) \subseteq Handle
  BY Zenon DEF TypeInv, MemoryOK, Foremost
<1>2. 0 \in 0 .. MaxLevels - 2 /\ 1 .. MaxLevels - 2 \subseteq 0 .. MaxLevels - 2
  BY ConstantsAssumption
<1>3. Oversized \subseteq 0 .. MaxLevels - 2
  BY <1>2, Zenon DEF Oversized
<1>4. [level |-> 0, inputs |-> levels[0]] \in Task
  BY <1>1, <1>2, LevelFacts, Zenon DEF Task
<1>5. ASSUME NEW l \in Oversized PROVE [level |-> l, inputs |-> Foremost(levels[l])] \in Task
  <2>1. l \in Level /\ l \in 0 .. MaxLevels - 2
    BY <1>3, LevelFacts, Zenon
  <2> QED BY <1>1, <2>1, Zenon DEF Task
<1> QED BY <1>4, <1>5, Zenon DEF PickCompaction

LEMMA CompactPickType == ASSUME TypeInv, NEW t \in Thread, CompactPick(t) PROVE TypeInv'
<1>1. MemoryOK' /\ DiskOK'
  BY Zenon DEF CompactPick, TypeInv, MemoryOK, DiskOK, memory, disk
<1>2. CASE EndCompact(t)
  BY <1>1, <1>2, EndCompactType, Zenon DEF CompactPick, TypeInv, GhostsOK
<1>3. CASE ~EndCompact(t)
  <2>1. PICK p \in PickCompaction : task' = [task EXCEPT ![t] = p]
    BY <1>3, Zenon DEF CompactPick
  <2>2. p \in Task
    BY PickType, Zenon
  <2>3. Goto(t, "ccreate") /\ UNCHANGED <<call, batch, base, applied, held, num, must, acked>>
    BY <1>3, Zenon DEF CompactPick
  <2>4. LocalsOK' /\ BatchReady'
    BY <2>1, <2>2, <2>3, Zenon DEF Goto, TypeInv, LocalsOK, BatchReady, Step, CompactSteps
  <2> QED BY <1>1, <2>3, <2>4, Zenon DEF CompactPick, TypeInv, GhostsOK
<1> QED BY <1>2, <1>3, Zenon

(* A merge yields entries of its inputs, or of files that replaced them.   *)
LEMMA WinnersType ==
    ASSUME NEW inputs, \A h \in inputs : h.data \subseteq Op
    PROVE  MergeWinners(inputs) \subseteq Op
BY Zenon DEF MergeWinners

LEMMA RewrittenType ==
    ASSUME TypeInv, NEW n PROVE Rewritten(n) \subseteq Op
<1> DEFINE builders == {u \in Thread : pc[u] \in {"build", "cmerge"} /\ num[u] = n}
           written == {{v.op : v \in held[u]} \cup UNION {g.data : g \in task[u].inputs} :
                          u \in builders}
           issued == {hist[i].op : i \in DOMAIN hist}
<1>1. n \in DOMAIN files => files[n].data \subseteq Op
  BY DEF TypeInv, DiskOK, File
<1>2. \A u \in Thread : {v.op : v \in held[u]} \subseteq Op
  BY DEF TypeInv, LocalsOK, Version
<1>3. \A u \in Thread : \A g \in task[u].inputs : g.data \subseteq Op
  BY DEF TypeInv, LocalsOK, Task, Handle
<1>4. UNION written \subseteq Op
  <2> SUFFICES ASSUME NEW w \in written, NEW o \in w PROVE o \in Op
    BY Zenon
  <2>1. PICK u \in Thread : w = {v.op : v \in held[u]} \cup UNION {g.data : g \in task[u].inputs}
    BY Zenon
  <2> QED BY <1>2, <1>3, <2>1, Zenon
<1>5. issued \subseteq Op
  <2>1. \A i \in DOMAIN hist : hist[i] \in Issued
    BY DEF TypeInv, GhostsOK
  <2>2. \A i \in DOMAIN hist : hist[i].op \in Op
    BY <2>1 DEF Issued
  <2> QED BY <2>2, Zenon
<1>6. \/ n \in DOMAIN files /\ Rewritten(n) = files[n].data
      \/ Rewritten(n) = UNION written
      \/ Rewritten(n) = issued
  BY Zenon DEF Rewritten
<1> QED BY <1>1, <1>4, <1>5, <1>6, Zenon

LEMMA MergeType ==
    ASSUME TypeInv, NEW t \in Thread
    PROVE  /\ MergeWinners(task[t].inputs) \subseteq Op
           /\ \A merged \in MergeOutcomes(t) : merged \subseteq Op
<1> DEFINE lost == {h \in task[t].inputs : Overwritten(h)}
           reads == {f \in [lost -> UNION {Contents(t, h) : h \in lost}] :
                        \A h \in lost : f[h] \in Contents(t, h)}
           Cuts(f) == {UpTo(MergeWinners(Met(task[t].inputs, f)), keys) : keys \in SUBSET Key}
<1>1. \A h \in task[t].inputs : h \in Handle /\ h.data \subseteq Op
  BY DEF TypeInv, LocalsOK, Task, Handle
<1>2. MergeWinners(task[t].inputs) \subseteq Op
  BY <1>1, WinnersType, Zenon
<1>3. \A h \in task[t].inputs : \A d \in Contents(t, h) : d \subseteq Op
  BY <1>1, RewrittenType, Zenon DEF Contents
<1>4. ASSUME NEW f \in reads, NEW merged \in Cuts(f) PROVE merged \subseteq Op
  <2>1. DOMAIN f = lost /\ \A h \in lost : f[h] \in Contents(t, h)
    BY <1>4, Zenon
  <2>2. ASSUME NEW g \in Met(task[t].inputs, f) PROVE g.data \subseteq Op
    <3>1. PICK h \in task[t].inputs : g = IF h \in DOMAIN f THEN [h EXCEPT !.data = f[h]] ELSE h
      BY <2>2, Zenon DEF Met
    <3>2. CASE h \in DOMAIN f
      <4>1. f[h] \subseteq Op
        BY <1>3, <2>1, <3>2, Zenon
      <4>2. g = [h EXCEPT !.data = f[h]]
        BY <3>1, <3>2, Zenon
      <4>3. g.data = f[h]
        BY <1>1, <4>2 DEF Handle
      <4> QED BY <4>1, <4>3, Zenon
    <3>3. CASE h \notin DOMAIN f
      BY <1>1, <3>1, <3>3, Zenon
    <3> QED BY <3>2, <3>3, Zenon
  <2>3. MergeWinners(Met(task[t].inputs, f)) \subseteq Op
    BY <2>2, WinnersType, Zenon
  <2>4. PICK keys : merged = UpTo(MergeWinners(Met(task[t].inputs, f)), keys)
    BY <1>4, Zenon
  <2> QED BY <2>3, <2>4, Zenon DEF UpTo
<1>5. \A merged \in MergeOutcomes(t) : merged \subseteq Op
  <2>1. MergeOutcomes(t) = {MergeWinners(task[t].inputs)} \/ MergeOutcomes(t) = UNION {Cuts(f) : f \in reads}
    BY Zenon DEF MergeOutcomes
  <2>2. \A merged \in UNION {Cuts(f) : f \in reads} : merged \subseteq Op
    <3> HIDE DEF Cuts, reads
    <3> QED BY <1>4, Zenon
  <2> HIDE DEF Cuts, reads
  <2> QED BY <1>2, <2>1, <2>2, Zenon
<1> QED BY <1>2, <1>5, Zenon

LEMMA MergeToType ==
    ASSUME TypeInv, NEW t \in Thread, NEW merged \in SUBSET Op, MergeTo(t, merged)
    PROVE  /\ LocalsOK' /\ BatchReady' /\ acked' \subseteq Nat /\ purged' \subseteq Op
           /\ \A n \in DOMAIN files' : n \in Nat /\ files'[n] \in File
<1> DEFINE out == MergeOutput(merged, task[t].level + 1)
<1>0. out \in SUBSET Op
  BY Zenon DEF MergeOutput
<1>1. FinishFile(num[t], out) \/ files' = Without(files, num[t])
  BY Zenon DEF MergeTo
<1>2. \A n \in DOMAIN files' : n \in Nat /\ files'[n] \in File
  BY <1>0, <1>1, FileType, Zenon
<1>3. CASE out = {}
  BY <1>2, <1>3, EndCompactType, Zenon DEF MergeTo, TypeInv, GhostsOK
<1>4. CASE out # {}
  <2>1. purged' \subseteq Op
    BY <1>4, Zenon DEF MergeTo, TypeInv, GhostsOK
  <2>2. LocalsOK' /\ BatchReady' /\ acked' \subseteq Nat
    BY <1>4, Zenon DEF MergeTo, Goto, TypeInv, LocalsOK, BatchReady, GhostsOK, Step, CompactSteps, locals
  <2> QED BY <1>2, <2>1, <2>2, Zenon
<1> QED BY <1>3, <1>4, Zenon

LEMMA CompactMergeType == ASSUME TypeInv, NEW t \in Thread, CompactMerge(t) PROVE TypeInv'
<1>1. MemoryOK'
  BY Zenon DEF CompactMerge, TypeInv, MemoryOK, memory
<1>2. PICK merged \in SUBSET Op : MergeTo(t, merged)
  <2>1. \/ \E merged \in MergeOutcomes(t) : MergeTo(t, merged)
        \/ \E keys \in SUBSET Key : MergeTo(t, UpTo(MergeWinners(task[t].inputs), keys))
    BY Zenon DEF CompactMerge
  <2>2. \A keys : UpTo(MergeWinners(task[t].inputs), keys) \subseteq Op
    BY MergeType, Zenon DEF UpTo
  <2> QED BY <2>1, <2>2, MergeType, Zenon
<1>3. faults' \in Nat
  <2>1. faults' \in {faults, faults + 1}
    BY Zenon DEF CompactMerge
  <2> QED BY <2>1 DEF TypeInv, GhostsOK
<1>4. DiskOK' /\ GhostsOK'
  BY <1>2, <1>3, MergeToType, Zenon DEF CompactMerge, TypeInv, DiskOK, GhostsOK
<1> QED BY <1>1, <1>2, <1>4, MergeToType, Zenon DEF TypeInv

LEMMA EditsType ==
    ASSUME TypeInv, NEW t \in Thread, NEW gone PROVE LoggedEdits(t, gone) \subseteq Level \X Nat
<1>1. task[t].level + 1 \in Level /\ num[t] \in Nat
  BY LevelFacts, Zenon DEF TypeInv, LocalsOK, Task
<1>2. version \subseteq Level \X Nat
  BY Zenon DEF TypeInv, DiskOK
<1>3. <<task[t].level + 1, num[t]>> \in Level \X Nat
  BY <1>1, Zenon
<1> QED BY <1>2, <1>3, Zenon DEF LoggedEdits

LEMMA CompactInstallType == ASSUME TypeInv, NEW t \in Thread, CompactInstall(t) PROVE TypeInv'
<1>1. rank + 1 \in Nat /\ rank + 1 \in Int
  BY DEF TypeInv, MemoryOK
<1>2. Reader(t, rank + 1) \in Handle
  BY <1>1, ReaderType, Zenon DEF CompactInstall
<1>3. levels' \in [Level -> SUBSET Handle]
  BY <1>2, Zenon DEF CompactInstall, TypeInv, MemoryOK
<1>4. MemoryOK' /\ GhostsOK'
  BY <1>1, <1>3, Zenon DEF CompactInstall, TypeInv, MemoryOK, GhostsOK, ghosts
<1>5. DiskOK'
  BY EditsType, Zenon DEF CompactInstall, TypeInv, DiskOK
<1>6. LocalsOK' /\ BatchReady'
  BY Zenon DEF CompactInstall, Goto, TypeInv, LocalsOK, BatchReady, Step, CompactSteps, locals
<1> QED BY <1>4, <1>5, <1>6, Zenon DEF TypeInv

LEMMA CompactDeleteType == ASSUME TypeInv, NEW t \in Thread, CompactDelete(t) PROVE TypeInv'
<1>1. PICK h \in Foremost(task[t].inputs) :
         /\ files' = Without(files, h.file)
         /\ IF task[t].inputs = {h}
            THEN EndCompact(t)
            ELSE /\ task' = [task EXCEPT ![t].inputs = @ \ {h}]
                 /\ UNCHANGED <<pc, call, batch, base, applied, held, num, must, acked>>
  BY Zenon DEF CompactDelete
<1>2. \A n \in DOMAIN files' : n \in Nat /\ files'[n] \in File
  BY <1>1, FileType, Zenon
<1>3. MemoryOK' /\ DiskOK'
  BY <1>2, Zenon DEF CompactDelete, TypeInv, MemoryOK, DiskOK, memory
<1>4. CASE EndCompact(t)
  BY <1>3, <1>4, EndCompactType, Zenon DEF CompactDelete, TypeInv, GhostsOK
<1>5. CASE ~EndCompact(t)
  <2>1. [task[t] EXCEPT !.inputs = @ \ {h}] \in Task
    BY Zenon DEF TypeInv, LocalsOK, Task
  <2>2. task' = [task EXCEPT ![t] = [task[t] EXCEPT !.inputs = @ \ {h}]]
    BY <1>1, <1>5, Zenon DEF TypeInv, LocalsOK, Task
  <2>3. LocalsOK' /\ BatchReady'
    BY <1>1, <1>5, <2>1, <2>2, Zenon DEF TypeInv, LocalsOK, BatchReady
  <2> QED BY <1>1, <1>3, <1>5, <2>3, Zenon DEF CompactDelete, TypeInv, GhostsOK
<1> QED BY <1>4, <1>5, Zenon

LEMMA CloseSyncType == ASSUME TypeInv, NEW t \in Thread, CloseSync(t) PROVE TypeInv'
<1>1. walBuf' \in Seq(Op) /\ \A n \in DOMAIN logs' : n \in Nat /\ logs'[n] \in Seq(Op)
  BY FlushBufferType, Zenon DEF CloseSync
<1>2. DiskOK'
  BY <1>1, Zenon DEF CloseSync, TypeInv, DiskOK
<1>3. CASE Return(t, {}) /\ UNCHANGED <<mode, sequence, memtable, immutable, levels, rank, nextFile,
                                        wal, walNumber>>
  <2>1. MemoryOK'
    BY <1>1, <1>3, Zenon DEF TypeInv, MemoryOK
  <2> QED BY <1>2, <1>3, <2>1, ReturnType, Zenon DEF CloseSync, TypeInv, GhostsOK
<1>4. CASE Vanish /\ UNCHANGED acked
  BY <1>2, <1>4, VanishType, Zenon DEF CloseSync, TypeInv, GhostsOK
<1> QED BY <1>3, <1>4, Zenon DEF CloseSync

LEMMA FailType == ASSUME TypeInv, NEW t \in Thread, Fail(t) PROVE TypeInv'
<1>1. faults' \in Nat /\ nextFile' \in Nat /\ walNumber' \in Nat
  <2>1. faults' \in {faults, faults + 1}
    BY Zenon DEF Fail, Faulty
  <2>2. nextFile' \in {nextFile, nextFile + 1} /\ walNumber' \in {walNumber, walNumber + 1}
    BY Zenon DEF Fail
  <2> QED BY <2>1, <2>2 DEF TypeInv, GhostsOK, MemoryOK
<1>2. walBuf' \in Seq(Op)
  <2>1. \A n \in 1 .. Len(batch[t]) : walBuf \o SubSeq(batch[t], 1, n) \in Seq(Op)
    BY DEF TypeInv, MemoryOK, LocalsOK
  <2> QED BY <2>1, Zenon DEF Fail, TypeInv, MemoryOK
<1>3. version' \subseteq Level \X Nat
  BY EditsType, Zenon DEF Fail, TypeInv, DiskOK
<1>4. MemoryOK' /\ DiskOK'
  BY <1>1, <1>2, <1>3, Zenon DEF Fail, TypeInv, MemoryOK, DiskOK
<1>5. CASE Return(t, {})
  BY <1>1, <1>4, <1>5, ReturnType, Zenon DEF Fail, TypeInv, GhostsOK
<1>6. CASE ~Return(t, {})
  <2>1. /\ Goto(t, "closing")
        /\ held' = [held EXCEPT ![t] = {}]
        /\ task' = [task EXCEPT ![t] = NoTask]
        /\ UNCHANGED <<call, batch, base, applied, num, must, acked>>
    BY <1>6, Zenon DEF Fail
  <2>2. LocalsOK' /\ BatchReady'
    BY <2>1, LevelFacts, Zenon DEF Goto, TypeInv, LocalsOK, BatchReady, Step
  <2> QED BY <1>1, <1>4, <2>1, <2>2, Zenon DEF Fail, TypeInv, GhostsOK
<1> QED BY <1>5, <1>6, Zenon

LEMMA TypeStep == ASSUME TypeInv, [Next]_vars PROVE TypeInv'
<1>1. ASSUME NEW t \in Thread, ThreadNext(t) PROVE TypeInv'
  BY <1>1, WritesType, LogType, ApplyType, CheckSizeType, FreezeType, BeginFlushType,
     FlushTakeType, CreateType, FlushBuildType, FlushInstallType, RotateType, CompactPickType,
     CompactMergeType, CompactInstallType, CompactDeleteType, CloseSyncType, FailType, Zenon
  DEF ThreadNext
<1>2. CASE UNCHANGED vars
  BY <1>2, Zenon DEF vars, memory, disk, locals, ghosts, TypeInv, MemoryOK, DiskOK, LocalsOK, GhostsOK,
              BatchReady
<1> QED BY <1>1, <1>2, OpenType, CrashType, SpillType, Zenon DEF Next, Rest

LEMMA TypeInvariant == Spec => []TypeInv
BY TypeInit, TypeStep, PTL DEF Spec

(* Every state of the engine is well typed, for every set of threads and   *)
(* every value of the bounds.                                              *)
THEOREM EngineTypeCorrect == Spec => []TypeOK
BY TypeInvariant, TypeInvTypeOK, PTL

(***************************************************************************)
(* Sequence numbers are unique, for every number of concurrent writers and *)
(* flushers, and across crashes and sessions.                              *)
(***************************************************************************)
PendingSteps == {"log", "sync", "apply"}

(* The numbers of a pending write have already been drawn.                 *)
PendingDrawn ==
    \A t \in Thread : pc[t] \in PendingSteps => base[t] + Len(batch[t]) <= sequence + 1

(* Without a DB object there is nothing in memory and no call in progress. *)
DownEmpty ==
    mode = "down" =>
        /\ memtable = {} /\ immutable = <<>>
        /\ \A t \in Thread : pc[t] = "idle" /\ held[t] = {}

SeqInv == TypeInv /\ SeqUnique /\ PendingDrawn /\ DownEmpty

LEMMA SeqInit == Init => SeqInv
<1> SUFFICES ASSUME Init PROVE SeqInv
  BY Zenon
<1>1. MemoryVersions = {} /\ \A t \in Thread : PendingSeqs(t) = {}
  BY DEF Init, MemoryVersions, PendingSeqs
<1> QED BY <1>1, TypeInit, Zenon DEF Init, SeqInv, SeqUnique, PendingDrawn, PendingSteps, DownEmpty

(* Membership in MemoryVersions, spelled out.                              *)
LEMMA InMemoryVersions ==
    \A v : v \in MemoryVersions <=>
        \/ v \in memtable
        \/ \E i \in DOMAIN immutable : v \in immutable[i]
        \/ \E t \in Thread : v \in held[t]
BY Zenon DEF MemoryVersions

LEMMA InMemoryVersionsNext ==
    \A v : v \in MemoryVersions' <=>
        \/ v \in memtable'
        \/ \E i \in DOMAIN immutable' : v \in immutable'[i]
        \/ \E t \in Thread : v \in held'[t]
BY Zenon DEF MemoryVersions

LEMMA VersionsTyped == ASSUME TypeInv PROVE MemoryVersions \subseteq Version
<1>1. \A i \in DOMAIN immutable : immutable[i] \in SUBSET Version
  BY DEF TypeInv, MemoryOK
<1> QED BY <1>1, InMemoryVersions, Zenon DEF TypeInv, MemoryOK, LocalsOK

(* A thread is in a call, or begins one, only while the database is open.  *)
LEMMA ThreadUp ==
    ASSUME TypeInv, DownEmpty, NEW t \in Thread, ThreadNext(t) PROVE mode = "up"
<1>1. CASE pc[t] # "idle"
  BY <1>1, Zenon DEF TypeInv, MemoryOK, DownEmpty
<1>2. CASE pc[t] = "idle"
  BY <1>2, Zenon DEF ThreadNext, Put, Delete, Write, BeginWrite, MayWrite, AppendLog, SyncLog, Apply,
     CheckSize, Freeze, Flush, Close, Drop, BeginFlush, MayFlush, FlushTake, FlushCreate,
     FlushBuild, FlushInstall, RotateOpen, RotateSwap, RotateRemove, Compact, CompactPick,
     CompactCreate, CompactMerge, CompactInstall, CompactDelete, CloseSync, Fail, FaultSteps
<1> QED BY <1>1, <1>2, Zenon

(* A step that inserts nothing: MemTables only go, and a pending write     *)
(* stays as it is or ends.                                                 *)
Calm ==
    /\ UNCHANGED <<sequence, memtable, immutable>>
    /\ \A u \in Thread : held'[u] \subseteq held[u]
    /\ \A u \in Thread : pc'[u] \in PendingSteps =>
          /\ pc[u] \in PendingSteps
          /\ base'[u] = base[u] /\ applied'[u] = applied[u] /\ batch'[u] = batch[u]

LEMMA ShrinkKeeps ==
    ASSUME SeqUnique, MemoryVersions' \subseteq MemoryVersions, sequence' = sequence,
           \A t \in Thread : PendingSeqs(t)' \subseteq PendingSeqs(t)
    PROVE  SeqUnique'
BY Zenon DEF SeqUnique

LEMMA CalmKeeps == ASSUME SeqInv, Calm PROVE SeqUnique' /\ PendingDrawn'
<1>1. MemoryVersions' \subseteq MemoryVersions
  BY InMemoryVersions, InMemoryVersionsNext, Zenon DEF Calm
<1>2. \A t \in Thread : PendingSeqs(t)' \subseteq PendingSeqs(t)
  BY Zenon DEF Calm, PendingSeqs, PendingSteps
<1>3. PendingDrawn'
  BY Zenon DEF Calm, SeqInv, PendingDrawn
<1> QED BY <1>1, <1>2, <1>3, ShrinkKeeps, Zenon DEF SeqInv, Calm

(* The end of a call is calm.                                              *)
LEMMA ReturnCalm ==
    ASSUME TypeInv, NEW t \in Thread, NEW ids, Return(t, ids),
           UNCHANGED <<sequence, memtable, immutable>>
    PROVE  Calm
BY Zenon DEF Return, Goto, Calm, PendingSteps, TypeInv, LocalsOK

LEMMA EndCompactCalm ==
    ASSUME TypeInv, NEW t \in Thread, EndCompact(t), UNCHANGED <<sequence, memtable, immutable>>
    PROVE  Calm
<1>1. CASE Return(t, {})
  BY <1>1, ReturnCalm, Zenon
<1>2. CASE ~Return(t, {})
  BY <1>2, Zenon DEF EndCompact, Goto, Calm, PendingSteps, TypeInv, LocalsOK
<1> QED BY <1>1, <1>2, Zenon

(* Every step of a thread that inserts nothing and moves no MemTable.      *)
LEMMA CalmSteps ==
    ASSUME TypeInv, NEW t \in Thread,
           \/ AppendLog(t) \/ SyncLog(t) \/ CheckSize(t) \/ Flush(t) \/ Close(t) \/ Drop(t)
           \/ FlushCreate(t) \/ FlushBuild(t) \/ FlushInstall(t)
           \/ RotateOpen(t) \/ RotateSwap(t) \/ RotateRemove(t)
           \/ Compact(t) \/ CompactPick(t) \/ CompactCreate(t) \/ CompactMerge(t)
           \/ CompactInstall(t) \/ CompactDelete(t) \/ Fail(t)
    PROVE  Calm
<1> USE DEF Goto, PendingSteps, TypeInv, LocalsOK, memory, locals
<1>1. CASE AppendLog(t) \/ SyncLog(t)
  BY <1>1, Zenon DEF AppendLog, SyncLog, Calm
<1>2. CASE CheckSize(t)
  <2>1. CASE Return(t, Ids(batch[t]))
    BY <1>2, <2>1, ReturnCalm, Zenon DEF CheckSize
  <2>2. CASE ~Return(t, Ids(batch[t]))
    BY <1>2, <2>2, Zenon DEF CheckSize, Calm
  <2> QED BY <2>1, <2>2, Zenon
<1>3. CASE Flush(t) \/ Close(t) \/ Drop(t) \/ Compact(t)
  BY <1>3, Zenon DEF Flush, Close, Drop, BeginFlush, Compact, Calm
<1>4. CASE FlushCreate(t) \/ CompactCreate(t)
  BY <1>4, Zenon DEF FlushCreate, CompactCreate, Calm
<1>5. CASE FlushBuild(t) \/ FlushInstall(t)
  BY <1>5, Zenon DEF FlushBuild, FlushInstall, Calm
<1>6. CASE RotateOpen(t) \/ RotateSwap(t) \/ RotateRemove(t)
  BY <1>6, Zenon DEF RotateOpen, RotateSwap, RotateRemove, Calm
<1>7. CASE CompactPick(t)
  <2>1. CASE EndCompact(t)
    BY <1>7, <2>1, EndCompactCalm, Zenon DEF CompactPick
  <2>2. CASE ~EndCompact(t)
    BY <1>7, <2>2, Zenon DEF CompactPick, Calm
  <2> QED BY <2>1, <2>2, Zenon
<1>8. CASE CompactMerge(t)
  <2>1. CASE EndCompact(t)
    BY <1>8, <2>1, EndCompactCalm, Zenon DEF CompactMerge
  <2>2. CASE ~EndCompact(t)
    BY <1>8, <2>2, Zenon DEF CompactMerge, MergeTo, Calm
  <2> QED BY <2>1, <2>2, Zenon
<1>9. CASE CompactInstall(t)
  BY <1>9, Zenon DEF CompactInstall, Calm
<1>10. CASE CompactDelete(t)
  <2>1. CASE EndCompact(t)
    BY <1>10, <2>1, EndCompactCalm, Zenon DEF CompactDelete
  <2>2. CASE ~EndCompact(t)
    BY <1>10, <2>2, Zenon DEF CompactDelete, Calm
  <2> QED BY <2>1, <2>2, Zenon
<1>11. CASE Fail(t)
  <2>1. CASE Return(t, {})
    BY <1>11, <2>1, ReturnCalm, Zenon DEF Fail
  <2>2. CASE ~Return(t, {})
    BY <1>11, <2>2, Zenon DEF Fail, Calm
  <2> QED BY <2>1, <2>2, Zenon
<1> QED BY <1>1, <1>2, <1>3, <1>4, <1>5, <1>6, <1>7, <1>8, <1>9, <1>10, <1>11, Zenon

LEMMA SeqFacts ==
    ASSUME SeqInv
    PROVE  /\ sequence \in Nat /\ SeqUnique /\ PendingDrawn /\ TypeInv
           /\ \A u \in Thread : base[u] \in Nat /\ applied[u] \in Nat /\ Len(batch[u]) \in Nat
BY DEF SeqInv, TypeInv, MemoryOK, LocalsOK

(* fetch_add draws fresh numbers.                                          *)
LEMMA BeginWriteSeq ==
    ASSUME SeqInv, TypeInv', NEW t \in Thread, NEW c, NEW items, Len(items) \in Nat,
           BeginWrite(t, c, items)
    PROVE  SeqUnique' /\ PendingDrawn'
<1>0. /\ sequence \in Nat /\ SeqUnique /\ PendingDrawn /\ TypeInv
      /\ \A u \in Thread : base[u] \in Nat /\ applied[u] \in Nat /\ Len(batch[u]) \in Nat
  BY SeqFacts, Zenon
<1>1. /\ pc[t] = "idle" /\ applied[t] = 0
      /\ base'[t] = sequence + 1 /\ sequence' = sequence + Len(items)
      /\ applied' = applied
      /\ \A u \in Thread \ {t} : batch'[u] = batch[u] /\ pc'[u] = pc[u] /\ base'[u] = base[u]
  <2>1. pc[t] = "idle" /\ applied[t] = 0
    BY <1>0, Zenon DEF BeginWrite, MayWrite, TypeInv, BatchReady
  <2> QED BY <1>0, <2>1, Zenon DEF BeginWrite, Goto, TypeInv, LocalsOK
<1>2. Len(batch'[t]) = Len(items)
  BY <1>0 DEF BeginWrite, TypeInv, LocalsOK
<1>3. MemoryVersions' = MemoryVersions
  BY Zenon DEF BeginWrite, MemoryVersions
<1>4. \A u \in Thread \ {t} : PendingSeqs(u)' = PendingSeqs(u)
  BY <1>1, Zenon DEF PendingSeqs
<1>5. \A s \in PendingSeqs(t)' : s \in Int /\ s > sequence
  BY <1>0, <1>1, <1>2 DEF PendingSeqs
<1>6. \A u \in Thread : \A s \in PendingSeqs(u) : s \in Int /\ s <= sequence
  BY <1>0 DEF PendingSeqs, PendingDrawn, PendingSteps
<1>7. \A v \in MemoryVersions : v.seq \in Nat /\ v.seq <= sequence
  BY <1>0, VersionsTyped, Zenon DEF SeqUnique, Version
<1>8. SeqUnique'
  <2>1. \A v \in MemoryVersions' : v.seq <= sequence'
    <3>1. sequence <= sequence' /\ sequence \in Nat /\ sequence' \in Nat
      BY <1>0, <1>1
    <3> QED BY <1>3, <1>7, <3>1
  <2>2. \A u \in Thread : \A v \in MemoryVersions' : v.seq \notin PendingSeqs(u)'
    BY <1>0, <1>3, <1>4, <1>5, <1>7 DEF SeqUnique
  <2>3. \A u, w \in Thread : u # w => PendingSeqs(u)' \cap PendingSeqs(w)' = {}
    <3> SUFFICES ASSUME NEW u \in Thread, NEW w \in Thread, u # w,
                        NEW x \in PendingSeqs(u)', x \in PendingSeqs(w)'
                 PROVE  FALSE
      BY Zenon
    <3>1. CASE u = t
      BY <1>0, <1>4, <1>5, <1>6, <3>1
    <3>2. CASE w = t
      BY <1>0, <1>4, <1>5, <1>6, <3>2
    <3>3. CASE u # t /\ w # t
      BY <1>0, <1>4, <3>3 DEF SeqUnique
    <3> QED BY <3>1, <3>2, <3>3, Zenon
  <2> QED BY <1>0, <1>3, <2>1, <2>2, <2>3, Zenon DEF SeqUnique
<1>9. PendingDrawn'
  BY <1>0, <1>1, <1>2 DEF PendingDrawn, PendingSteps
<1> QED BY <1>8, <1>9, Zenon

LEMMA WriteSeq ==
    ASSUME SeqInv, TypeInv', NEW t \in Thread, Put(t) \/ Delete(t) \/ Write(t)
    PROVE  SeqUnique' /\ PendingDrawn'
<1>1. CASE Put(t) \/ Delete(t)
  <2>1. PICK c, x : BeginWrite(t, c, <<x>>)
    BY <1>1, Zenon DEF Put, Delete
  <2>2. Len(<<x>>) \in Nat
    BY Zenon
  <2> QED BY <2>1, <2>2, BeginWriteSeq, Zenon
<1>2. CASE Write(t)
  <2>1. PICK n \in 1 .. MaxBatch : \E items \in [1 .. n -> [key : Key, kind : Kinds]] :
              BeginWrite(t, "write", items)
    BY <1>2, Zenon DEF Write
  <2>2. PICK items \in [1 .. n -> [key : Key, kind : Kinds]] : BeginWrite(t, "write", items)
    BY <2>1, Zenon
  <2>3. Len(items) \in Nat
    BY ConstantsAssumption
  <2> QED BY <2>2, <2>3, BeginWriteSeq, Zenon
<1> QED BY <1>1, <1>2, Zenon

(* One number of the batch passes from pending to the MemTable.            *)
LEMMA ApplySeq ==
    ASSUME SeqInv, NEW t \in Thread, Apply(t) PROVE SeqUnique' /\ PendingDrawn'
<1> DEFINE s0 == base[t] + applied[t]
           v0 == [op |-> batch[t][applied[t] + 1], seq |-> s0]
<1>0. /\ sequence \in Nat /\ SeqUnique /\ PendingDrawn /\ TypeInv
      /\ \A u \in Thread : base[u] \in Nat /\ applied[u] \in Nat /\ Len(batch[u]) \in Nat
  BY SeqFacts, Zenon
<1>1. /\ pc[t] = "apply" /\ applied[t] < Len(batch[t]) /\ base[t] + Len(batch[t]) <= sequence + 1
      /\ memtable' = memtable \cup {v0} /\ immutable' = immutable /\ sequence' = sequence
  <2>1. /\ pc[t] = "apply"
        /\ memtable' = memtable \cup {v0} /\ immutable' = immutable /\ sequence' = sequence
    BY Zenon DEF Apply
  <2> QED BY <1>0, <2>1, Zenon DEF TypeInv, BatchReady, PendingDrawn, PendingSteps
<1>2. s0 \in Nat /\ s0 <= sequence /\ s0 \in PendingSeqs(t) /\ v0.seq = s0
  <2>1. base[t] \in Nat /\ applied[t] \in Nat /\ Len(batch[t]) \in Nat
    BY <1>0, Zenon
  <2>2. s0 \in Nat /\ s0 <= sequence /\ s0 \in s0 .. base[t] + Len(batch[t]) - 1
    BY <1>0, <1>1, <2>1
  <2> QED BY <1>1, <2>2, Zenon DEF PendingSeqs
<1>3. /\ \A u \in Thread : held'[u] \subseteq held[u]
      /\ \A u \in Thread \ {t} :
            pc'[u] = pc[u] /\ base'[u] = base[u] /\ applied'[u] = applied[u] /\ batch'[u] = batch[u]
      /\ pc'[t] \in PendingSteps =>
            base'[t] = base[t] /\ applied'[t] = applied[t] + 1 /\ batch'[t] = batch[t]
  <2>1. CASE Return(t, Ids(batch[t]))
    BY <1>0, <2>1, Zenon DEF Return, Goto, TypeInv, LocalsOK, PendingSteps
  <2>2. CASE ~Return(t, Ids(batch[t]))
    BY <1>0, <2>2, Zenon DEF Apply, Goto, TypeInv, LocalsOK
  <2> QED BY <2>1, <2>2, Zenon
<1> HIDE DEF v0, s0
<1>4. MemoryVersions' \subseteq MemoryVersions \cup {v0}
  BY <1>1, <1>3, InMemoryVersions, InMemoryVersionsNext, Zenon
<1>5. \A u \in Thread : PendingSeqs(u)' \subseteq PendingSeqs(u)
  <2>1. ASSUME NEW u \in Thread, u # t PROVE PendingSeqs(u)' \subseteq PendingSeqs(u)
    BY <1>3, <2>1, Zenon DEF PendingSeqs
  <2>2. PendingSeqs(t)' \subseteq PendingSeqs(t)
    <3>1. CASE pc'[t] \in PendingSteps
      <4>1. /\ PendingSeqs(t)' = base[t] + (applied[t] + 1) .. base[t] + Len(batch[t]) - 1
            /\ PendingSeqs(t) = base[t] + applied[t] .. base[t] + Len(batch[t]) - 1
        BY <1>1, <1>3, <3>1, Zenon DEF PendingSeqs, PendingSteps
      <4> QED BY <1>0, <4>1
    <3>2. CASE pc'[t] \notin PendingSteps
      BY <3>2, Zenon DEF PendingSeqs, PendingSteps
    <3> QED BY <3>1, <3>2, Zenon
  <2> QED BY <2>1, <2>2, Zenon
<1>6. s0 \notin PendingSeqs(t)'
  BY <1>0, <1>3 DEF PendingSeqs, PendingSteps, s0
<1>7. \A v \in MemoryVersions : v.seq # s0
  BY <1>0, <1>2, Zenon DEF SeqUnique
<1>8. \A u \in Thread \ {t} : s0 \notin PendingSeqs(u)
  BY <1>0, <1>2, Zenon DEF SeqUnique
<1>9. SeqUnique'
  <2>1. \A v, w \in MemoryVersions' : v.seq = w.seq => v = w
    BY <1>0, <1>2, <1>4, <1>7, Zenon DEF SeqUnique
  <2>2. \A v \in MemoryVersions' : v.seq <= sequence'
    BY <1>0, <1>1, <1>2, <1>4, Zenon DEF SeqUnique
  <2>3. \A u \in Thread : \A v \in MemoryVersions' : v.seq \notin PendingSeqs(u)'
    BY <1>0, <1>2, <1>4, <1>5, <1>6, <1>8, Zenon DEF SeqUnique
  <2>4. \A u, w \in Thread : u # w => PendingSeqs(u)' \cap PendingSeqs(w)' = {}
    BY <1>0, <1>5, Zenon DEF SeqUnique
  <2> QED BY <2>1, <2>2, <2>3, <2>4, Zenon DEF SeqUnique
<1>10. PendingDrawn'
  BY <1>0, <1>1, <1>3, Zenon DEF PendingDrawn, PendingSteps
<1> QED BY <1>9, <1>10, Zenon

(* A MemTable that is frozen or taken for flushing is only renamed.        *)
LEMMA RenameKeeps ==
    ASSUME TypeInv, NEW t \in Thread, Freeze(t) \/ FlushTake(t)
    PROVE  /\ MemoryVersions' \subseteq MemoryVersions
           /\ \A u \in Thread : pc'[u] \in PendingSteps =>
                 /\ pc'[u] = pc[u]
                 /\ base'[u] = base[u] /\ applied'[u] = applied[u] /\ batch'[u] = batch[u]
<1>0. immutable \in Seq(SUBSET Version) /\ memtable \in SUBSET Version
  BY Zenon DEF TypeInv, MemoryOK
<1>1. CASE Freeze(t)
  <2>1. /\ \A u \in Thread : held'[u] \subseteq held[u]
        /\ \A u \in Thread : pc'[u] \in PendingSteps =>
              /\ pc'[u] = pc[u]
              /\ base'[u] = base[u] /\ applied'[u] = applied[u] /\ batch'[u] = batch[u]
    <3>1. CASE Return(t, Ids(batch[t]))
      BY <3>1, Zenon DEF Return, Goto, TypeInv, LocalsOK, PendingSteps
    <3>2. CASE ~Return(t, Ids(batch[t]))
      BY <1>1, <3>2, Zenon DEF Freeze, Goto, TypeInv, LocalsOK, PendingSteps, locals
    <3> QED BY <3>1, <3>2, Zenon
  <2>2. \A i \in DOMAIN immutable' :
            immutable'[i] = memtable \/ \E j \in DOMAIN immutable : immutable'[i] = immutable[j]
    <3>1. immutable' = Append(immutable, memtable)
      BY <1>1, Zenon DEF Freeze
    <3> QED BY <1>0, <3>1
  <2>3. MemoryVersions' \subseteq MemoryVersions
    <3>1. memtable' = {}
      BY <1>1, Zenon DEF Freeze
    <3>2. \A v \in MemoryVersions' :
              \/ v \in memtable
              \/ \E i \in DOMAIN immutable : v \in immutable[i]
              \/ \E u \in Thread : v \in held[u]
      BY <2>1, <2>2, <3>1, InMemoryVersionsNext
    <3> QED BY <3>2, InMemoryVersions, Zenon
  <2> QED BY <2>1, <2>3, Zenon
<1>2. CASE FlushTake(t)
  <2>1. /\ \A u \in Thread : pc'[u] \in PendingSteps =>
              /\ pc'[u] = pc[u]
              /\ base'[u] = base[u] /\ applied'[u] = applied[u] /\ batch'[u] = batch[u]
        /\ memtable' = memtable
    BY <1>2, Zenon DEF FlushTake, Goto, TypeInv, LocalsOK, PendingSteps
  <2>2. \A u \in Thread : held'[u] = held[u] \/ \E j \in DOMAIN immutable : held'[u] = immutable[j]
    BY <1>0, <1>2 DEF FlushTake, TypeInv, LocalsOK
  <2>3. \A i \in DOMAIN immutable' : \E j \in DOMAIN immutable : immutable'[i] = immutable[j]
    BY <1>0, <1>2 DEF FlushTake
  <2>4. MemoryVersions' \subseteq MemoryVersions
    BY <2>1, <2>2, <2>3, InMemoryVersions, InMemoryVersionsNext
  <2> QED BY <2>1, <2>4, Zenon
<1> QED BY <1>1, <1>2, Zenon

LEMMA RenameSeq ==
    ASSUME SeqInv, NEW t \in Thread, Freeze(t) \/ FlushTake(t) PROVE SeqUnique' /\ PendingDrawn'
<1>0. SeqUnique /\ PendingDrawn /\ TypeInv /\ sequence' = sequence
  BY Zenon DEF SeqInv, Freeze, FlushTake
<1>1. /\ MemoryVersions' \subseteq MemoryVersions
      /\ \A u \in Thread : pc'[u] \in PendingSteps =>
            /\ pc'[u] = pc[u]
            /\ base'[u] = base[u] /\ applied'[u] = applied[u] /\ batch'[u] = batch[u]
  BY <1>0, RenameKeeps, Zenon
<1>2. \A u \in Thread : PendingSeqs(u)' \subseteq PendingSeqs(u)
  BY <1>1, Zenon DEF PendingSeqs, PendingSteps
<1>3. PendingDrawn'
  BY <1>0, <1>1, Zenon DEF PendingDrawn
<1> QED BY <1>0, <1>1, <1>2, <1>3, ShrinkKeeps, Zenon

(* Replay numbers the entries of the log 1, 2, ...                         *)
LEMMA OpenSeq == ASSUME SeqInv, Open PROVE SeqUnique' /\ PendingDrawn'
<1>1. PICK n \in LatestLogs : sequence' = Len(Entries(n)) /\ memtable' = Replay(Entries(n))
  BY Zenon DEF Open
<1>2. n \in Nat /\ Entries(n) \in Seq(Op)
  <2>1. DiskOK
    BY Zenon DEF SeqInv, TypeInv
  <2>2. n \in Nat
    BY <1>1, <2>1 DEF DiskOK, LatestLogs
  <2> QED BY <2>1, <2>2, EntriesType, Zenon
<1>3. immutable' = <<>> /\ \A t \in Thread : pc'[t] = "idle" /\ held'[t] = {}
  BY Zenon DEF Open, SeqInv, DownEmpty, locals
<1>4. MemoryVersions' \subseteq Replay(Entries(n))
  BY <1>1, <1>3, InMemoryVersionsNext
<1>5. \A t \in Thread : PendingSeqs(t)' = {}
  BY <1>3, Zenon DEF PendingSeqs
<1>6. \A v \in Replay(Entries(n)) :
          /\ v.seq \in DOMAIN Entries(n) /\ v = [op |-> Entries(n)[v.seq], seq |-> v.seq]
          /\ v.seq <= Len(Entries(n))
  BY <1>2 DEF Replay
<1>7. SeqUnique'
  BY <1>1, <1>4, <1>5, <1>6, Zenon DEF SeqUnique
<1>8. PendingDrawn'
  BY <1>3, Zenon DEF PendingDrawn, PendingSteps
<1> QED BY <1>7, <1>8, Zenon

LEMMA VanishSeq == ASSUME Vanish PROVE SeqUnique' /\ PendingDrawn' /\ DownEmpty'
<1>1. immutable' = <<>> /\ memtable' = {} /\ \A t \in Thread : pc'[t] = "idle" /\ held'[t] = {}
  BY Zenon DEF Vanish
<1>2. MemoryVersions' = {} /\ \A t \in Thread : PendingSeqs(t)' = {}
  BY <1>1, InMemoryVersionsNext DEF PendingSeqs
<1> QED BY <1>1, <1>2, Zenon DEF SeqUnique, PendingDrawn, PendingSteps, DownEmpty

LEMMA ThreadSeq ==
    ASSUME SeqInv, TypeInv', NEW t \in Thread, ThreadNext(t)
    PROVE  SeqUnique' /\ PendingDrawn' /\ DownEmpty'
<1>1. CASE CloseSync(t)
  <2>1. CASE Vanish
    BY <2>1, VanishSeq, Zenon
  <2>2. CASE ~Vanish
    <3>1. Return(t, {}) /\ UNCHANGED <<mode, sequence, memtable, immutable>>
      BY <1>1, <2>2, Zenon DEF CloseSync
    <3>2. Calm
      BY <3>1, ReturnCalm, Zenon DEF SeqInv
    <3>3. mode' = "up"
      BY <3>1, ThreadUp, Zenon DEF SeqInv
    <3> QED BY <3>2, <3>3, CalmKeeps, Zenon DEF DownEmpty
  <2> QED BY <2>1, <2>2, Zenon
<1>2. CASE ~CloseSync(t)
  <2>1. SeqUnique' /\ PendingDrawn'
    BY <1>2, WriteSeq, ApplySeq, RenameSeq, CalmSteps, CalmKeeps, Zenon
    DEF ThreadNext, SeqInv
  <2>2. mode = "up"
    BY ThreadUp, Zenon DEF SeqInv
  <2>3. mode' = mode
    BY <1>2, Zenon DEF ThreadNext, Put, Delete, Write, BeginWrite, AppendLog, SyncLog, Apply,
     CheckSize, Freeze, Flush, Close, Drop, BeginFlush, FlushTake, FlushCreate,
     FlushBuild, FlushInstall, RotateOpen, RotateSwap, RotateRemove, Compact, CompactPick,
     CompactCreate, CompactMerge, CompactInstall, CompactDelete, Fail
  <2> QED BY <2>1, <2>2, <2>3, Zenon DEF DownEmpty
<1> QED BY <1>1, <1>2, Zenon

LEMMA SeqStep == ASSUME SeqInv, [Next]_vars PROVE SeqInv'
<1>0. TypeInv'
  BY TypeStep, Zenon DEF SeqInv
<1>1. ASSUME NEW t \in Thread, ThreadNext(t) PROVE SeqInv'
  BY <1>0, <1>1, ThreadSeq, Zenon DEF SeqInv
<1>2. CASE Open
  BY <1>0, <1>2, OpenSeq, Zenon DEF Open, SeqInv, DownEmpty
<1>3. CASE Crash
  BY <1>0, <1>3, VanishSeq, Zenon DEF Crash, SeqInv
<1>4. CASE Spill \/ UNCHANGED vars
  <2>1. Calm /\ UNCHANGED <<mode, pc, memtable, immutable, held>>
    BY <1>4, Zenon DEF Spill, Calm, vars, memory, locals
  <2> QED BY <1>0, <2>1, CalmKeeps, Zenon DEF SeqInv, DownEmpty
<1> QED BY <1>1, <1>2, <1>3, <1>4, Zenon DEF Next, Rest

LEMMA SeqInvariant == Spec => []SeqInv
<1>1. Init => SeqInv
  BY SeqInit, Zenon
<1> QED BY <1>1, SeqStep, PTL DEF Spec

(* No two versions in memory and no pending write share a sequence number, *)
(* for every number of writers, flushers, crashes and faults: the order    *)
(* that the skip list keeps is total.                                      *)
THEOREM SequenceNumbersUnique == Spec => []SeqUnique
BY SeqInvariant, PTL DEF SeqInv

(***************************************************************************)
(* Calls: where a thread is, and who runs beside a flush.                  *)
(***************************************************************************)
Holding == {"create", "build", "install"}

(* Where a thread is tells which call it runs.                             *)
CallsMatch ==
    \A t \in Thread :
        /\ pc[t] = "idle" <=> call[t] = "none"
        /\ pc[t] \in {"log", "sync", "apply", "check"} => call[t] \in Writing
        /\ pc[t] \in {"take", "closing"} \cup Holding \cup RotateSteps => call[t] \in Flushing
        /\ pc[t] \in CompactSteps => call[t] \in Flushing \cup {"compact"}

(* A flush or a compaction has the database to itself.                     *)
Exclusive ==
    \A t, u \in Thread : call[t] \in Flushing \cup {"compact"} /\ u # t => pc[u] = "idle"

(* Flushes and compactions do not overlap: the clients run them beside no  *)
(* other call, or a single thread runs them.                               *)
OneFlusher == ExclusiveFlush \/ \A s, t \in Flushers : s = t

Flushes == Flushing \cup {"compact"}

(* At most one thread is in a flush or a compaction.                       *)
OneFlush == \A t, u \in Thread : call[t] \in Flushes /\ call[u] \in Flushes => t = u

CallInv ==
    /\ CallsMatch
    /\ ExclusiveFlush => Exclusive
    /\ \A t \in Thread : call[t] \in Flushes => t \in Flushers

(* The history names every operation by its place, and what had returned   *)
(* before an operation was called came earlier.                            *)
HistOK ==
    /\ \A i \in DOMAIN hist : /\ hist[i].op.id = i
                              /\ hist[i].after \subseteq acked
                              /\ \A j \in hist[i].after : j < i
    /\ acked \subseteq DOMAIN hist

(* The operations of a call in progress are in the history, have not       *)
(* returned and belong to no other call.                                   *)
BatchOK ==
    /\ \A t \in Thread : \A j \in DOMAIN batch[t] :
          /\ batch[t][j].id \in DOMAIN hist /\ batch[t][j].id \notin acked
          /\ hist[batch[t][j].id].op = batch[t][j]
    /\ \A t, u \in Thread : \A j \in DOMAIN batch[t], m \in DOMAIN batch[u] :
          batch[t][j].id = batch[u][m].id => t = u /\ j = m
    /\ \A t \in Thread :
          /\ applied[t] <= Len(batch[t])
          /\ pc[t] = "check" \/ (pc[t] = "freeze" /\ call[t] \notin Flushing)
                => applied[t] = Len(batch[t])

(* In the first session the sequence number of an operation is its place   *)
(* in the history.                                                         *)
Numbered ==
    /\ sequence = Len(hist)
    /\ \A t \in Thread : \A j \in DOMAIN batch[t] : base[t] + j = batch[t][j].id + 1
    /\ \A v \in MemoryVersions :
          v.seq = v.op.id /\ v.op.id \in DOMAIN hist /\ hist[v.op.id].op = v.op

(* CallsMatch and Exclusive: a call begins only when ExclusiveFlush allows *)
(* it, and ends by returning.                                              *)
LEMMA ReturnCalls ==
    ASSUME TypeInv, CallsMatch, NEW t \in Thread, NEW ids, Return(t, ids)
    PROVE  CallsMatch' /\ (ExclusiveFlush /\ Exclusive => Exclusive')
BY DEF Return, Goto, CallsMatch, Exclusive, TypeInv, LocalsOK, Writing, Flushing, Holding,
       RotateSteps, CompactSteps

(* A step inside a call that goes on keeps the call.                       *)
LEMMA GoOnCalls ==
    ASSUME TypeInv, CallsMatch, NEW t \in Thread, NEW s, Goto(t, s), UNCHANGED call,
           pc[t] # "idle", s # "idle",
           s \in {"log", "sync", "apply", "check"} => call[t] \in Writing,
           s \in {"take", "closing"} \cup Holding \cup RotateSteps => call[t] \in Flushing,
           s \in CompactSteps => call[t] \in Flushing \cup {"compact"}
    PROVE  CallsMatch' /\ (ExclusiveFlush /\ Exclusive => Exclusive')
<1>1. pc'[t] = s /\ \A u \in Thread \ {t} : pc'[u] = pc[u]
  BY Zenon DEF Goto, TypeInv, LocalsOK
<1>2. CallsMatch'
  BY <1>1, Zenon DEF CallsMatch
<1>3. Exclusive => Exclusive'
  BY <1>1, Zenon DEF Exclusive
<1> QED BY <1>2, <1>3, Zenon

LEMMA BeginCalls ==
    ASSUME TypeInv, CallsMatch, NEW t \in Thread,
           Put(t) \/ Delete(t) \/ Write(t) \/ Flush(t) \/ Close(t) \/ Drop(t) \/ Compact(t)
    PROVE  CallsMatch' /\ (ExclusiveFlush /\ Exclusive => Exclusive')
<1> USE DEF Goto, TypeInv, LocalsOK
<1>1. CASE Put(t) \/ Delete(t) \/ Write(t)
  <2>1. PICK c \in Writing : \E items : BeginWrite(t, c, items)
    BY <1>1, Zenon DEF Put, Delete, Write, Writing
  <2>2. /\ call'[t] \in Writing /\ pc'[t] \in {"log", "apply"}
        /\ \A u \in Thread \ {t} : pc'[u] = pc[u] /\ call'[u] = call[u]
        /\ ExclusiveFlush => \A u \in Thread : call[u] \in {"none"} \cup Writing
    BY <2>1 DEF BeginWrite, MayWrite
  <2>3. CallsMatch'
    BY <2>2, Zenon DEF CallsMatch, Writing, Flushing, Holding, RotateSteps, CompactSteps
  <2>4. ExclusiveFlush /\ Exclusive => Exclusive'
    BY <2>2, Zenon DEF CallsMatch, Exclusive, Writing, Flushing
  <2> QED BY <2>3, <2>4, Zenon
<1>2. CASE Flush(t) \/ Close(t) \/ Drop(t)
  <2>1. PICK c \in Flushing : BeginFlush(t, c)
    BY <1>2, Zenon DEF Flush, Close, Drop, Flushing
  <2>2. /\ call'[t] \in Flushing /\ pc'[t] \in {"take", "freeze"}
        /\ \A u \in Thread \ {t} : pc'[u] = pc[u] /\ call'[u] = call[u]
        /\ ExclusiveFlush => \A u \in Thread : pc[u] = "idle" /\ call[u] = "none"
    BY <2>1, Zenon DEF BeginFlush, MayFlush, CallsMatch
  <2>3. CallsMatch'
    BY <2>2, Zenon DEF CallsMatch, Writing, Flushing, Holding, RotateSteps, CompactSteps
  <2>4. ExclusiveFlush /\ Exclusive => Exclusive'
    BY <2>2, Zenon DEF CallsMatch, Exclusive, Writing, Flushing
  <2> QED BY <2>3, <2>4, Zenon
<1>3. CASE Compact(t)
  <2>1. /\ call'[t] = "compact" /\ pc'[t] = "pick"
        /\ \A u \in Thread \ {t} : pc'[u] = pc[u] /\ call'[u] = call[u]
        /\ ExclusiveFlush => \A u \in Thread : pc[u] = "idle" /\ call[u] = "none"
    BY <1>3, Zenon DEF Compact, MayFlush, CallsMatch
  <2>3. CallsMatch'
    BY <2>1, Zenon DEF CallsMatch, Writing, Flushing, Holding, RotateSteps, CompactSteps
  <2>4. ExclusiveFlush /\ Exclusive => Exclusive'
    BY <2>1 DEF CallsMatch, Exclusive, Writing, Flushing
  <2> QED BY <2>3, <2>4, Zenon
<1> QED BY <1>1, <1>2, <1>3, Zenon

LEMMA EndCompactCalls ==
    ASSUME TypeInv, CallsMatch, NEW t \in Thread, pc[t] \in CompactSteps, EndCompact(t)
    PROVE  CallsMatch' /\ (ExclusiveFlush /\ Exclusive => Exclusive')
<1>1. CASE Return(t, {})
  BY <1>1, ReturnCalls, Zenon
<1>2. CASE ~Return(t, {})
  <2>1. Goto(t, "closing") /\ call' = call /\ call[t] \in Flushing
    BY <1>2, Zenon DEF EndCompact, Flushing
  <2> QED BY <2>1, GoOnCalls, Zenon DEF CompactSteps, Holding, RotateSteps
<1> QED BY <1>1, <1>2, Zenon

LEMMA VanishCalls == ASSUME Vanish PROVE CallsMatch' /\ Exclusive'
BY Zenon DEF Vanish, CallsMatch, Exclusive, Writing, Flushing, Holding, RotateSteps, CompactSteps

LEMMA ThreadCalls ==
    ASSUME TypeInv, CallsMatch, NEW t \in Thread, ThreadNext(t)
    PROVE  CallsMatch' /\ (ExclusiveFlush /\ Exclusive => Exclusive')
<1> USE DEF Holding, RotateSteps, CompactSteps
<1>1. CASE Put(t) \/ Delete(t) \/ Write(t) \/ Flush(t) \/ Close(t) \/ Drop(t) \/ Compact(t)
  BY <1>1, BeginCalls, Zenon
<1>2. CASE AppendLog(t)
  <2>1. Goto(t, IF SyncWal THEN "sync" ELSE "apply") /\ call' = call /\ call[t] \in Writing
    BY <1>2, Zenon DEF AppendLog, CallsMatch, locals
  <2> QED BY <1>2, <2>1, GoOnCalls, Zenon DEF AppendLog
<1>3. CASE SyncLog(t)
  <2>1. Goto(t, "apply") /\ call' = call /\ call[t] \in Writing
    BY <1>3, Zenon DEF SyncLog, CallsMatch, locals
  <2> QED BY <1>3, <2>1, GoOnCalls, Zenon DEF SyncLog
<1>4. CASE Apply(t)
  <2>1. CASE Return(t, Ids(batch[t]))
    BY <2>1, ReturnCalls, Zenon
  <2>2. CASE ~Return(t, Ids(batch[t]))
    <3>1. PICK s \in {"check", "apply"} : Goto(t, s)
      BY <1>4, <2>2, Zenon DEF Apply
    <3>2. call' = call /\ call[t] \in Writing
      BY <1>4, <2>2, Zenon DEF Apply, CallsMatch
    <3> QED BY <1>4, <3>1, <3>2, GoOnCalls, Zenon DEF Apply
  <2> QED BY <2>1, <2>2, Zenon
<1>5. CASE CheckSize(t)
  <2>1. CASE Return(t, Ids(batch[t]))
    BY <2>1, ReturnCalls, Zenon
  <2>2. CASE ~Return(t, Ids(batch[t]))
    <3>1. Goto(t, "freeze") /\ call' = call
      BY <1>5, <2>2, Zenon DEF CheckSize, locals
    <3> QED BY <1>5, <3>1, GoOnCalls, Zenon DEF CheckSize
  <2> QED BY <2>1, <2>2, Zenon
<1>6. CASE Freeze(t)
  <2>1. CASE Return(t, Ids(batch[t]))
    BY <2>1, ReturnCalls, Zenon
  <2>2. CASE ~Return(t, Ids(batch[t]))
    <3>1. Goto(t, "take") /\ call' = call /\ call[t] \in Flushing
      BY <1>6, <2>2, Zenon DEF Freeze, locals
    <3> QED BY <1>6, <3>1, GoOnCalls, Zenon DEF Freeze
  <2> QED BY <2>1, <2>2, Zenon
<1>7. CASE \/ FlushTake(t) \/ FlushCreate(t) \/ FlushBuild(t) \/ FlushInstall(t)
           \/ RotateOpen(t) \/ RotateSwap(t) \/ RotateRemove(t)
  <2>1. PICK s \in {"take", "pick"} \cup Holding \cup RotateSteps : Goto(t, s)
    BY <1>7, Zenon DEF FlushTake, FlushCreate, FlushBuild, FlushInstall, RotateOpen, RotateSwap, RotateRemove
  <2>2. call' = call /\ call[t] \in Flushing /\ pc[t] # "idle"
    BY <1>7, Zenon DEF FlushTake, FlushCreate, FlushBuild, FlushInstall, RotateOpen, RotateSwap,
                RotateRemove, locals, CallsMatch
  <2> QED BY <2>1, <2>2, GoOnCalls, Zenon
<1>8. CASE CompactPick(t) \/ CompactCreate(t) \/ CompactMerge(t) \/ CompactInstall(t) \/ CompactDelete(t)
  <2>0. pc[t] \in CompactSteps /\ pc[t] # "idle"
    BY <1>8, Zenon DEF CompactPick, CompactCreate, CompactMerge, CompactInstall, CompactDelete
  <2>1. CASE EndCompact(t)
    BY <2>0, <2>1, EndCompactCalls, Zenon
  <2>2. CASE ~EndCompact(t)
    <3>1. CASE CompactDelete(t)
      BY <2>2, <3>1, Zenon DEF CompactDelete, CallsMatch, Exclusive
    <3>2. CASE ~CompactDelete(t)
      <4>1. PICK s \in CompactSteps : Goto(t, s)
        BY <1>8, <2>2, <3>2, Zenon DEF CompactPick, CompactCreate, CompactMerge, MergeTo, CompactInstall
      <4>2. call' = call /\ call[t] \in Flushing \cup {"compact"}
        BY <1>8, <2>0, <2>2, <3>2, Zenon DEF CompactPick, CompactCreate, CompactMerge, MergeTo, CompactInstall, locals, CallsMatch
      <4> QED BY <2>0, <4>1, <4>2, GoOnCalls, Zenon
    <3> QED BY <3>1, <3>2, Zenon
  <2> QED BY <2>1, <2>2, Zenon
<1>9. CASE CloseSync(t)
  BY <1>9, ReturnCalls, VanishCalls, Zenon DEF CloseSync
<1>10. CASE Fail(t)
  <2>1. CASE Return(t, {})
    BY <2>1, ReturnCalls, Zenon
  <2>2. CASE ~Return(t, {})
    <3>1. Goto(t, "closing") /\ call' = call /\ call[t] \in Flushing /\ pc[t] # "idle"
      BY <1>10, <2>2, Zenon DEF Fail, Flushing, FaultSteps
    <3> QED BY <3>1, GoOnCalls, Zenon
  <2> QED BY <2>1, <2>2, Zenon
<1> QED BY <1>1, <1>2, <1>3, <1>4, <1>5, <1>6, <1>7, <1>8, <1>9, <1>10, Zenon DEF ThreadNext

LEMMA CalmVersions == ASSUME Calm PROVE MemoryVersions' \subseteq MemoryVersions
BY InMemoryVersions, InMemoryVersionsNext, Zenon DEF Calm

LEMMA ThreadFlushers ==
    ASSUME TypeInv, \A u \in Thread : call[u] \in Flushes => u \in Flushers,
           NEW t \in Thread, ThreadNext(t)
    PROVE  \A u \in Thread : call'[u] \in Flushes => u \in Flushers
<1> USE DEF TypeInv, LocalsOK
<1>0. "none" \notin Flushes /\ Writing \cap Flushes = {}
  BY Zenon DEF Flushes, Flushing, Writing
<1>1. ASSUME NEW ids, Return(t, ids) PROVE \A u \in Thread : call'[u] \in Flushes => u \in Flushers
  BY <1>0, <1>1, Zenon DEF Return
<1>2. CASE Put(t) \/ Delete(t) \/ Write(t)
  <2>1. PICK c \in Writing : \E items : BeginWrite(t, c, items)
    BY <1>2, Zenon DEF Put, Delete, Write, Writing
  <2> QED BY <1>0, <2>1, Zenon DEF BeginWrite
<1>3. CASE Flush(t) \/ Close(t) \/ Drop(t) \/ Compact(t)
  BY <1>3, Zenon DEF Flush, Close, Drop, BeginFlush, Compact, MayFlush
<1>4. CASE AppendLog(t) \/ SyncLog(t) \/ Apply(t) \/ CheckSize(t) \/ Freeze(t)
  BY <1>1, <1>4, Zenon DEF AppendLog, SyncLog, Apply, CheckSize, Freeze, locals
<1>5. CASE \/ FlushTake(t) \/ FlushCreate(t) \/ FlushBuild(t) \/ FlushInstall(t)
           \/ RotateOpen(t) \/ RotateSwap(t) \/ RotateRemove(t)
  BY <1>5, Zenon DEF FlushTake, FlushCreate, FlushBuild, FlushInstall, RotateOpen, RotateSwap, RotateRemove,
              locals
<1>6. CASE EndCompact(t)
  BY <1>1, <1>6, Zenon DEF EndCompact
<1>7. CASE CompactPick(t) \/ CompactCreate(t) \/ CompactMerge(t) \/ CompactInstall(t) \/ CompactDelete(t)
  BY <1>6, <1>7, Zenon DEF CompactPick, CompactCreate, CompactMerge, MergeTo, CompactInstall, CompactDelete,
                    locals
<1>8. CASE CloseSync(t)
  BY <1>0, <1>1, <1>8, Zenon DEF CloseSync, Vanish
<1>9. CASE Fail(t)
  BY <1>1, <1>9, Zenon DEF Fail
<1> QED BY <1>2, <1>3, <1>4, <1>5, <1>7, <1>8, <1>9, Zenon DEF ThreadNext

LEMMA CallStep == ASSUME TypeInv, DownEmpty, CallInv, [Next]_vars PROVE CallInv'
<1>1. ASSUME NEW t \in Thread, ThreadNext(t) PROVE CallInv'
  BY <1>1, ThreadCalls, ThreadFlushers, Zenon DEF CallInv
<1>2. CASE Crash
  <2>1. CallsMatch' /\ Exclusive' /\ \A t \in Thread : call'[t] = "none"
    BY <1>2, VanishCalls, Zenon DEF Crash, Vanish
  <2> QED BY <2>1, Zenon DEF CallInv, Flushes, Flushing
<1>3. CASE Open \/ Spill \/ UNCHANGED vars
  <2>1. UNCHANGED <<pc, call>>
    BY <1>3, Zenon DEF Open, Spill, vars, locals
  <2> QED BY <2>1, Zenon DEF CallInv, CallsMatch, Exclusive
<1> QED BY <1>1, <1>2, <1>3, Zenon DEF Next, Rest

LEMMA CallInvariant == Spec => []CallInv
<1>1. Init => CallInv
  BY Zenon DEF Init, CallInv, CallsMatch, Exclusive, Holding, RotateSteps, CompactSteps, Flushes, Flushing,
         Writing
<1>2. SeqInv /\ CallInv /\ [Next]_vars => CallInv'
  BY CallStep, Zenon DEF SeqInv
<1> QED BY <1>1, <1>2, SeqInvariant, PTL DEF Spec

LEMMA OneFlushHolds == ASSUME OneFlusher, CallInv PROVE OneFlush
<1>1. CASE ExclusiveFlush
  BY <1>1, Zenon DEF CallInv, Exclusive, CallsMatch, OneFlush, Flushes, Flushing
<1>2. CASE ~ExclusiveFlush
  BY <1>2, Zenon DEF OneFlusher, CallInv, OneFlush
<1> QED BY <1>1, <1>2, Zenon


(* Only opening changes the number of the session.                         *)
LEMMA SameSession ==
    ASSUME NEW t \in Thread, ThreadNext(t)
    PROVE  opens' = opens /\ (CloseSync(t) \/ mode' = mode)
<1> USE DEF ghosts
<1>1. CASE Put(t) \/ Delete(t) \/ Write(t) \/ AppendLog(t) \/ SyncLog(t) \/ Apply(t) \/ CheckSize(t)
           \/ Freeze(t) \/ Flush(t) \/ Close(t) \/ Drop(t) \/ FlushTake(t) \/ FlushCreate(t)
  BY <1>1, Zenon DEF Put, Delete, Write, BeginWrite, AppendLog, SyncLog, Apply, CheckSize, Freeze, Flush,
              Close, Drop, BeginFlush, FlushTake, FlushCreate
<1>2. CASE ~(Put(t) \/ Delete(t) \/ Write(t) \/ AppendLog(t) \/ SyncLog(t) \/ Apply(t) \/ CheckSize(t)
             \/ Freeze(t) \/ Flush(t) \/ Close(t) \/ Drop(t) \/ FlushTake(t) \/ FlushCreate(t))
  BY <1>2, Zenon DEF ThreadNext, FlushBuild, FlushInstall, RotateOpen, RotateSwap, RotateRemove, Compact,
              CompactPick, CompactCreate, CompactMerge, CompactInstall, CompactDelete, CloseSync, Fail
<1> QED BY <1>1, <1>2, Zenon

(***************************************************************************)
(* The history.                                                            *)
(***************************************************************************)

(* A step after which every call has the operations it had, or none.       *)
Quiet ==
    /\ hist' = hist /\ acked' = acked
    /\ \A u \in Thread :
          \/ batch'[u] = <<>> /\ applied'[u] = 0
          \/ /\ batch'[u] = batch[u] /\ applied'[u] = applied[u] /\ base'[u] = base[u]
             /\ pc'[u] = "check" => pc[u] = "check"
             /\ pc'[u] = "freeze" => call'[u] \in Flushing \/ (pc[u] = "freeze" /\ call'[u] = call[u])

(* Two operations of calls in progress with one number are the same.       *)
Alike(t, j, u, m) ==
    /\ t \in Thread /\ j \in DOMAIN batch[t] /\ u \in Thread /\ m \in DOMAIN batch[u]
    /\ batch[t][j].id = batch[u][m].id

LEMMA BatchIds ==
    ASSUME BatchOK, NEW t, NEW u, NEW j, NEW m, Alike(t, j, u, m) PROVE t = u /\ j = m
BY DEF BatchOK, Alike

LEMMA QuietKeeps == ASSUME HistOK, BatchOK, Quiet PROVE HistOK' /\ BatchOK'
<1>1. HistOK'
  BY Zenon DEF HistOK, Quiet
<1>2. \A t \in Thread : \A j \in DOMAIN batch'[t] :
          j \in DOMAIN batch[t] /\ batch'[t][j] = batch[t][j]
  <2> SUFFICES ASSUME NEW t \in Thread, NEW j \in DOMAIN batch'[t]
               PROVE  j \in DOMAIN batch[t] /\ batch'[t][j] = batch[t][j]
    BY Zenon
  <2>1. CASE batch'[t] = <<>>
    BY <2>1, NoneIn, Zenon
  <2>2. CASE batch'[t] # <<>>
    BY <2>2, Zenon DEF Quiet
  <2> QED BY <2>1, <2>2, Zenon
<1>3. \A t \in Thread :
          /\ applied'[t] <= Len(batch'[t])
          /\ pc'[t] = "check" \/ (pc'[t] = "freeze" /\ call'[t] \notin Flushing)
                => applied'[t] = Len(batch'[t])
  <2> SUFFICES ASSUME NEW t \in Thread
               PROVE  /\ applied'[t] <= Len(batch'[t])
                      /\ pc'[t] = "check" \/ (pc'[t] = "freeze" /\ call'[t] \notin Flushing)
                            => applied'[t] = Len(batch'[t])
    BY Zenon
  <2>1. CASE batch'[t] = <<>> /\ applied'[t] = 0
    BY <2>1, NoneLen, Zenon
  <2>2. CASE ~(batch'[t] = <<>> /\ applied'[t] = 0)
    BY <2>2, Zenon DEF Quiet, BatchOK
  <2> QED BY <2>1, <2>2, Zenon
<1>4. hist' = hist /\ acked' = acked
  BY Zenon DEF Quiet
<1>5. BatchOK'
  <2>1. \A t \in Thread : \A j \in DOMAIN batch'[t] :
            /\ batch'[t][j].id \in DOMAIN hist' /\ batch'[t][j].id \notin acked'
            /\ hist'[batch'[t][j].id].op = batch'[t][j]
    <3> SUFFICES ASSUME NEW t \in Thread, NEW j \in DOMAIN batch'[t]
                 PROVE  /\ batch'[t][j].id \in DOMAIN hist' /\ batch'[t][j].id \notin acked'
                        /\ hist'[batch'[t][j].id].op = batch'[t][j]
      BY Zenon
    <3>1. j \in DOMAIN batch[t] /\ batch'[t][j] = batch[t][j]
      BY <1>2, Zenon
    <3>2. /\ batch[t][j].id \in DOMAIN hist /\ batch[t][j].id \notin acked
          /\ hist[batch[t][j].id].op = batch[t][j]
      BY <3>1, Zenon DEF BatchOK
    <3> QED BY <1>4, <3>1, <3>2, Zenon
  <2>2. ASSUME NEW t \in Thread, NEW u \in Thread,
               NEW j \in DOMAIN batch'[t], NEW m \in DOMAIN batch'[u],
               batch'[t][j].id = batch'[u][m].id
        PROVE  t = u /\ j = m
    <3>1. Alike(t, j, u, m)
      BY <1>2, <2>2, Zenon DEF Alike
    <3> QED BY <3>1, BatchIds, Zenon
  <2> QED BY <1>3, <2>1, <2>2, Zenon DEF BatchOK
<1> QED BY <1>1, <1>5, Zenon

LEMMA ReturnQuiet ==
    ASSUME TypeInv, NEW t \in Thread, Return(t, {}), hist' = hist PROVE Quiet
BY Zenon DEF Return, Goto, Quiet, TypeInv, LocalsOK

LEMMA EndCompactQuiet ==
    ASSUME TypeInv, NEW t \in Thread, EndCompact(t), hist' = hist PROVE Quiet
<1>1. CASE Return(t, {})
  BY <1>1, ReturnQuiet, Zenon
<1>2. CASE ~Return(t, {})
  BY <1>2, Zenon DEF EndCompact, Goto, Quiet, TypeInv, LocalsOK
<1> QED BY <1>1, <1>2, Zenon

LEMMA QuietSteps ==
    ASSUME TypeInv, NEW t \in Thread, ThreadNext(t),
           ~(Put(t) \/ Delete(t) \/ Write(t) \/ Apply(t) \/ CheckSize(t) \/ Freeze(t))
    PROVE  Quiet
<1> USE DEF TypeInv, LocalsOK, Goto, locals, ghosts
<1>1. CASE AppendLog(t) \/ SyncLog(t)
  BY <1>1, Zenon DEF AppendLog, SyncLog, Quiet
<1>2. CASE Flush(t) \/ Close(t) \/ Drop(t) \/ Compact(t)
  BY <1>2, Zenon DEF Flush, Close, Drop, BeginFlush, Compact, Flushing, Quiet
<1>3. CASE \/ FlushTake(t) \/ FlushCreate(t) \/ FlushBuild(t) \/ FlushInstall(t)
  BY <1>3, Zenon DEF FlushTake, FlushCreate, FlushBuild, FlushInstall, Quiet
<1>4. CASE RotateOpen(t) \/ RotateSwap(t) \/ RotateRemove(t)
  BY <1>4, Zenon DEF RotateOpen, RotateSwap, RotateRemove, Quiet
<1>5. CASE CompactPick(t) \/ CompactMerge(t) \/ CompactDelete(t)
  <2>1. CASE EndCompact(t)
    BY <1>5, <2>1, EndCompactQuiet, Zenon DEF CompactPick, CompactMerge, CompactDelete
  <2>2. CASE ~EndCompact(t)
    BY <1>5, <2>2, Zenon DEF CompactPick, CompactMerge, MergeTo, CompactDelete, Quiet
  <2> QED BY <2>1, <2>2, Zenon
<1>6. CASE CompactCreate(t) \/ CompactInstall(t)
  BY <1>6, Zenon DEF CompactCreate, CompactInstall, Quiet
<1>7. CASE CloseSync(t)
  <2>1. CASE Vanish
    <3>1. acked' = acked /\ hist' = hist
      <4>1. call[t] # "close" => acked' = acked
        BY <1>7, Zenon DEF CloseSync
      <4>2. call[t] = "close" => acked' = acked
        BY <1>7, Zenon DEF CloseSync, Return
      <4> QED BY <1>7, <4>1, <4>2, Zenon DEF CloseSync
    <3> QED BY <2>1, <3>1, Zenon DEF Vanish, Quiet
  <2>2. CASE ~Vanish
    BY <1>7, <2>2, ReturnQuiet, Zenon DEF CloseSync
  <2> QED BY <2>1, <2>2, Zenon
<1>8. CASE Fail(t)
  <2>1. CASE Return(t, {})
    BY <1>8, <2>1, ReturnQuiet, Zenon DEF Fail
  <2>2. CASE ~Return(t, {})
    <3>1. hist' = hist /\ acked' = acked /\ UNCHANGED <<call, batch, base, applied>> /\ Goto(t, "closing")
      BY <1>8, <2>2, Zenon DEF Fail
    <3> QED BY <3>1, Zenon DEF Quiet
  <2> QED BY <2>1, <2>2, Zenon
<1> QED BY <1>1, <1>2, <1>3, <1>4, <1>5, <1>6, <1>7, <1>8, Zenon DEF ThreadNext

(* A call returns after it has inserted all its operations.                *)
LEMMA ReturnHist ==
    ASSUME TypeInv, HistOK, BatchOK, NEW t \in Thread, Return(t, Ids(batch[t])), hist' = hist
    PROVE  HistOK' /\ BatchOK'
<1>1. /\ acked' = acked \cup Ids(batch[t])
      /\ batch'[t] = <<>> /\ applied'[t] = 0 /\ pc'[t] = "idle"
      /\ \A u \in Thread \ {t} : /\ batch'[u] = batch[u] /\ applied'[u] = applied[u]
                                 /\ pc'[u] = pc[u] /\ call'[u] = call[u]
  BY Zenon DEF Return, Goto, TypeInv, LocalsOK
<1>2. Ids(batch[t]) \subseteq DOMAIN hist
  <2>1. \A j \in DOMAIN batch[t] : batch[t][j].id \in DOMAIN hist
    BY Zenon DEF BatchOK
  <2> QED BY <2>1, Zenon DEF Ids
<1>3. HistOK'
  BY <1>1, <1>2, Zenon DEF HistOK
<1>4. ASSUME NEW u \in Thread, NEW j \in DOMAIN batch'[u]
      PROVE  /\ u # t /\ j \in DOMAIN batch[u] /\ batch'[u][j] = batch[u][j]
             /\ batch[u][j].id \notin acked'
  <2>1. u # t /\ batch'[u] = batch[u]
    <3>1. CASE u = t
      BY <1>1, <1>4, <3>1, NoneIn, Zenon
    <3> QED BY <1>1, <3>1, Zenon
  <2>2. batch[u][j].id \notin Ids(batch[t])
    <3>1. ASSUME NEW m \in DOMAIN batch[t], batch[u][j].id = batch[t][m].id PROVE FALSE
      <4>1. Alike(u, j, t, m)
        BY <1>4, <2>1, <3>1, Zenon DEF Alike
      <4> QED BY <2>1, <4>1, BatchIds, Zenon
    <3> QED BY <3>1, Zenon DEF Ids
  <2> QED BY <1>1, <1>4, <2>1, <2>2, Zenon DEF BatchOK
<1>5. \A u \in Thread :
          /\ applied'[u] <= Len(batch'[u])
          /\ pc'[u] = "check" \/ (pc'[u] = "freeze" /\ call'[u] \notin Flushing)
                => applied'[u] = Len(batch'[u])
  <2> SUFFICES ASSUME NEW u \in Thread
               PROVE  /\ applied'[u] <= Len(batch'[u])
                      /\ pc'[u] = "check" \/ (pc'[u] = "freeze" /\ call'[u] \notin Flushing)
                            => applied'[u] = Len(batch'[u])
    BY Zenon
  <2>1. CASE u = t
    <3>1. applied'[t] = 0 /\ Len(batch'[t]) = 0
      BY <1>1, Zenon
    <3>2. 0 <= 0
      OBVIOUS
    <3> QED BY <1>1, <2>1, <3>1, <3>2, Zenon
  <2>2. CASE u # t
    BY <1>1, <2>2, Zenon DEF BatchOK
  <2> QED BY <2>1, <2>2, Zenon
<1>6. \A u, v \in Thread : \A j \in DOMAIN batch'[u], m \in DOMAIN batch'[v] :
          batch'[u][j].id = batch'[v][m].id => u = v /\ j = m
  <2> SUFFICES ASSUME NEW u \in Thread, NEW v \in Thread, NEW j \in DOMAIN batch'[u],
                      NEW m \in DOMAIN batch'[v], batch'[u][j].id = batch'[v][m].id
               PROVE  u = v /\ j = m
    BY Zenon
  <2>1. u # t /\ v # t
    BY <1>4, Zenon
  <2>2. batch'[u] = batch[u] /\ batch'[v] = batch[v]
    BY <1>1, <2>1, Zenon
  <2>3. Alike(u, j, v, m)
    BY <2>2, Zenon DEF Alike
  <2> QED BY <2>3, BatchIds, Zenon
<1>7. \A u \in Thread : \A j \in DOMAIN batch'[u] :
          /\ batch'[u][j].id \in DOMAIN hist' /\ batch'[u][j].id \notin acked'
          /\ hist'[batch'[u][j].id].op = batch'[u][j]
  <2> SUFFICES ASSUME NEW u \in Thread, NEW j \in DOMAIN batch'[u]
               PROVE  /\ batch'[u][j].id \in DOMAIN hist' /\ batch'[u][j].id \notin acked'
                      /\ hist'[batch'[u][j].id].op = batch'[u][j]
    BY Zenon
  <2>1. j \in DOMAIN batch[u] /\ batch'[u][j] = batch[u][j] /\ batch[u][j].id \notin acked'
    BY <1>4, Zenon
  <2>2. batch[u][j].id \in DOMAIN hist /\ hist[batch[u][j].id].op = batch[u][j]
    BY <2>1, Zenon DEF BatchOK
  <2> QED BY <2>1, <2>2, Zenon
<1>8. BatchOK'
  BY <1>5, <1>6, <1>7, Zenon DEF BatchOK
<1> QED BY <1>3, <1>8, Zenon

LEMMA AppliedHist ==
    ASSUME TypeInv, CallsMatch, HistOK, BatchOK, NEW t \in Thread,
           Apply(t) \/ CheckSize(t) \/ Freeze(t)
    PROVE  HistOK' /\ BatchOK'
<1>1. CASE Return(t, Ids(batch[t]))
  BY <1>1, ReturnHist, Zenon DEF Apply, CheckSize, Freeze
<1>2. CASE ~Return(t, Ids(batch[t]))
  <2>1. UNCHANGED <<hist, acked, batch, call>> /\ \A u \in Thread \ {t} : pc'[u] = pc[u] /\ applied'[u] = applied[u]
    BY <1>2, Zenon DEF Apply, CheckSize, Freeze, Goto, locals, TypeInv, LocalsOK
  <2>2. /\ applied'[t] <= Len(batch[t])
        /\ pc'[t] = "check" \/ (pc'[t] = "freeze" /\ call[t] \notin Flushing)
                => applied'[t] = Len(batch[t])
    <3>1. applied[t] \in Nat /\ Len(batch[t]) \in Nat /\ pc \in [Thread -> Step]
          /\ applied \in [Thread -> Nat]
      <4>1. batch[t] \in Seq(Op)
        BY Zenon DEF TypeInv, LocalsOK
      <4>2. Len(batch[t]) \in Nat
        BY <4>1, ListFacts, Zenon
      <4> QED BY <4>2, Zenon DEF TypeInv, LocalsOK
    <3>2. CASE Apply(t)
      <4>1. applied[t] < Len(batch[t])
        BY <3>2, Zenon DEF Apply, TypeInv, BatchReady
      <4>2. /\ applied'[t] = applied[t] + 1
            /\ pc'[t] = IF applied[t] + 1 = Len(batch[t]) THEN "check" ELSE "apply"
        BY <1>2, <3>1, <3>2, Zenon DEF Apply, Goto
      <4>3. applied[t] + 1 <= Len(batch[t])
        BY <3>1, <4>1, NextFits, Zenon
      <4> QED BY <4>2, <4>3, Zenon
    <3>3. CASE CheckSize(t)
      <4>1. applied' = applied /\ applied[t] = Len(batch[t])
        BY <1>2, <3>3, Zenon DEF CheckSize, BatchOK, locals
      <4> QED BY <3>1, <4>1, LeqRefl, Zenon
    <3>4. CASE Freeze(t)
      <4>1. applied' = applied /\ pc'[t] = "take"
        BY <1>2, <3>1, <3>4, Zenon DEF Freeze, Goto, locals
      <4> QED BY <3>1, <4>1, Zenon DEF BatchOK
    <3> QED BY <3>2, <3>3, <3>4, Zenon
  <2>3. HistOK'
    BY <2>1, Zenon DEF HistOK
  <2>4. BatchOK'
    <3>1. \A u \in Thread :
              /\ applied'[u] <= Len(batch[u])
              /\ pc'[u] = "check" \/ (pc'[u] = "freeze" /\ call[u] \notin Flushing)
                    => applied'[u] = Len(batch[u])
      BY <2>1, <2>2, Zenon DEF BatchOK
    <3>2. \A u, v \in Thread : \A j \in DOMAIN batch'[u], m \in DOMAIN batch'[v] :
              batch'[u][j].id = batch'[v][m].id => u = v /\ j = m
      <4> SUFFICES ASSUME NEW u \in Thread, NEW v \in Thread, NEW j \in DOMAIN batch'[u],
                          NEW m \in DOMAIN batch'[v], batch'[u][j].id = batch'[v][m].id
                   PROVE  u = v /\ j = m
        BY Zenon
      <4>1. Alike(u, j, v, m)
        BY <2>1, Zenon DEF Alike
      <4> QED BY <4>1, BatchIds, Zenon
    <3>3. \A u \in Thread : \A j \in DOMAIN batch'[u] :
              /\ batch'[u][j].id \in DOMAIN hist' /\ batch'[u][j].id \notin acked'
              /\ hist'[batch'[u][j].id].op = batch'[u][j]
      BY <2>1, Zenon DEF BatchOK
    <3>4. \A u \in Thread :
              /\ applied'[u] <= Len(batch'[u])
              /\ pc'[u] = "check" \/ (pc'[u] = "freeze" /\ call'[u] \notin Flushing)
                    => applied'[u] = Len(batch'[u])
      BY <2>1, <3>1, Zenon
    <3> QED BY <3>2, <3>3, <3>4, Zenon DEF BatchOK
  <2> QED BY <2>3, <2>4, Zenon
<1> QED BY <1>1, <1>2, Zenon

(* fetch_add and the history give out the same numbers.                    *)
Issues(t, items) ==
    /\ Len(hist) \in Nat /\ Len(hist') = Len(hist) + Len(items)
    /\ Len(batch'[t]) = Len(items) /\ DOMAIN batch'[t] = 1 .. Len(items)
    /\ \A j \in 1 .. Len(items) :
          /\ batch'[t][j].id = Len(hist) + j
          /\ hist'[Len(hist) + j].op = batch'[t][j] /\ hist'[Len(hist) + j].after = acked
    /\ \A i \in 1 .. Len(hist) : hist'[i] = hist[i]
    /\ \A u \in Thread \ {t} : batch'[u] = batch[u] /\ pc'[u] = pc[u] /\ call'[u] = call[u]
    /\ acked' = acked /\ applied' = applied /\ pc'[t] \in {"log", "apply"}

LEMMA BeginWriteShape ==
    ASSUME TypeInv, NEW t \in Thread, NEW c, NEW items, Len(items) \in Nat, BeginWrite(t, c, items)
    PROVE  Issues(t, items)
<1> DEFINE ops == [i \in 1 .. Len(items) |->
                     [id |-> Len(hist) + i, key |-> items[i].key, kind |-> items[i].kind]]
           new == [i \in 1 .. Len(items) |-> [op |-> ops[i], after |-> acked]]
<1>1. /\ batch' = [batch EXCEPT ![t] = ops] /\ hist' = hist \o new
      /\ pc' = [pc EXCEPT ![t] = IF UseWal THEN "log" ELSE "apply"]
      /\ call' = [call EXCEPT ![t] = c] /\ acked' = acked /\ applied' = applied
  BY Zenon DEF BeginWrite, Goto
<1>2. /\ Len(hist) \in Nat /\ hist \in Seq(Issued) /\ DOMAIN hist = 1 .. Len(hist)
      /\ batch \in [Thread -> Seq(Op)] /\ pc \in [Thread -> Step] /\ call \in [Thread -> Call]
  <2>1. hist \in Seq(Issued)
    BY Zenon DEF TypeInv, GhostsOK
  <2>2. Len(hist) \in Nat /\ DOMAIN hist = 1 .. Len(hist)
    BY <2>1, ListFacts, Zenon
  <2> QED BY <2>1, <2>2, Zenon DEF TypeInv, LocalsOK
<1>3. /\ batch'[t] = ops /\ pc'[t] \in {"log", "apply"}
      /\ \A u \in Thread \ {t} : batch'[u] = batch[u] /\ pc'[u] = pc[u] /\ call'[u] = call[u]
  BY <1>1, <1>2, Zenon
<1>4. Len(ops) = Len(items) /\ Len(new) = Len(items) /\ new \in Seq({new[i] : i \in 1 .. Len(items)})
  <2>1. /\ ops \in [1 .. Len(items) -> {ops[i] : i \in 1 .. Len(items)}]
        /\ new \in [1 .. Len(items) -> {new[i] : i \in 1 .. Len(items)}]
    BY Zenon
  <2> HIDE DEF ops, new
  <2> QED BY <2>1, TableFacts, Zenon
<1>5. /\ Len(hist') = Len(hist) + Len(items)
      /\ \A i \in 1 .. Len(hist) : hist'[i] = hist[i]
      /\ \A j \in 1 .. Len(items) : hist'[Len(hist) + j] = new[j]
  <2> HIDE DEF ops, new
  <2>1. PICK T, f : f \in Seq(T) /\ f = new
    BY <1>4, Zenon
  <2>2. Joins(hist', hist, f)
    BY <1>1, <1>2, <2>1, ConcatFacts, Zenon
  <2> QED BY <1>4, <2>1, <2>2, Zenon DEF Joins
<1>6. \A j \in 1 .. Len(items) : ops[j].id = Len(hist) + j /\ new[j].op = ops[j] /\ new[j].after = acked
  BY Zenon
<1>7. \A j \in 1 .. Len(items) :
          /\ batch'[t][j].id = Len(hist) + j
          /\ hist'[Len(hist) + j].op = batch'[t][j] /\ hist'[Len(hist) + j].after = acked
  <2> HIDE DEF ops, new
  <2> SUFFICES ASSUME NEW j \in 1 .. Len(items)
               PROVE  /\ batch'[t][j].id = Len(hist) + j
                      /\ hist'[Len(hist) + j].op = batch'[t][j] /\ hist'[Len(hist) + j].after = acked
    BY Zenon
  <2>1. hist'[Len(hist) + j] = new[j] /\ batch'[t][j] = ops[j]
    BY <1>3, <1>5, Zenon
  <2> QED BY <1>6, <2>1, Zenon
<1>8. Len(batch'[t]) = Len(items) /\ DOMAIN batch'[t] = 1 .. Len(items)
  BY <1>3, <1>4, Zenon
<1> QED BY <1>1, <1>2, <1>3, <1>5, <1>7, <1>8, Zenon DEF Issues

LEMMA BeginWriteHist ==
    ASSUME TypeInv, TypeInv', HistOK, BatchOK, NEW t \in Thread, NEW c, NEW items,
           Len(items) \in Nat, BeginWrite(t, c, items)
    PROVE  HistOK' /\ BatchOK'
<1>1. /\ Len(hist) \in Nat /\ Len(hist') = Len(hist) + Len(items)
      /\ Len(batch'[t]) = Len(items) /\ DOMAIN batch'[t] = 1 .. Len(items)
      /\ \A j \in 1 .. Len(items) :
            /\ batch'[t][j].id = Len(hist) + j
            /\ hist'[Len(hist) + j].op = batch'[t][j] /\ hist'[Len(hist) + j].after = acked
      /\ \A i \in 1 .. Len(hist) : hist'[i] = hist[i]
      /\ \A u \in Thread \ {t} : batch'[u] = batch[u] /\ pc'[u] = pc[u] /\ call'[u] = call[u]
      /\ acked' = acked /\ applied' = applied /\ pc'[t] \in {"log", "apply"}
  BY BeginWriteShape, Zenon DEF Issues
<1>2. /\ DOMAIN hist = 1 .. Len(hist) /\ DOMAIN hist' = 1 .. Len(hist')
      /\ applied[t] = 0 /\ acked \subseteq 1 .. Len(hist)
  <2>1. hist \in Seq(Issued) /\ hist' \in Seq(Issued)
    BY Zenon DEF TypeInv, GhostsOK
  <2>2. DOMAIN hist = 1 .. Len(hist) /\ DOMAIN hist' = 1 .. Len(hist')
    BY <2>1, ListFacts, Zenon
  <2>3. applied[t] = 0
    BY Zenon DEF TypeInv, BatchReady, BeginWrite, MayWrite
  <2>4. acked \subseteq 1 .. Len(hist)
    BY <2>2, Zenon DEF HistOK
  <2> QED BY <2>2, <2>3, <2>4, Zenon
<1>n. Len(hist) \in Nat /\ Len(hist') = Len(hist) + Len(items)
  BY <1>1, Zenon
<1>3. HistOK'
  <2>1. ASSUME NEW i \in 1 .. Len(hist')
        PROVE  /\ hist'[i].op.id = i /\ hist'[i].after \subseteq acked
               /\ \A j \in hist'[i].after : j < i
    <3>1. CASE i \in 1 .. Len(hist)
      BY <1>1, <1>2, <3>1, Zenon DEF HistOK
    <3>2. CASE i \notin 1 .. Len(hist)
      <4>1. PICK j \in 1 .. Len(items) : i = Len(hist) + j
        <5>1. i - Len(hist) \in 1 .. Len(items) /\ i = Len(hist) + (i - Len(hist))
          BY <1>n, <2>1, <3>2
        <5> QED BY <5>1, Zenon
      <4>2. hist'[i].op.id = i /\ hist'[i].after = acked
        BY <1>1, <4>1, Zenon
      <4>3. \A k \in acked : k < i
        <5>1. ASSUME NEW k \in 1 .. Len(hist) PROVE k < i
          BY <1>n, <4>1
        <5> QED BY <1>2, <5>1, Zenon
      <4> QED BY <4>2, <4>3, Zenon
    <3> QED BY <3>1, <3>2, Zenon
  <2>2. acked' \subseteq DOMAIN hist'
    <3>1. ASSUME NEW k \in 1 .. Len(hist) PROVE k \in 1 .. Len(hist')
      BY <1>n
    <3> QED BY <1>1, <1>2, <3>1, Zenon
  <2> QED BY <1>1, <1>2, <2>1, <2>2, Zenon DEF HistOK
<1>4. ASSUME NEW u \in Thread, NEW j \in DOMAIN batch'[u]
      PROVE  /\ batch'[u][j].id \in DOMAIN hist' /\ batch'[u][j].id \notin acked
             /\ hist'[batch'[u][j].id].op = batch'[u][j]
             /\ u = t => batch'[u][j].id = Len(hist) + j /\ j \in 1 .. Len(items)
             /\ u # t => /\ j \in DOMAIN batch[u] /\ batch'[u][j] = batch[u][j]
                         /\ batch'[u][j].id \in 1 .. Len(hist)
  <2>1. CASE u = t
    <3>1. j \in 1 .. Len(items) /\ batch'[u][j].id = Len(hist) + j
      BY <1>1, <1>4, <2>1, Zenon
    <3>2. Len(hist) + j \in 1 .. Len(hist') /\ Len(hist) + j \notin 1 .. Len(hist)
      BY <1>1, <1>n, <3>1, Behind, Zenon
    <3>4. hist'[batch'[u][j].id].op = batch'[u][j]
      BY <1>1, <2>1, <3>1, Zenon
    <3>5. batch'[u][j].id \in DOMAIN hist' /\ batch'[u][j].id \notin acked
      BY <1>2, <3>1, <3>2, Zenon
    <3> QED BY <2>1, <3>1, <3>4, <3>5, Zenon
  <2>2. CASE u # t
    <3>1. batch'[u] = batch[u]
      BY <1>1, <2>2, Zenon
    <3>2. /\ batch[u][j].id \in 1 .. Len(hist) /\ batch[u][j].id \notin acked
          /\ hist[batch[u][j].id].op = batch[u][j]
      BY <1>2, <1>4, <3>1, Zenon DEF BatchOK
    <3>3. batch[u][j].id \in 1 .. Len(hist')
      <4>1. ASSUME NEW k \in 1 .. Len(hist) PROVE k \in 1 .. Len(hist')
        BY <1>n
      <4> QED BY <3>2, <4>1, Zenon
    <3> QED BY <1>1, <1>2, <1>4, <2>2, <3>1, <3>2, <3>3, Zenon
  <2> QED BY <2>1, <2>2, Zenon
<1>5. ASSUME NEW u \in Thread, NEW w \in Thread, NEW j \in DOMAIN batch'[u], NEW m \in DOMAIN batch'[w],
             batch'[u][j].id = batch'[w][m].id
      PROVE  u = w /\ j = m
  <2>1. CASE u = t /\ w = t
    <3>1. /\ j \in 1 .. Len(items) /\ batch'[u][j].id = Len(hist) + j
          /\ m \in 1 .. Len(items) /\ batch'[w][m].id = Len(hist) + m
      BY <1>4, <1>5, <2>1, Zenon
    <3>2. Len(hist) + j = Len(hist) + m
      BY <1>5, <3>1, Zenon
    <3>3. j = m
      BY <1>n, <3>1, <3>2
    <3> QED BY <2>1, <3>3, Zenon
  <2>2. CASE u # t /\ w # t
    <3>1. Alike(u, j, w, m)
      BY <1>4, <1>5, <2>2, Zenon DEF Alike
    <3> QED BY <3>1, BatchIds, Zenon
  <2>3. ASSUME NEW x \in 1 .. Len(hist), NEW y \in 1 .. Len(items) PROVE x # Len(hist) + y
    BY <1>n
  <2>4. CASE u = t /\ w # t
    <3>1. j \in 1 .. Len(items) /\ batch'[u][j].id = Len(hist) + j /\ batch'[w][m].id \in 1 .. Len(hist)
      BY <1>4, <1>5, <2>4, Zenon
    <3> QED BY <1>5, <2>3, <3>1, Zenon
  <2>5. CASE u # t /\ w = t
    <3>1. m \in 1 .. Len(items) /\ batch'[w][m].id = Len(hist) + m /\ batch'[u][j].id \in 1 .. Len(hist)
      BY <1>4, <1>5, <2>5, Zenon
    <3> QED BY <1>5, <2>3, <3>1, Zenon
  <2> QED BY <2>1, <2>2, <2>4, <2>5, Zenon
<1>6. \A u \in Thread :
          /\ applied'[u] <= Len(batch'[u])
          /\ pc'[u] = "check" \/ (pc'[u] = "freeze" /\ call'[u] \notin Flushing)
                => applied'[u] = Len(batch'[u])
  <2>1. 0 <= Len(items)
    OBVIOUS
  <2>2. applied'[t] <= Len(batch'[t]) /\ pc'[t] # "check" /\ pc'[t] # "freeze"
    BY <1>1, <1>2, <2>1, Zenon
  <2>3. ASSUME NEW u \in Thread \ {t}
        PROVE  /\ applied'[u] <= Len(batch'[u])
               /\ pc'[u] = "check" \/ (pc'[u] = "freeze" /\ call'[u] \notin Flushing)
                     => applied'[u] = Len(batch'[u])
    BY <1>1, <2>3, Zenon DEF BatchOK
  <2> QED BY <2>2, <2>3, Zenon
<1>7. BatchOK'
  <2>1. acked' = acked
    BY <1>1, Zenon
  <2>2. \A u \in Thread : \A j \in DOMAIN batch'[u] :
            /\ batch'[u][j].id \in DOMAIN hist' /\ batch'[u][j].id \notin acked'
            /\ hist'[batch'[u][j].id].op = batch'[u][j]
    BY <1>4, <2>1, Zenon
  <2>3. \A u, w \in Thread : \A j \in DOMAIN batch'[u], m \in DOMAIN batch'[w] :
            batch'[u][j].id = batch'[w][m].id => u = w /\ j = m
    BY <1>5, Zenon
  <2> QED BY <1>6, <2>2, <2>3, Zenon DEF BatchOK
<1> QED BY <1>3, <1>7, Zenon

(* A write begins with a list of operations.                               *)
LEMMA BeginsWrite ==
    ASSUME NEW t \in Thread, Put(t) \/ Delete(t) \/ Write(t)
    PROVE  \E c, items : Len(items) \in Nat /\ BeginWrite(t, c, items)
<1>1. CASE Put(t) \/ Delete(t)
  <2>1. PICK c, x : BeginWrite(t, c, <<x>>)
    BY <1>1, Zenon DEF Put, Delete
  <2>2. Len(<<x>>) \in Nat
    BY Zenon
  <2> QED BY <2>1, <2>2, Zenon
<1>2. CASE Write(t)
  <2>1. PICK n \in 1 .. MaxBatch : \E items \in [1 .. n -> [key : Key, kind : Kinds]] :
              BeginWrite(t, "write", items)
    BY <1>2, Zenon DEF Write
  <2>2. PICK items \in [1 .. n -> [key : Key, kind : Kinds]] : BeginWrite(t, "write", items)
    BY <2>1, Zenon
  <2>3. Len(items) \in Nat
    BY ConstantsAssumption
  <2> QED BY <2>2, <2>3, Zenon
<1> QED BY <1>1, <1>2, Zenon

LEMMA HistStep ==
    ASSUME TypeInv, TypeInv', DownEmpty, CallInv, HistOK, BatchOK, [Next]_vars
    PROVE  HistOK' /\ BatchOK'
<1>1. ASSUME NEW t \in Thread, ThreadNext(t) PROVE HistOK' /\ BatchOK'
  <2>1. CASE Put(t) \/ Delete(t) \/ Write(t)
    BY <2>1, BeginsWrite, BeginWriteHist, Zenon
  <2>2. CASE Apply(t) \/ CheckSize(t) \/ Freeze(t)
    BY <2>2, AppliedHist, Zenon DEF CallInv
  <2>3. CASE ~(Put(t) \/ Delete(t) \/ Write(t) \/ Apply(t) \/ CheckSize(t) \/ Freeze(t))
    BY <1>1, <2>3, QuietSteps, QuietKeeps, Zenon
  <2> QED BY <2>1, <2>2, <2>3, Zenon
<1>2. CASE Crash \/ Open \/ Spill \/ UNCHANGED vars
  <2>1. Quiet
    BY <1>2 DEF Crash, Vanish, Open, Spill, vars, locals, ghosts, Quiet
  <2> QED BY <2>1, QuietKeeps, Zenon
<1> QED BY <1>1, <1>2, Zenon DEF Next, Rest

(***************************************************************************)
(* Sequence numbers of the first session.                                  *)
(***************************************************************************)
LEMMA BatchesStay ==
    ASSUME TypeInv, NEW t \in Thread, ThreadNext(t), ~(Put(t) \/ Delete(t) \/ Write(t))
    PROVE  /\ hist' = hist
           /\ \A u \in Thread : \/ batch'[u] = <<>>
                                \/ batch'[u] = batch[u] /\ base'[u] = base[u]
<1>1. CASE Apply(t) \/ CheckSize(t) \/ Freeze(t)
  <2>1. CASE Return(t, Ids(batch[t]))
    BY <1>1, <2>1, Zenon DEF Apply, CheckSize, Freeze, Return, TypeInv, LocalsOK
  <2>2. CASE ~Return(t, Ids(batch[t]))
    BY <1>1, <2>2, Zenon DEF Apply, CheckSize, Freeze, locals
  <2> QED BY <2>1, <2>2, Zenon
<1>2. CASE ~(Apply(t) \/ CheckSize(t) \/ Freeze(t))
  BY <1>2, QuietSteps, Zenon DEF Quiet
<1> QED BY <1>1, <1>2, Zenon

LEMMA HistGrows ==
    ASSUME TypeInv, TypeInv', NEW t \in Thread, ThreadNext(t)
    PROVE  \A i \in DOMAIN hist : i \in DOMAIN hist' /\ hist'[i] = hist[i]
<1>1. CASE Put(t) \/ Delete(t) \/ Write(t)
  <2>1. PICK c, items : Len(items) \in Nat /\ BeginWrite(t, c, items)
    BY <1>1, BeginsWrite, Zenon
  <2>2. /\ Len(hist) \in Nat /\ Len(hist') = Len(hist) + Len(items)
        /\ \A i \in 1 .. Len(hist) : hist'[i] = hist[i]
    BY <2>1, BeginWriteShape, Zenon DEF Issues
  <2>3. DOMAIN hist = 1 .. Len(hist) /\ DOMAIN hist' = 1 .. Len(hist')
    <3>1. hist \in Seq(Issued) /\ hist' \in Seq(Issued)
      BY Zenon DEF TypeInv, GhostsOK
    <3> QED BY <3>1, ListFacts, Zenon
  <2>4. \A i \in 1 .. Len(hist) : i \in 1 .. Len(hist')
    <3>1. Len(hist) \in Nat /\ Len(items) \in Nat /\ Len(hist') = Len(hist) + Len(items)
      BY <2>1, <2>2, Zenon
    <3> QED BY <3>1
  <2> QED BY <2>2, <2>3, <2>4, Zenon
<1>2. CASE ~(Put(t) \/ Delete(t) \/ Write(t))
  BY <1>2, BatchesStay, Zenon
<1> QED BY <1>1, <1>2, Zenon

LEMMA NumberedBy ==
    ASSUME Numbered, hist' = hist, sequence' = sequence, MemoryVersions' \subseteq MemoryVersions,
           \A u \in Thread : batch'[u] = <<>> \/ (batch'[u] = batch[u] /\ base'[u] = base[u])
    PROVE  Numbered'
<1>1. ASSUME NEW u \in Thread, NEW j \in DOMAIN batch'[u]
      PROVE  base'[u] + j = batch'[u][j].id + 1
  <2>1. batch'[u] # <<>>
    BY <1>1, NoneIn, Zenon
  <2>2. batch'[u] = batch[u] /\ base'[u] = base[u]
    BY <2>1, Zenon
  <2>3. j \in DOMAIN batch[u]
    BY <1>1, <2>2, Zenon
  <2> QED BY <2>2, <2>3, Zenon DEF Numbered
<1> QED BY <1>1, Zenon DEF Numbered

LEMMA BeginWriteNumbered ==
    ASSUME TypeInv, TypeInv', Numbered, NEW t \in Thread, NEW c, NEW items,
           Len(items) \in Nat, BeginWrite(t, c, items)
    PROVE  Numbered'
<1>1. /\ Len(hist) \in Nat /\ Len(hist') = Len(hist) + Len(items)
      /\ Len(batch'[t]) = Len(items) /\ DOMAIN batch'[t] = 1 .. Len(items)
      /\ \A j \in 1 .. Len(items) :
            /\ batch'[t][j].id = Len(hist) + j
            /\ hist'[Len(hist) + j].op = batch'[t][j] /\ hist'[Len(hist) + j].after = acked
      /\ \A i \in 1 .. Len(hist) : hist'[i] = hist[i]
      /\ \A u \in Thread \ {t} : batch'[u] = batch[u] /\ pc'[u] = pc[u] /\ call'[u] = call[u]
  <2>1. Issues(t, items)
    BY BeginWriteShape, Zenon
  <2> QED BY <2>1, Zenon DEF Issues
<1>2. /\ sequence' = sequence + Len(items) /\ base'[t] = sequence + 1
      /\ \A u \in Thread \ {t} : base'[u] = base[u]
  BY Zenon DEF BeginWrite, TypeInv, LocalsOK
<1>3. MemoryVersions' = MemoryVersions
  <2>1. UNCHANGED <<memtable, immutable, held>>
    BY Zenon DEF BeginWrite
  <2> QED BY <2>1, Zenon DEF MemoryVersions
<1>4. DOMAIN hist = 1 .. Len(hist) /\ DOMAIN hist' = 1 .. Len(hist')
  <2>1. hist \in Seq(Issued) /\ hist' \in Seq(Issued)
    BY Zenon DEF TypeInv, GhostsOK
  <2> QED BY <2>1, ListFacts, Zenon
<1>5. sequence' = Len(hist')
  BY <1>1, <1>2, Zenon DEF Numbered
<1>6. \A u \in Thread : \A j \in DOMAIN batch'[u] : base'[u] + j = batch'[u][j].id + 1
  <2>1. ASSUME NEW j \in 1 .. Len(items) PROVE base'[t] + j = batch'[t][j].id + 1
    <3>1. base'[t] = Len(hist) + 1 /\ batch'[t][j].id = Len(hist) + j
      BY <1>1, <1>2, Zenon DEF Numbered
    <3>2. j \in Nat
      OBVIOUS
    <3>3. Len(hist) \in Nat
      BY <1>1, Zenon
    <3>4. (Len(hist) + 1) + j = (Len(hist) + j) + 1
      BY <3>2, <3>3, AddSwap, Zenon
    <3> QED BY <3>1, <3>4, Zenon
  <2>2. ASSUME NEW u \in Thread \ {t}, NEW j \in DOMAIN batch'[u]
        PROVE  base'[u] + j = batch'[u][j].id + 1
    <3>1. batch'[u] = batch[u] /\ base'[u] = base[u]
      BY <1>1, <1>2, Zenon
    <3> QED BY <2>2, <3>1, Zenon DEF Numbered
  <2>3. \A j \in DOMAIN batch'[t] : base'[t] + j = batch'[t][j].id + 1
    BY <1>1, <2>1, Zenon
  <2> QED BY <2>2, <2>3, Zenon
<1>7. \A v \in MemoryVersions' :
          v.seq = v.op.id /\ v.op.id \in DOMAIN hist' /\ hist'[v.op.id].op = v.op
  <2>1. \A v \in MemoryVersions :
            v.seq = v.op.id /\ v.op.id \in 1 .. Len(hist) /\ hist[v.op.id].op = v.op
    BY <1>4, Zenon DEF Numbered
  <2>2. \A i \in 1 .. Len(hist) : i \in 1 .. Len(hist')
    <3>1. Len(hist) \in Nat /\ Len(hist') = Len(hist) + Len(items)
      BY <1>1, Zenon
    <3> QED BY <3>1
  <2> QED BY <1>1, <1>3, <1>4, <2>1, <2>2, Zenon
<1> QED BY <1>5, <1>6, <1>7, Zenon DEF Numbered

(* The version that Apply inserts, and its place in the history.           *)
Entry(t) == [op |-> batch[t][applied[t] + 1], seq |-> base[t] + applied[t]]

LEMMA EntryFacts ==
    ASSUME SeqInv, BatchOK, Numbered, NEW t \in Thread, Apply(t)
    PROVE  /\ memtable' = memtable \cup {Entry(t)} /\ UNCHANGED <<sequence, immutable, hist>>
           /\ applied[t] + 1 \in DOMAIN batch[t] /\ Entry(t).op = batch[t][applied[t] + 1]
           /\ Entry(t).seq = Entry(t).op.id /\ Entry(t).seq \in Nat
           /\ Entry(t).op.id \in DOMAIN hist /\ Entry(t).op.id \notin acked
           /\ hist[Entry(t).op.id].op = Entry(t).op
           /\ \A v \in MemoryVersions : v.seq # Entry(t).seq
           /\ \A u \in Thread : held'[u] \subseteq held[u]
<1>0. /\ base[t] \in Nat /\ applied[t] \in Nat /\ Len(batch[t]) \in Nat /\ SeqUnique
      /\ DOMAIN batch[t] = 1 .. Len(batch[t]) /\ held \in [Thread -> SUBSET Version]
      /\ \A j \in DOMAIN batch[t] : batch[t][j].id \in Nat
  <2>1. batch[t] \in Seq(Op)
    BY Zenon DEF SeqInv, TypeInv, LocalsOK
  <2>2. \A j \in DOMAIN batch[t] : batch[t][j].id \in Nat
    <3>1. \A j \in DOMAIN batch[t] : batch[t][j] \in Op
      BY <2>1, ListFacts, Zenon
    <3> QED BY <3>1, Zenon DEF Op
  <2>3. Len(batch[t]) \in Nat /\ DOMAIN batch[t] = 1 .. Len(batch[t])
    BY <2>1, ListFacts, Zenon
  <2> QED BY <2>2, <2>3, Zenon DEF SeqInv, TypeInv, LocalsOK
<1>1. /\ pc[t] = "apply" /\ applied[t] < Len(batch[t])
      /\ memtable' = memtable \cup {Entry(t)} /\ UNCHANGED <<sequence, immutable, hist>>
  BY Zenon DEF Apply, Entry, SeqInv, TypeInv, BatchReady
<1>n. /\ base[t] \in Nat /\ applied[t] \in Nat /\ Len(batch[t]) \in Nat
      /\ DOMAIN batch[t] = 1 .. Len(batch[t]) /\ applied[t] < Len(batch[t])
  BY <1>0, <1>1, Zenon
<1>2. applied[t] + 1 \in DOMAIN batch[t] /\ Entry(t).op = batch[t][applied[t] + 1]
      /\ Entry(t).seq = base[t] + applied[t] /\ Entry(t).seq \in Nat
  <2>1. applied[t] + 1 \in DOMAIN batch[t] /\ base[t] + applied[t] \in Nat
    BY <1>n
  <2> QED BY <2>1, Zenon DEF Entry
<1>3. base[t] + (applied[t] + 1) = batch[t][applied[t] + 1].id + 1
  BY <1>2, Zenon DEF Numbered
<1>4. Entry(t).seq = Entry(t).op.id
  <2>1. batch[t][applied[t] + 1].id \in Nat
    BY <1>0, <1>2, Zenon
  <2>2. ASSUME NEW x \in Nat, base[t] + (applied[t] + 1) = x + 1 PROVE base[t] + applied[t] = x
    BY <1>n, <2>2
  <2> QED BY <1>2, <1>3, <2>1, <2>2, Zenon
<1>5. /\ Entry(t).op.id \in DOMAIN hist /\ Entry(t).op.id \notin acked
      /\ hist[Entry(t).op.id].op = Entry(t).op
  <2>1. PICK j \in DOMAIN batch[t] : j = applied[t] + 1
    BY <1>2, Zenon
  <2>2. /\ batch[t][j].id \in DOMAIN hist /\ batch[t][j].id \notin acked
        /\ hist[batch[t][j].id].op = batch[t][j]
    BY Zenon DEF BatchOK
  <2> QED BY <1>2, <2>1, <2>2, Zenon
<1>6. base[t] + applied[t] \in PendingSeqs(t)
  <2>1. base[t] + applied[t] \in base[t] + applied[t] .. base[t] + Len(batch[t]) - 1
    BY <1>n
  <2> QED BY <1>1, <2>1, Zenon DEF PendingSeqs
<1>7. \A v \in MemoryVersions : v.seq # Entry(t).seq
  <2>1. \A v \in MemoryVersions : v.seq \notin PendingSeqs(t)
    BY <1>0, Zenon DEF SeqUnique
  <2>2. Entry(t).seq \in PendingSeqs(t)
    BY <1>2, <1>6, Zenon
  <2> QED BY <2>1, <2>2, Zenon
<1>8. \A u \in Thread : held'[u] \subseteq held[u]
  <2>1. CASE Return(t, Ids(batch[t]))
    BY <1>0, <2>1, Zenon DEF Return
  <2>2. CASE ~Return(t, Ids(batch[t]))
    BY <2>2, Zenon DEF Apply
  <2> QED BY <2>1, <2>2, Zenon
<1> QED BY <1>1, <1>2, <1>4, <1>5, <1>7, <1>8, Zenon

LEMMA NumberedStep ==
    ASSUME SeqInv, TypeInv', BatchOK, Numbered, NEW t \in Thread, ThreadNext(t), mode' = "up"
    PROVE  Numbered'
<1>0. TypeInv
  BY Zenon DEF SeqInv
<1>1. CASE Put(t) \/ Delete(t) \/ Write(t)
  BY <1>0, <1>1, BeginsWrite, BeginWriteNumbered, Zenon
<1>2. CASE Apply(t)
  <2>1. MemoryVersions' \subseteq MemoryVersions \cup {Entry(t)}
    BY <1>2, EntryFacts, InMemoryVersions, InMemoryVersionsNext, Zenon
  <2>2. /\ hist' = hist /\ sequence' = sequence
        /\ \A u \in Thread : batch'[u] = <<>> \/ (batch'[u] = batch[u] /\ base'[u] = base[u])
    <3>1. ~(Put(t) \/ Delete(t) \/ Write(t))
      BY <1>2, Zenon DEF Apply, Put, Delete, Write, BeginWrite, MayWrite
    <3> QED BY <1>0, <1>2, <3>1, BatchesStay, EntryFacts, Zenon
  <2>3. ASSUME NEW u \in Thread, NEW j \in DOMAIN batch'[u]
        PROVE  base'[u] + j = batch'[u][j].id + 1
    <3>1. batch'[u] # <<>>
      BY <2>3, NoneIn, Zenon
    <3>2. batch'[u] = batch[u] /\ base'[u] = base[u]
      BY <2>2, <3>1, Zenon
    <3>3. j \in DOMAIN batch[u]
      BY <2>3, <3>2, Zenon
    <3> QED BY <3>2, <3>3, Zenon DEF Numbered
  <2>4. ASSUME NEW v \in MemoryVersions'
        PROVE  v.seq = v.op.id /\ v.op.id \in DOMAIN hist /\ hist[v.op.id].op = v.op
    <3>1. v \in MemoryVersions \/ v = Entry(t)
      BY <2>1, <2>4, Zenon
    <3>2. CASE v \in MemoryVersions
      BY <3>2, Zenon DEF Numbered
    <3>3. CASE v = Entry(t)
      BY <1>2, <3>3, EntryFacts, Zenon
    <3> QED BY <3>1, <3>2, <3>3, Zenon
  <2>5. sequence' = Len(hist')
    BY <2>2, Zenon DEF Numbered
  <2> QED BY <2>2, <2>3, <2>4, <2>5, Zenon DEF Numbered
<1>3. CASE ~(Put(t) \/ Delete(t) \/ Write(t) \/ Apply(t))
  <2>1. MemoryVersions' \subseteq MemoryVersions /\ sequence' = sequence
    <3>1. CASE CloseSync(t)
      <4>1. Return(t, {}) /\ UNCHANGED <<sequence, memtable, immutable>>
        BY <3>1, Zenon DEF CloseSync, Vanish
      <4> QED BY <1>0, <4>1, ReturnCalm, CalmVersions, Zenon DEF Calm
    <3>2. CASE Freeze(t) \/ FlushTake(t)
      BY <1>0, <3>2, RenameKeeps, Zenon DEF Freeze, FlushTake
    <3>3. CASE ~(CloseSync(t) \/ Freeze(t) \/ FlushTake(t))
      <4>1. Calm
        BY <1>0, <1>3, <3>3, CalmSteps, Zenon DEF ThreadNext
      <4> QED BY <4>1, CalmVersions, Zenon DEF Calm
    <3> QED BY <3>1, <3>2, <3>3, Zenon
  <2> QED BY <1>0, <1>3, <2>1, BatchesStay, NumberedBy, Zenon
<1> QED BY <1>1, <1>2, <1>3, Zenon

(* Operation i has been inserted, whether or not its call has returned.    *)
Inserted(i) == i \in acked \/ \E t \in Thread : \E j \in 1 .. applied[t] : batch[t][j].id = i

(* Only Apply inserts an operation, and only what has been inserted is     *)
(* acknowledged.                                                           *)
LEMMA InsertedStep ==
    ASSUME TypeInv, CallsMatch, HistOK, BatchOK, NEW t \in Thread, ThreadNext(t), NEW i, Inserted(i)'
    PROVE  Inserted(i) \/ (Apply(t) /\ i = Entry(t).op.id)
<1>0. applied \in [Thread -> Nat] /\ \A u \in Thread : Len(batch[u]) \in Nat /\ DOMAIN batch[u] = 1 .. Len(batch[u])
  <2>1. applied \in [Thread -> Nat] /\ \A u \in Thread : batch[u] \in Seq(Op)
    BY Zenon DEF TypeInv, LocalsOK
  <2> QED BY <2>1, ListFacts, Zenon
<1>n. applied[t] \in Nat /\ Len(batch[t]) \in Nat /\ DOMAIN batch[t] = 1 .. Len(batch[t])
  BY <1>0, Zenon
<1>1. CASE Put(t) \/ Delete(t) \/ Write(t)
  <2>1. PICK c, items : Len(items) \in Nat /\ BeginWrite(t, c, items)
    BY <1>1, BeginsWrite, Zenon
  <2>2. /\ acked' = acked /\ applied' = applied
        /\ \A u \in Thread \ {t} : batch'[u] = batch[u]
    BY <2>1, BeginWriteShape, Zenon DEF Issues
  <2>3. applied[t] = 0
    BY <2>1, Zenon DEF TypeInv, BatchReady, BeginWrite, MayWrite
  <2>4. \A u \in Thread : \A j \in 1 .. applied'[u] : u # t
    BY <2>2, <2>3
  <2> QED BY <2>2, <2>4, Zenon DEF Inserted
<1>2. CASE ~(Put(t) \/ Delete(t) \/ Write(t) \/ Apply(t) \/ CheckSize(t) \/ Freeze(t))
  <2>1. Quiet
    BY <1>2, QuietSteps, Zenon
  <2>2. acked' = acked
    BY <2>1, Zenon DEF Quiet
  <2>3. ASSUME NEW u \in Thread, NEW j \in 1 .. applied'[u], batch'[u][j].id = i
        PROVE  Inserted(i)
    <3>1. CASE applied'[u] = 0
      BY <3>1, <2>3
    <3>2. CASE applied'[u] = applied[u] /\ batch'[u] = batch[u]
      BY <3>2, <2>3, Zenon DEF Inserted
    <3> QED BY <2>1, <3>1, <3>2, Zenon DEF Quiet
  <2> QED BY <2>2, <2>3, Zenon DEF Inserted
<1>3. CASE Apply(t) \/ CheckSize(t) \/ Freeze(t)
  <2> DEFINE n == applied[t] + 1
  <2>1. ASSUME NEW j \in 1 .. n, batch[t][j].id = i, Apply(t)
        PROVE  Inserted(i) \/ (Apply(t) /\ i = Entry(t).op.id)
    <3>1. j \in 1 .. applied[t] \/ j = applied[t] + 1
      BY <1>n
    <3> QED BY <2>1, <3>1, Zenon DEF Inserted, Entry
  <2>2. CASE Return(t, Ids(batch[t]))
    <3>1. /\ acked' = acked \cup Ids(batch[t]) /\ applied'[t] = 0
          /\ \A u \in Thread \ {t} : batch'[u] = batch[u] /\ applied'[u] = applied[u]
      BY <2>2, Zenon DEF Return, TypeInv, LocalsOK
    <3>2. ASSUME NEW u \in Thread, NEW j \in 1 .. applied'[u], batch'[u][j].id = i
          PROVE  Inserted(i)
      <4>1. u # t
        BY <3>1, <3>2
      <4> QED BY <3>1, <3>2, <4>1, Zenon DEF Inserted
    <3>3. ASSUME NEW j \in DOMAIN batch[t], batch[t][j].id = i
          PROVE  Inserted(i) \/ (Apply(t) /\ i = Entry(t).op.id)
      <4>1. CASE Apply(t)
        <5>1. Len(batch[t]) <= n
          <6>1. CASE n = Len(batch[t])
            BY <1>n, <6>1
          <6>2. CASE n # Len(batch[t])
            <7>1. pc'[t] = "apply" /\ pc'[t] = "idle"
              BY <2>2, <4>1, <6>2, Zenon DEF Apply, Return, Goto, TypeInv, LocalsOK
            <7> QED BY <7>1, Zenon
          <6> QED BY <6>1, <6>2, Zenon
        <5>2. j \in 1 .. n
          BY <1>n, <3>3, <5>1
        <5> QED BY <2>1, <3>3, <4>1, <5>2, Zenon
      <4>2. CASE CheckSize(t) \/ Freeze(t)
        <5>1. applied[t] = Len(batch[t])
          <6>1. CASE CheckSize(t)
            BY <6>1, Zenon DEF BatchOK, CheckSize
          <6>2. CASE Freeze(t) /\ call[t] \notin Flushing
            BY <6>2, Zenon DEF BatchOK, Freeze
          <6>3. CASE Freeze(t) /\ call[t] \in Flushing
            <7>1. pc'[t] = "take" /\ pc'[t] = "idle"
              BY <2>2, <6>3, Zenon DEF Freeze, Return, Goto, TypeInv, LocalsOK
            <7> QED BY <7>1, Zenon
          <6> QED BY <4>2, <6>1, <6>2, <6>3, Zenon
        <5>2. j \in 1 .. applied[t]
          BY <1>0, <3>3, <5>1, Zenon
        <5> QED BY <3>3, <5>2, Zenon DEF Inserted
      <4> QED BY <1>3, <4>1, <4>2, Zenon
    <3>4. i \in acked' => i \in acked \/ \E j \in DOMAIN batch[t] : batch[t][j].id = i
      BY <3>1, Zenon DEF Ids
    <3>5. i \in acked' \/ \E u \in Thread : \E j \in 1 .. applied'[u] : batch'[u][j].id = i
      BY Zenon DEF Inserted
    <3>6. i \in acked => Inserted(i)
      BY Zenon DEF Inserted
    <3> QED BY <3>2, <3>3, <3>4, <3>5, <3>6, Zenon
  <2>3. CASE ~Return(t, Ids(batch[t]))
    <3>1. /\ acked' = acked /\ batch' = batch
          /\ applied' = applied \/ (Apply(t) /\ applied' = [applied EXCEPT ![t] = n])
      BY <1>3, <2>3, Zenon DEF Apply, CheckSize, Freeze, locals
    <3>2. CASE applied' = applied
      BY <3>1, <3>2, Zenon DEF Inserted
    <3>3. CASE Apply(t) /\ applied' = [applied EXCEPT ![t] = n]
      <4>1. applied'[t] = n /\ \A u \in Thread \ {t} : applied'[u] = applied[u]
        BY <1>0, <3>3, Zenon
      <4> HIDE DEF n
      <4>2. ASSUME NEW u \in Thread, NEW j \in 1 .. applied'[u], batch'[u][j].id = i
            PROVE  Inserted(i) \/ (Apply(t) /\ i = Entry(t).op.id)
        <5>1. CASE u = t
          BY <2>1, <3>1, <3>3, <4>1, <4>2, <5>1, Zenon
        <5>2. CASE u # t
          BY <3>1, <4>1, <4>2, <5>2, Zenon DEF Inserted
        <5> QED BY <5>1, <5>2, Zenon
      <4>3. i \in acked' \/ \E u \in Thread : \E j \in 1 .. applied'[u] : batch'[u][j].id = i
        BY Zenon DEF Inserted
      <4>4. i \in acked' => Inserted(i)
        BY <3>1, Zenon DEF Inserted
      <4> QED BY <4>2, <4>3, <4>4, Zenon
    <3> QED BY <3>1, <3>2, <3>3, Zenon
  <2> QED BY <2>2, <2>3, Zenon
<1> QED BY <1>1, <1>2, <1>3, Zenon

LEMMA InsertedIssued ==
    ASSUME TypeInv, HistOK, BatchOK, NEW i, Inserted(i) PROVE i \in DOMAIN hist
<1>1. CASE i \in acked
  BY <1>1, Zenon DEF HistOK
<1>2. CASE i \notin acked
  <2>0. PICK t \in Thread : \E j \in 1 .. applied[t] : batch[t][j].id = i
    BY <1>2, Zenon DEF Inserted
  <2>1. PICK j \in 1 .. applied[t] : batch[t][j].id = i
    BY <2>0, Zenon
  <2>2. applied[t] \in Nat /\ DOMAIN batch[t] = 1 .. Len(batch[t]) /\ Len(batch[t]) \in Nat
    <3>1. applied[t] \in Nat /\ batch[t] \in Seq(Op)
      BY Zenon DEF TypeInv, LocalsOK
    <3> QED BY <3>1, ListFacts, Zenon
  <2>3. applied[t] <= Len(batch[t])
    BY Zenon DEF BatchOK
  <2>4. j \in DOMAIN batch[t]
    BY <2>2, <2>3
  <2> QED BY <2>1, <2>4, Zenon DEF BatchOK
<1> QED BY <1>1, <1>2, Zenon
=============================================================================
