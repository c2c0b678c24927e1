------------------------------- MODULE Engine -------------------------------
(***************************************************************************)
(* The DB object of src/lib.rs: the write path (WAL, MemTable, freeze),    *)
(* flush, WAL rotation and compaction, run by any number of client threads *)
(* on one database directory, with crashes and reopening.  One action is   *)
(* one critical section or one file operation of the code.                 *)
(***************************************************************************)
EXTENDS Tables, FiniteSets

CONSTANTS
    Writers,          \* threads that call put, delete and write
    Flushers,         \* threads that flush, compact, close and drop the database
    Kinds,            \* the kinds of operation the clients issue
    MaxOps,           \* bound: operations issued in a behaviour
    MaxBatch,         \* bound: operations in one WriteBatch
    MaxOpens,         \* bound: calls of DB::open
    MaxFaults,        \* bound: I/O errors
    MaxFile,          \* bound: no flush or compaction starts past this file number
    MaxWal,           \* bound: no flush starts past this WAL number
    MemtableSize,     \* Options::memtable_size, in entries
    MaxLevel0Files,   \* MAX_LEVEL0_FILES
    MaxLevels,        \* Options::max_levels
    LevelBase,        \* target_size_for_level: LevelBase ^ level, in entries
    UseWal, SyncWal,  \* Options::use_wal, Options::sync_wal
    ExclusiveFlush    \* the clients never run a flush beside another call

ASSUME ConstantsAssumption ==
    /\ Kinds \subseteq Kind
    /\ {MaxOps, MaxBatch, MaxOpens, MaxFaults, MaxFile, MaxWal, LevelBase} \subseteq Nat
    /\ MemtableSize \in Nat \ {0} /\ MaxLevel0Files \in Nat \ {0}
    /\ MaxLevels \in Nat \ {0, 1}
    /\ UseWal \in BOOLEAN /\ SyncWal \in BOOLEAN /\ ExclusiveFlush \in BOOLEAN

Thread == Writers \cup Flushers
Level == 0 .. MaxLevels - 1

VARIABLES
    mode,                     \* "up" while a DB object exists
    sequence, memtable, immutable, levels, rank, nextFile, wal, walBuf, walNumber,
    logs, files, version,                                \* the database directory
    pc, call, batch, base, applied, held, num, task, must,    \* the threads
    hist, acked, purged, opens, faults                   \* history and bounds

memory == <<sequence, memtable, immutable, levels, rank, nextFile, wal, walBuf, walNumber>>
disk == <<logs, files, version>>
locals == <<call, batch, base, applied, held, num, task, must>>
ghosts == <<hist, acked, purged, opens, faults>>
vars == <<mode, memory, disk, pc, locals, ghosts>>

(* The steps of the calls, in program order.                               *)
WriteSteps == {"log", "sync", "apply", "check", "freeze"}
FlushSteps == {"freeze", "take", "create", "build", "install"}
RotateSteps == {"rotate", "swap", "unlink"}
CompactSteps == {"pick", "ccreate", "cmerge", "cinstall", "cdelete"}
Step == {"idle", "closing"} \cup WriteSteps \cup FlushSteps \cup RotateSteps \cup CompactSteps

Writing == {"delete", "write"}
Flushing == {"flush", "close", "drop"}
Call == {"none", "compact"} \cup Writing \cup Flushing

(* An open SSTableReader; gen tells two files with the same number apart.  *)
Handle == [rank : Int, file : Nat, gen : Nat, data : SUBSET Op]
File == [gen : Nat, done : BOOLEAN, data : SUBSET Op]
Task == [level : 0 .. MaxLevels - 2, inputs : SUBSET Handle]
NoTask == [level |-> 0, inputs |-> {}]

Without(f, x) == [y \in DOMAIN f \ {x} |-> f[y]]
With(f, x, e) == [y \in DOMAIN f \cup {x} |-> IF y = x THEN e ELSE f[y]]
Goto(t, s) == pc' = [pc EXCEPT ![t] = s]

Init ==
    /\ mode = "down"
    /\ sequence = 0 /\ memtable = {} /\ immutable = <<>>
    /\ levels = [l \in Level |-> {}] /\ rank = 0
    /\ nextFile = 2 /\ wal = 1 /\ walBuf = <<>> /\ walNumber = 1
    /\ logs = <<>> /\ files = <<>> /\ version = {}
    /\ pc = [t \in Thread |-> "idle"]
    /\ call = [t \in Thread |-> "none"]
    /\ batch = [t \in Thread |-> <<>>]
    /\ base = [t \in Thread |-> 0]
    /\ applied = [t \in Thread |-> 0]
    /\ held = [t \in Thread |-> {}]
    /\ num = [t \in Thread |-> 0]
    /\ task = [t \in Thread |-> NoTask]
    /\ must = [t \in Thread |-> {}]
    /\ hist = <<>> /\ acked = {} /\ purged = {}
    /\ opens = 0 /\ faults = 0
-----------------------------------------------------------------------------
(***************************************************************************)
(* Opening and crashing.                                                   *)
(***************************************************************************)

(* DB::open loads every complete *.sst into level 0, by ascending number.  *)
LoadedTables ==
    {[rank |-> n, file |-> n, gen |-> files[n].gen, data |-> files[n].data] :
        n \in {m \in DOMAIN files : files[m].done}}

(* Only the log with the highest number (1 if there is none) is opened and *)
(* replayed; replay numbers its entries from 1.  File numbers restart at 2.*)
LatestLogs == {n \in {1} \cup DOMAIN logs : \A m \in DOMAIN logs : m <= n}
Entries(n) == IF n \in DOMAIN logs THEN logs[n] ELSE <<>>
(* Mutant: replay goes through the entries backwards.                      *)
ReplayBackwards(s) == {[op |-> s[i], seq |-> Len(s) + 1 - i] : i \in DOMAIN s}

Replay(s) == {[op |-> s[i], seq |-> i] : i \in DOMAIN s}

(* Mutant: the log is truncated when it is opened.                         *)
OpenTruncating ==
    /\ mode = "down" /\ opens < MaxOpens
    /\ mode' = "up" /\ opens' = opens + 1
    /\ \E n \in LatestLogs :
          /\ wal' = n /\ walNumber' = n
          /\ logs' = With(logs, n, <<>>)
          /\ sequence' = Len(Entries(n))
          /\ memtable' = Replay(Entries(n))
    /\ levels' = [l \in Level |-> IF l = 0 THEN LoadedTables ELSE {}]
    /\ UNCHANGED <<immutable, rank, nextFile, walBuf, files, version, pc, locals,
                   hist, acked, purged, faults>>

Open ==
    /\ mode = "down" /\ opens < MaxOpens
    /\ mode' = "up" /\ opens' = opens + 1
    /\ \E n \in LatestLogs :
          /\ wal' = n /\ walNumber' = n
          /\ logs' = With(logs, n, Entries(n))
          /\ sequence' = Len(Entries(n))
          /\ memtable' = Replay(Entries(n))
    /\ levels' = [l \in Level |-> IF l = 0 THEN LoadedTables ELSE {}]
    /\ UNCHANGED <<immutable, rank, nextFile, walBuf, files, version, pc, locals,
                   hist, acked, purged, faults>>

(* The DB object goes; the directory stays.                                *)
Vanish ==
    /\ mode' = "down"
    /\ sequence' = 0 /\ memtable' = {} /\ immutable' = <<>>
    /\ levels' = [l \in Level |-> {}] /\ rank' = 0
    /\ nextFile' = 2 /\ wal' = 1 /\ walBuf' = <<>> /\ walNumber' = 1
    /\ pc' = [t \in Thread |-> "idle"]
    /\ call' = [t \in Thread |-> "none"]
    /\ batch' = [t \in Thread |-> <<>>]
    /\ base' = [t \in Thread |-> 0]
    /\ applied' = [t \in Thread |-> 0]
    /\ held' = [t \in Thread |-> {}]
    /\ num' = [t \in Thread |-> 0]
    /\ task' = [t \in Thread |-> NoTask]
    /\ must' = [t \in Thread |-> {}]

(* The process dies.                                                       *)
Crash ==
    /\ mode = "up" /\ opens < MaxOpens
    /\ Vanish
    /\ UNCHANGED <<disk, ghosts>>
-----------------------------------------------------------------------------
(***************************************************************************)
(* put, delete and write.                                                  *)
(***************************************************************************)

(* The call returns; Ok acknowledges the operations ids.                   *)
Return(t, ids) ==
    /\ acked' = acked \cup ids
    /\ Goto(t, "idle")
    /\ call' = [call EXCEPT ![t] = "none"]
    /\ batch' = [batch EXCEPT ![t] = <<>>]
    /\ base' = [base EXCEPT ![t] = 0]
    /\ applied' = [applied EXCEPT ![t] = 0]
    /\ held' = [held EXCEPT ![t] = {}]
    /\ num' = [num EXCEPT ![t] = 0]
    /\ task' = [task EXCEPT ![t] = NoTask]
    /\ must' = [must EXCEPT ![t] = {}]

Ids(s) == {s[i].id : i \in DOMAIN s}

(* Drop has the database to itself; ExclusiveFlush says the same of flush. *)
MayWrite(t) ==
    /\ mode = "up" /\ t \in Writers /\ pc[t] = "idle"
    /\ \A u \in Thread : call[u] # "drop"
    /\ ExclusiveFlush => \A u \in Thread : call[u] \in {"none"} \cup Writing

(* Mutant: the counter is read and not advanced.                           *)
BeginWriteLoad(t, c, items) ==
    /\ MayWrite(t)
    /\ Len(hist) + Len(items) <= MaxOps
    /\ LET ops == [i \in 1 .. Len(items) |->
                     [id |-> Len(hist) + i, key |-> items[i].key, kind |-> items[i].kind]]
       IN  /\ batch' = [batch EXCEPT ![t] = ops]
           /\ hist' = hist \o [i \in 1 .. Len(items) |-> [op |-> ops[i], after |-> acked]]
    /\ base' = [base EXCEPT ![t] = sequence + 1]
    /\ call' = [call EXCEPT ![t] = c]
    /\ Goto(t, IF UseWal THEN "log" ELSE "apply")
    /\ UNCHANGED <<mode, memory, disk, applied, held, num, task, must, acked, purged, opens,
                   faults>>

(* Sequence numbers are taken before the WAL lock.  put runs the steps of  *)
(* a one-operation write; delete ends without the size check.              *)
BeginWrite(t, c, items) ==
    /\ MayWrite(t)
    /\ Len(hist) + Len(items) <= MaxOps
    /\ LET ops == [i \in 1 .. Len(items) |->
                     [id |-> Len(hist) + i, key |-> items[i].key, kind |-> items[i].kind]]
       IN  /\ batch' = [batch EXCEPT ![t] = ops]
           /\ hist' = hist \o [i \in 1 .. Len(items) |-> [op |-> ops[i], after |-> acked]]
    /\ base' = [base EXCEPT ![t] = sequence + 1]
    /\ sequence' = sequence + Len(items)
    /\ call' = [call EXCEPT ![t] = c]
    /\ Goto(t, IF UseWal THEN "log" ELSE "apply")
    /\ UNCHANGED <<mode, memtable, immutable, levels, rank, nextFile, wal, walBuf, walNumber,
                   disk, applied, held, num, task, must, acked, purged, opens, faults>>

Put(t) ==
    \E k \in Key, kind \in Kinds \ {"delete"} :
        BeginWrite(t, "write", <<[key |-> k, kind |-> kind]>>)

Delete(t) ==
    \E k \in Key :
        /\ "delete" \in Kinds
        /\ BeginWrite(t, "delete", <<[key |-> k, kind |-> "delete"]>>)

Write(t) ==
    \E n \in 1 .. MaxBatch : \E items \in [1 .. n -> [key : Key, kind : Kinds]] :
        BeginWrite(t, "write", items)

(* self.wal.write(): held from the append to the sync.                     *)
WalFree == \A t \in Thread : pc[t] # "sync"

(* Mutant: the log is not synced after the append.                         *)
AppendLogUnsynced(t) ==
    /\ pc[t] = "log" /\ WalFree
    /\ walBuf' = walBuf \o batch[t]
    /\ Goto(t, "apply")
    /\ UNCHANGED <<mode, sequence, memtable, immutable, levels, rank, nextFile, wal, walNumber,
                   disk, locals, ghosts>>

AppendLog(t) ==
    /\ pc[t] = "log" /\ WalFree
    /\ walBuf' = walBuf \o batch[t]
    /\ Goto(t, IF SyncWal THEN "sync" ELSE "apply")
    /\ UNCHANGED <<mode, sequence, memtable, immutable, levels, rank, nextFile, wal, walNumber,
                   disk, locals, ghosts>>

(* The BufWriter hands its buffer over to the file.                        *)
FlushBuffer ==
    /\ logs' = [logs EXCEPT ![wal] = @ \o walBuf]
    /\ walBuf' = <<>>

SyncLog(t) ==
    /\ pc[t] = "sync"
    /\ FlushBuffer
    /\ Goto(t, "apply")
    /\ UNCHANGED <<mode, sequence, memtable, immutable, levels, rank, nextFile, wal, walNumber,
                   files, version, locals, ghosts>>

(* A buffer that is full is handed over, entry by entry, at any time.      *)
Spill ==
    /\ mode = "up" /\ walBuf # <<>>
    /\ logs' = [logs EXCEPT ![wal] = Append(@, Head(walBuf))]
    /\ walBuf' = Tail(walBuf)
    /\ UNCHANGED <<mode, sequence, memtable, immutable, levels, rank, nextFile, wal, walNumber,
                   files, version, pc, locals, ghosts>>

(* One insertion into the skip list; the MemTable's read lock is held from *)
(* the first to the last operation of a batch.  delete returns here.       *)
Apply(t) ==
    LET i == applied[t] + 1
        last == i = Len(batch[t])
    IN
    /\ pc[t] = "apply"
    /\ memtable' = memtable \cup {[op |-> batch[t][i], seq |-> base[t] + applied[t]]}
    /\ IF last /\ call[t] = "delete"
       THEN Return(t, Ids(batch[t]))
       ELSE /\ applied' = [applied EXCEPT ![t] = i]
            /\ Goto(t, IF last THEN "check" ELSE "apply")
            /\ UNCHANGED <<call, batch, base, held, num, task, must, acked>>
    /\ UNCHANGED <<mode, sequence, immutable, levels, rank, nextFile, wal, walBuf, walNumber,
                   disk, hist, purged, opens, faults>>

CheckSize(t) ==
    /\ pc[t] = "check"
    /\ IF Cardinality(memtable) >= MemtableSize
       THEN Goto(t, "freeze") /\ UNCHANGED <<locals, acked>>
       ELSE Return(t, Ids(batch[t]))
    /\ UNCHANGED <<mode, memory, disk, hist, purged, opens, faults>>

(* freeze_memtable, from put, write or flush; it does not look at the      *)
(* MemTable it freezes.                                                    *)
MemtableUnlocked == \A t \in Thread : ~(pc[t] = "apply" /\ applied[t] > 0)

Freeze(t) ==
    /\ pc[t] = "freeze" /\ MemtableUnlocked
    /\ immutable' = Append(immutable, memtable)
    /\ memtable' = {}
    /\ IF call[t] \in Flushing
       THEN Goto(t, "take") /\ UNCHANGED <<locals, acked>>
       ELSE Return(t, Ids(batch[t]))
    /\ UNCHANGED <<mode, sequence, levels, rank, nextFile, wal, walBuf, walNumber, disk,
                   hist, purged, opens, faults>>
-----------------------------------------------------------------------------
(***************************************************************************)
(* flush: freeze, then one SSTable per immutable MemTable, then rotation   *)
(* and compaction.  close and drop flush first.                            *)
(***************************************************************************)
MayFlush(t) ==
    /\ mode = "up" /\ t \in Flushers /\ pc[t] = "idle"
    /\ nextFile <= MaxFile
    /\ \A u \in Thread : call[u] # "drop"
    /\ ExclusiveFlush => \A u \in Thread : pc[u] = "idle"

(* Mutant: the active MemTable is not frozen.                              *)
BeginFlushUnfrozen(t, c) ==
    /\ MayFlush(t)
    /\ walNumber < MaxWal
    /\ call' = [call EXCEPT ![t] = c]
    /\ Goto(t, "take")
    /\ must' = [must EXCEPT ![t] = acked]
    /\ UNCHANGED <<mode, memory, disk, batch, base, applied, held, num, task, ghosts>>

(* The emptiness check and the freeze are two critical sections.           *)
BeginFlush(t, c) ==
    /\ MayFlush(t)
    /\ walNumber < MaxWal
    /\ call' = [call EXCEPT ![t] = c]
    /\ Goto(t, IF memtable = {} THEN "take" ELSE "freeze")
    /\ must' = [must EXCEPT ![t] = acked]
    /\ UNCHANGED <<mode, memory, disk, batch, base, applied, held, num, task, ghosts>>

Flush(t) == BeginFlush(t, "flush")

Close(t) == BeginFlush(t, "close")

(* Drop runs when the last reference goes: no other thread is in a call.   *)
Drop(t) == (\A u \in Thread : pc[u] = "idle") /\ BeginFlush(t, "drop")

(* The MemTable leaves the immutable list before it is on disk.            *)
FlushTake(t) ==
    /\ pc[t] = "take"
    /\ IF immutable = <<>>
       THEN Goto(t, "rotate") /\ UNCHANGED <<immutable, held>>
       ELSE /\ held' = [held EXCEPT ![t] = Head(immutable)]
            /\ immutable' = Tail(immutable)
            /\ Goto(t, "create")
    /\ UNCHANGED <<mode, sequence, memtable, levels, rank, nextFile, wal, walBuf, walNumber,
                   disk, call, batch, base, applied, num, task, must, ghosts>>

(* Mutant: the file number is read and not advanced.                       *)
CreateFileSame(t) ==
    /\ num' = [num EXCEPT ![t] = nextFile]
    /\ nextFile' = nextFile
    /\ files' = With(files, nextFile, [gen |-> opens, done |-> FALSE, data |-> {}])

(* SSTableBuilder::new is File::create: an existing file is truncated.     *)
CreateFile(t) ==
    /\ num' = [num EXCEPT ![t] = nextFile]
    /\ nextFile' = nextFile + 1
    /\ files' = With(files, nextFile, [gen |-> opens, done |-> FALSE, data |-> {}])

FinishFile(n, contents) ==
    files' = [files EXCEPT ![n] = [gen |-> @.gen, done |-> TRUE, data |-> contents]]

FlushCreate(t) ==
    /\ pc[t] = "create"
    /\ CreateFile(t)
    /\ Goto(t, "build")
    /\ UNCHANGED <<mode, sequence, memtable, immutable, levels, rank, wal, walBuf, walNumber,
                   logs, version, call, batch, base, applied, held, task, must, ghosts>>

(* Iterate, finish; a MemTable without entries leaves no file behind.      *)
FlushBuild(t) ==
    /\ pc[t] = "build"
    /\ IF held[t] = {}
       THEN files' = Without(files, num[t]) /\ Goto(t, "take")
       ELSE FinishFile(num[t], FlushContents(held[t])) /\ Goto(t, "install")
    /\ UNCHANGED <<mode, memory, logs, version, locals, ghosts>>

(* SSTableReader::open needs the file; the reader gets the given rank.     *)
Openable(t) == num[t] \in DOMAIN files
Reader(t, r) == [rank |-> r, file |-> num[t], gen |-> opens, data |-> files[num[t]].data]

(* The new table goes to the front of level 0.                             *)
FlushInstall(t) ==
    /\ pc[t] = "install" /\ Openable(t)
    /\ rank' = rank + 1
    /\ levels' = [levels EXCEPT ![0] = @ \cup {Reader(t, -(rank + 1))}]
    /\ held' = [held EXCEPT ![t] = {}]
    /\ Goto(t, "take")
    /\ UNCHANGED <<mode, sequence, memtable, immutable, nextFile, wal, walBuf, walNumber, disk,
                   call, batch, base, applied, num, task, must, ghosts>>
-----------------------------------------------------------------------------
(***************************************************************************)
(* rotate_wal.                                                             *)
(***************************************************************************)
RotateOpen(t) ==
    /\ pc[t] = "rotate"
    /\ walNumber' = walNumber + 1
    /\ num' = [num EXCEPT ![t] = walNumber + 1]
    /\ logs' = With(logs, walNumber + 1, Entries(walNumber + 1))
    /\ Goto(t, "swap")
    /\ UNCHANGED <<mode, sequence, memtable, immutable, levels, rank, nextFile, wal, walBuf,
                   files, version, call, batch, base, applied, held, task, must, ghosts>>

(* The old writer's buffer reaches its file when the writer is dropped.    *)
RotateSwap(t) ==
    /\ pc[t] = "swap" /\ WalFree
    /\ wal' = num[t]
    /\ num' = [num EXCEPT ![t] = wal]
    /\ FlushBuffer
    /\ Goto(t, "unlink")
    /\ UNCHANGED <<mode, sequence, memtable, immutable, levels, rank, nextFile, walNumber, files,
                   version, call, batch, base, applied, held, task, must, ghosts>>

RotateRemove(t) ==
    /\ pc[t] = "unlink"
    /\ logs' = Without(logs, num[t])
    /\ Goto(t, "pick")
    /\ UNCHANGED <<mode, memory, files, version, locals, ghosts>>
-----------------------------------------------------------------------------
(***************************************************************************)
(* maybe_trigger_compaction and compact.                                   *)
(***************************************************************************)
Compact(t) ==
    /\ MayFlush(t)
    /\ call' = [call EXCEPT ![t] = "compact"]
    /\ Goto(t, "pick")
    /\ UNCHANGED <<mode, memory, disk, batch, base, applied, held, num, task, must, ghosts>>

(* Compaction is over: flush returns, close and drop go on.                *)
EndCompact(t) ==
    IF call[t] \in {"close", "drop"}
    THEN /\ Goto(t, "closing")
         /\ task' = [task EXCEPT ![t] = NoTask]
         /\ UNCHANGED <<call, batch, base, applied, held, num, must, acked>>
    ELSE Return(t, {})

target_size_for_level(l) == LevelBase ^ l
LevelSize(tables) == Cardinality(UNION {{h} \X h.data : h \in tables})

(* Mutant: the last level is compacted too.                                *)
OversizedLast == {l \in 1 .. MaxLevels - 1 : LevelSize(levels[l]) > target_size_for_level(l)}

(* All of level 0, or else the first table of the first oversized level.   *)
Oversized == {l \in 1 .. MaxLevels - 2 : LevelSize(levels[l]) > target_size_for_level(l)}
PickCompaction ==
    IF Cardinality(levels[0]) >= MaxLevel0Files
    THEN {[level |-> 0, inputs |-> levels[0]]}
    ELSE {[level |-> l, inputs |-> Foremost(levels[l])] :
             l \in {m \in Oversized : \A n \in Oversized : m <= n}}

CompactPick(t) ==
    /\ pc[t] = "pick"
    /\ IF PickCompaction = {}
       THEN EndCompact(t)
       ELSE /\ \E p \in PickCompaction : task' = [task EXCEPT ![t] = p]
            /\ Goto(t, "ccreate")
            /\ UNCHANGED <<call, batch, base, applied, held, num, must, acked>>
    /\ UNCHANGED <<mode, memory, disk, hist, purged, opens, faults>>

CompactCreate(t) ==
    /\ pc[t] = "ccreate"
    /\ CreateFile(t)
    /\ Goto(t, "cmerge")
    /\ UNCHANGED <<mode, sequence, memtable, immutable, levels, rank, wal, walBuf, walNumber,
                   logs, version, call, batch, base, applied, held, task, must, ghosts>>

(* The number of a table of an earlier session has been given out again    *)
(* and the file was created anew: File::create truncated it under its      *)
(* reader, and the old blocks are gone.                                    *)
Overwritten(h) ==
    /\ h.gen < opens /\ h.file < nextFile
    /\ h.file \in DOMAIN files => files[h.file].gen # h.gen

(* What this session has written into file n: a finished table, or one     *)
(* under construction; of one removed or given up since nothing is known.  *)
Rewritten(n) ==
    LET builders == {u \in Thread : pc[u] \in {"build", "cmerge"} /\ num[u] = n}
        written == {{v.op : v \in held[u]} \cup UNION {g.data : g \in task[u].inputs} :
                       u \in builders}
    IN  IF n \in DOMAIN files /\ files[n].done THEN files[n].data
        ELSE IF builders # {} THEN UNION written
        ELSE {hist[i].op : i \in DOMAIN hist}

(* What the merge of t may read of an overwritten input h.  An iterator    *)
(* goes past the block cache and follows h's index: of a file truncated    *)
(* before it was made it meets the new blocks that lie where the old ones  *)
(* did.  It has its first block when the output is created, so it has the  *)
(* old entries when that file, or a later one, did the truncating, and     *)
(* when h's file was unlinked before its name was used again.              *)
Contents(t, h) ==
    (IF h.file >= num[t] \/ h \notin levels[task[t].level] THEN {h.data} ELSE {})
    \cup (IF h.file # num[t] THEN SUBSET Rewritten(h.file) \ {{}} ELSE {})

(* The entries a merge may yield: MergeIterator::next turns a block that   *)
(* cannot be read into the end of the merge, after any of the keys.        *)
UpTo(winners, keys) == {o \in winners : o.key \in keys}
Met(inputs, read) ==
    {IF h \in DOMAIN read THEN [h EXCEPT !.data = read[h]] ELSE h : h \in inputs}
MergeOutcomes(t) ==
    LET lost == {h \in task[t].inputs : Overwritten(h)}
        reads == {f \in [lost -> UNION {Contents(t, h) : h \in lost}] :
                     \A h \in lost : f[h] \in Contents(t, h)}
    IN  IF lost = {}
        THEN {MergeWinners(task[t].inputs)}
        ELSE UNION {{UpTo(MergeWinners(Met(task[t].inputs, f)), keys) : keys \in SUBSET Key} :
                       f \in reads}

(* No entry survives: no output, and the inputs stay where they are.       *)
MergeTo(t, merged) ==
    LET out == MergeOutput(merged, task[t].level + 1) IN
    IF out = {}
    THEN files' = Without(files, num[t]) /\ EndCompact(t) /\ UNCHANGED purged
    ELSE /\ FinishFile(num[t], out)
         /\ Goto(t, "cinstall")
         /\ purged' = purged \cup {o \in merged : o.kind # "put"}
         /\ UNCHANGED <<locals, acked>>

(* A read error drops the rest of the entries, and the job goes on.        *)
CompactMerge(t) ==
    /\ pc[t] = "cmerge"
    /\ \/ \E merged \in MergeOutcomes(t) : MergeTo(t, merged) /\ UNCHANGED faults
       \/ /\ faults < MaxFaults /\ faults' = faults + 1
          /\ \E keys \in SUBSET Key : MergeTo(t, UpTo(MergeWinners(task[t].inputs), keys))
    /\ UNCHANGED <<mode, memory, logs, version, hist, opens>>

(* Mutant: the output is not added to the version set.                     *)
LoggedDeletions(t, gone) == version \ {<<task[t].level, h.file>> : h \in gone}

(* The manifest edits: the output is added, then the inputs are deleted.   *)
LoggedEdits(t, gone) ==
    (version \cup {<<task[t].level + 1, num[t]>>}) \ {<<task[t].level, h.file>> : h \in gone}

(* The version set and the table list change together; Arc::ptr_eq removes *)
(* exactly the readers that were merged; the output goes to the back.      *)
CompactInstall(t) ==
    LET tk == task[t] IN
    /\ pc[t] = "cinstall" /\ Openable(t)
    /\ version' = LoggedEdits(t, tk.inputs)
    /\ rank' = rank + 1
    /\ levels' = [levels EXCEPT ![tk.level] = @ \ tk.inputs,
                                ![tk.level + 1] = @ \cup {Reader(t, rank + 1)}]
    /\ Goto(t, "cdelete")
    /\ UNCHANGED <<mode, sequence, memtable, immutable, nextFile, wal, walBuf, walNumber, logs,
                   files, locals, ghosts>>

(* Mutant: the loop over the inputs does not advance.                      *)
CompactDeleteFirst(t) ==
    /\ pc[t] = "cdelete"
    /\ \E h \in Foremost(task[t].inputs) :
         /\ files' = Without(files, h.file)
         /\ IF task[t].inputs = {h}
            THEN EndCompact(t)
            ELSE UNCHANGED <<pc, locals, acked>>
    /\ UNCHANGED <<mode, memory, logs, version, hist, purged, opens, faults>>

(* The input files are removed one by one, each if it still exists.        *)
CompactDelete(t) ==
    /\ pc[t] = "cdelete"
    /\ \E h \in Foremost(task[t].inputs) :
         /\ files' = Without(files, h.file)
         /\ IF task[t].inputs = {h}
            THEN EndCompact(t)
            ELSE /\ task' = [task EXCEPT ![t].inputs = @ \ {h}]
                 /\ UNCHANGED <<pc, call, batch, base, applied, held, num, must, acked>>
    /\ UNCHANGED <<mode, memory, logs, version, hist, purged, opens, faults>>

(* The last step of close and of drop: sync the log.                       *)
CloseSync(t) ==
    /\ pc[t] = "closing" /\ WalFree
    /\ FlushBuffer
    /\ IF call[t] = "close"
       THEN /\ Return(t, {})
            /\ UNCHANGED <<mode, sequence, memtable, immutable, levels, rank, nextFile, wal,
                           walNumber>>
       ELSE Vanish /\ UNCHANGED acked
    /\ UNCHANGED <<files, version, hist, purged, opens, faults>>
-----------------------------------------------------------------------------
(***************************************************************************)
(* An I/O error: the call returns it with the work done so far in place.   *)
(* A number taken is used up, a MemTable taken for flushing is dropped, a  *)
(* failed append may leave a part of its batch in the writer's buffer, and *)
(* a failed log_edit leaves the edits before it in the manifest.  drop     *)
(* goes on to its sync.                                                    *)
(***************************************************************************)
FaultSteps == {"log", "sync", "create", "build", "install", "rotate", "unlink",
               "ccreate", "cmerge", "cinstall", "cdelete", "closing"}

(* An overwritten input and an output deleted under its builder are errors *)
(* of their own.                                                           *)
Faulty(t) ==
    \/ faults < MaxFaults /\ faults' = faults + 1
    \/ /\ \/ pc[t] \in {"ccreate", "cmerge"} /\ \E h \in task[t].inputs : Overwritten(h)
          \/ pc[t] \in {"install", "cinstall"} /\ ~Openable(t)
       /\ UNCHANGED faults

Fail(t) ==
    /\ pc[t] \in FaultSteps
    /\ Faulty(t)
    /\ nextFile' = IF pc[t] \in {"create", "ccreate"} THEN nextFile + 1 ELSE nextFile
    /\ walNumber' = IF pc[t] = "rotate" THEN walNumber + 1 ELSE walNumber
    /\ \/ UNCHANGED walBuf
       \/ /\ pc[t] = "log"
          /\ \E n \in 1 .. Len(batch[t]) : walBuf' = walBuf \o SubSeq(batch[t], 1, n)
    /\ \/ UNCHANGED version
       \/ /\ pc[t] = "cinstall" /\ Openable(t)
          /\ \E g \in task[t].inputs :
                version' = LoggedEdits(t, {h \in task[t].inputs : h.rank < g.rank})
    /\ IF call[t] = "drop" /\ pc[t] # "closing"
       THEN /\ Goto(t, "closing")
            /\ held' = [held EXCEPT ![t] = {}]
            /\ task' = [task EXCEPT ![t] = NoTask]
            /\ UNCHANGED <<call, batch, base, applied, num, must, acked>>
       ELSE call[t] # "drop" /\ Return(t, {})
    /\ UNCHANGED <<mode, sequence, memtable, immutable, levels, rank, wal, logs, files,
                   hist, purged, opens>>

ThreadNext(t) ==
    \/ Put(t) \/ Delete(t) \/ Write(t)
    \/ AppendLog(t) \/ SyncLog(t) \/ Apply(t) \/ CheckSize(t) \/ Freeze(t)
    \/ Flush(t) \/ Close(t) \/ Drop(t)
    \/ FlushTake(t) \/ FlushCreate(t) \/ FlushBuild(t) \/ FlushInstall(t)
    \/ RotateOpen(t) \/ RotateSwap(t) \/ RotateRemove(t)
    \/ Compact(t) \/ CompactPick(t) \/ CompactCreate(t) \/ CompactMerge(t)
    \/ CompactInstall(t) \/ CompactDelete(t) \/ CloseSync(t)
    \/ Fail(t)

(* Every call has returned and the clients make no other.                  *)
Rest == (\A t \in Thread : pc[t] = "idle") /\ UNCHANGED vars

Next == Open \/ Crash \/ Spill \/ Rest \/ \E t \in Thread : ThreadNext(t)

Spec == Init /\ [][Next]_vars
=============================================================================
