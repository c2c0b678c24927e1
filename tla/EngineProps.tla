----------------------------- MODULE EngineProps -----------------------------
(***************************************************************************)
(* What the engine of module Engine is meant to guarantee.                 *)
(***************************************************************************)
EXTENDS Engine

(* An operation issued, with those that had returned before it.            *)
Issued == [op : Op, after : SUBSET Nat]

(* The fields of DB, the directory and the state of every call have their  *)
(* types; a task of compaction stays inside the levels (lib.rs:941).       *)
TypeOK ==
    /\ mode \in {"up", "down"}
    /\ sequence \in Nat /\ memtable \in SUBSET Version
    /\ immutable \in Seq(SUBSET Version)
    /\ levels \in [Level -> SUBSET Handle] /\ rank \in Nat
    /\ nextFile \in Nat /\ wal \in Nat /\ walNumber \in Nat /\ walBuf \in Seq(Op)
    /\ \A n \in DOMAIN logs : n \in Nat /\ logs[n] \in Seq(Op)
    /\ \A n \in DOMAIN files : n \in Nat /\ files[n] \in File
    /\ version \subseteq Level \X Nat
    /\ pc \in [Thread -> Step] /\ call \in [Thread -> Call]
    /\ batch \in [Thread -> Seq(Op)]
    /\ base \in [Thread -> Nat] /\ applied \in [Thread -> Nat] /\ num \in [Thread -> Nat]
    /\ held \in [Thread -> SUBSET Version]
    /\ task \in [Thread -> Task]
    /\ must \in [Thread -> SUBSET Nat]
    /\ hist \in Seq(Issued)
    /\ acked \subseteq Nat /\ purged \subseteq Op
    /\ opens \in Nat /\ faults \in Nat

(* o may stand for operation i: it wrote the same key, and it had not      *)
(* already returned when i was called.                                     *)
Covers(o, i) == o.key = hist[i].op.key /\ o.id \notin hist[i].after

Covered(i, ops) == \E o \in ops \cup purged : Covers(o, i)

TableOps == UNION {files[n].data : n \in {m \in DOMAIN files : files[m].done}}
SeqOps(s) == {s[i] : i \in DOMAIN s}
LogOps == UNION {SeqOps(Entries(n)) : n \in LatestLogs}
LevelOps == UNION {UNION {h.data : h \in levels[l]} : l \in Level}
MemoryVersions ==
    memtable \cup (UNION {immutable[i] : i \in DOMAIN immutable})
             \cup (UNION {held[t] : t \in Thread})

(* put, delete and write draw their sequence numbers from one counter      *)
(* (lib.rs:371, 510, 667) and open restarts it at the number of replayed   *)
(* entries: no two versions in memory, nor a version and an operation      *)
(* still to be inserted, ever share a sequence number.                     *)
PendingSeqs(t) ==
    IF pc[t] \in {"log", "sync", "apply"}
    THEN base[t] + applied[t] .. base[t] + Len(batch[t]) - 1 ELSE {}
SeqUnique ==
    /\ \A v, w \in MemoryVersions : v.seq = w.seq => v = w
    /\ \A v \in MemoryVersions : v.seq <= sequence
    /\ \A t \in Thread : \A v \in MemoryVersions : v.seq \notin PendingSeqs(t)
    /\ \A t, u \in Thread : t # u => PendingSeqs(t) \cap PendingSeqs(u) = {}

(* Every acknowledged write is recoverable: at every moment, what DB::open *)
(* would find in the directory (the highest-numbered log and the finished  *)
(* SSTables) holds it, or a write to the same key that is not older.       *)
Durable == UseWal /\ SyncWal => \A i \in acked : Covered(i, TableOps \cup LogOps)

(* The same until a second session starts to write SSTables: replay and    *)
(* loading the tables lose nothing.                                        *)
DurableUntilReflush == opens <= 1 \/ (mode = "up" /\ nextFile = 2) => Durable

(* Without sync_wal a crash may lose the newest writes, but never a write  *)
(* that had returned before a surviving one was called.                    *)
DurablePrefix ==
    UseWal => \A o \in TableOps \cup LogOps : \A i \in hist[o.id].after :
                  Covered(i, TableOps \cup LogOps)

(* "On recovery, all WAL entries for the batch will be replayed together"  *)
(* (lib.rs:629): the log never holds a part of a batch.                    *)
BatchAtomic ==
    \A t \in Thread :
        Ids(batch[t]) \cap {o.id : o \in LogOps} \in {{}, Ids(batch[t])}

(* No acknowledged write disappears from the running database: it, or a    *)
(* write to the same key that is not older, is in the MemTable, in an      *)
(* immutable MemTable, in the hands of a flush, or in an open SSTable.     *)
InMemory ==
    mode = "up" => \A i \in acked : Covered(i, {v.op : v \in MemoryVersions} \cup LevelOps)

(* What a lookup returns when nothing moves under it.                      *)
Lookup(k, maxSeq) ==
    LET inMem == MemGet(memtable, k, maxSeq)
        inImm == ImmutableGet(immutable, k, maxSeq)
    IN  IF inMem # {} THEN inMem ELSE IF inImm # {} THEN inImm ELSE LevelsGet(levels, k)

(* ans is an answer for key k that no operation in ids contradicts: a      *)
(* value none of them overwrote, or None after a delete that is not older. *)
UpToDate(ans, k, ids) ==
    \A i \in {j \in ids : hist[j].op.key = k} :
        IF ans # {}
        THEN \A o \in ans : Covers(o, i)
        ELSE \E j \in DOMAIN hist : hist[j].op.kind = "delete" /\ Covers(hist[j].op, i)

(* The order in which get searches (lib.rs:447) is the order of age, one   *)
(* place excepted: in the first session, between calls and without I/O     *)
(* errors, a key that was only ever put, and that at most one table of     *)
(* level 0 holds, reads as its last acknowledged value or a newer one,     *)
(* wherever freezes, flushes and compactions have put its values.          *)
OnlyPut(k) == \A i \in DOMAIN hist : hist[i].op.key = k => hist[i].op.kind = "put"
Level0With(k) == {h \in levels[0] : \E o \in h.data : o.key = k}
SearchedByAge ==
    (mode = "up" /\ opens = 1 /\ faults = 0 /\ \A t \in Thread : pc[t] = "idle")
        => \A k \in Key :
              OnlyPut(k) /\ (\A g, h \in Level0With(k) : g = h)
                  => UpToDate(Lookup(k, sequence), k, acked)

(* When flush has emptied the immutable list, everything acknowledged      *)
(* before it was called is in finished SSTables, whatever the WAL options. *)
FlushedOnDisk ==
    \A t \in Thread :
        call[t] \in Flushing /\ pc[t] \in RotateSteps \cup CompactSteps
            => \A i \in must[t] : Covered(i, TableOps)

(* "Write to WAL first" (lib.rs:373): as long as no flush runs beside a    *)
(* write, every version held in memory is in the log that the next open    *)
(* would replay, or, without sync_wal, in the log writer's buffer; rotation*)
(* (lib.rs:905) never takes away the log of a MemTable not yet flushed.    *)
MemoryLogged ==
    UseWal /\ ExclusiveFlush =>
        {v.op : v \in MemoryVersions} \subseteq
            LogOps \cup (IF SyncWal THEN {} ELSE SeqOps(walBuf))

(* The whole of a batch is in that log before the first of its operations  *)
(* is inserted (lib.rs:684, 708): a crash may cut a batch short in the     *)
(* log, but only one of which no lookup has seen a part.                   *)
BatchLoggedFirst ==
    UseWal /\ ExclusiveFlush =>
        \A t \in Thread : pc[t] = "apply" =>
            SeqOps(batch[t]) \subseteq LogOps \cup (IF SyncWal THEN {} ELSE SeqOps(walBuf))

(* "On startup, the WAL is replayed to restore the MemTable" (wal/mod.rs): *)
(* while nothing is flushed, replay would give every key the version that  *)
(* the database serves now.                                                *)
ReplayRestores ==
    LET mems == memtable \cup (UNION {immutable[i] : i \in DOMAIN immutable}) IN
    (mode = "up" /\ UseWal /\ SyncWal /\ DOMAIN files = {} /\ \A t \in Thread : pc[t] = "idle")
        => FlushContents(mems) = FlushContents(UNION {Replay(Entries(n)) : n \in LatestLogs})

(* In the first session a table is in the list only while its finished     *)
(* file is on disk with the contents the reader was opened on, whichever   *)
(* flushes and compactions overlap: compaction takes readers out of the    *)
(* list before it deletes their files (lib.rs:1038), and no file number is *)
(* given out twice (lib.rs:768, 970).                                      *)
TablesOnDisk ==
    opens <= 1 =>
        \A l \in Level : \A h \in levels[l] :
            /\ h.file \in DOMAIN files
            /\ files[h.file] = [gen |-> h.gen, done |-> TRUE, data |-> h.data]

(* The manifest's files of a level are the open tables of that level.      *)
Synced(l) == {e[2] : e \in {d \in version : d[1] = l}} = {h.file : h \in levels[l]}

(* In the first session, and as long as no manifest write fails, every     *)
(* level that compaction fills is the same in the version set and in the   *)
(* table list, whichever compactions overlap (lib.rs:1018).                *)
CompactedSynced ==
    mode = "up" /\ opens = 1 /\ faults = 0 => \A l \in Level \ {0} : Synced(l)

(* "Version set and in-memory list are always synchronized"                *)
(* (docs/completions/BUG_FIX_SSTABLE_MANAGEMENT.md), level 0 included.     *)
VersionSynced == mode = "up" => \A l \in Level : Synced(l)

(* From level 1 on, tables are "sorted and not overlapping"                *)
(* (docs/ARCHITECTURE.md:132): no key is in two of them.                   *)
LevelsDisjoint ==
    \A l \in Level \ {0} : \A g, h \in levels[l] :
        g # h => {o.key : o \in g.data} \cap {o.key : o \in h.data} = {}

(* A step may delete a finished SSTable but never change one.              *)
FilesKept == \A n \in DOMAIN files \cap DOMAIN files' : files[n].done => files'[n] = files[n]

(* SSTables are immutable in the first session: no builder ever truncates  *)
(* or rewrites a finished file (File::create, builder.rs:43).              *)
FinishedFilesKept == [][opens <= 1 => FilesKept]_vars

(* The same across sessions.                                               *)
SSTablesImmutable == [][FilesKept]_vars

(* A thread inside a call is scheduled again and again, and a lock it      *)
(* waits for is released: the fairness of the scheduler and of parking_lot.*)
FairSpec == Spec /\ \A t \in Thread : WF_vars(pc[t] # "idle" /\ ThreadNext(t))

(* Every call returns: flush leaves its loop over the immutable list       *)
(* (lib.rs:878), and no thread waits for ever on the WAL or MemTable lock. *)
EveryCallReturns == \A t \in Thread : pc[t] # "idle" ~> pc[t] = "idle"
==============================================================================
