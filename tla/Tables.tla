------------------------------- MODULE Tables -------------------------------
(***************************************************************************)
(* The pure part of the storage engine: what a MemTable, an SSTable and a  *)
(* compaction hold and return.  A write operation is a record with its own *)
(* identity, so that the value a lookup returns names the operation that   *)
(* wrote it.  A lookup returns a set: {} for None, {op} for Some(value).   *)
(***************************************************************************)
EXTENDS Integers, Sequences

CONSTANT Key                        \* user keys

(* "put" writes a non-empty value, "empty" is a put of the empty value,    *)
(* "delete" writes a tombstone.                                            *)
Kind == {"put", "empty", "delete"}

Op == [id : Nat, key : Key, kind : Kind]

(* An entry of the skip list: the operation under its sequence number.     *)
Version == [op : Op, seq : Nat]

(* Mutant: the scan ignores max_seq.                                       *)
NewestUnlimited(mem, k, maxSeq) ==
    {v \in mem : v.op.key = k /\ \A w \in mem : w.op.key = k => w.seq <= v.seq}

(* The skip list orders the versions of one user key by descending         *)
(* sequence number, so the first version a scan meets is this one.         *)
Newest(mem, k, maxSeq) ==
    {v \in mem : /\ v.op.key = k
                 /\ v.seq <= maxSeq
                 /\ \A w \in mem : w.op.key = k /\ w.seq <= maxSeq => w.seq <= v.seq}

(* MemTable::get answers None both for a tombstone and for a missing key.  *)
MemGet(mem, k, maxSeq) ==
    {v.op : v \in {w \in Newest(mem, k, maxSeq) : w.op.kind # "delete"}}

(* Mutant: the last version met is written.                                *)
FlushContentsOldest(mem) ==
    {v.op : v \in {w \in mem : \A u \in mem : u.op.key = w.op.key => w.seq <= u.seq}}

(* What a flush writes: the first version of every user key the MemTable   *)
(* iterator meets, tombstones included (their value is empty).             *)
FlushContents(mem) ==
    {v.op : v \in {w \in mem : \A u \in mem : u.op.key = w.op.key => u.seq <= w.seq}}

(* SSTableReader::get treats an empty value as a tombstone: None.          *)
TableGet(data, k) == {o \in data : o.key = k /\ o.kind = "put"}

(* A level's list of open tables is a set of readers, each with its rank;  *)
(* the list runs from the smallest rank to the largest.                    *)
Foremost(tables) == {h \in tables : \A g \in tables : h.rank <= g.rank}
Hindmost(tables) == {h \in tables : \A g \in tables : g.rank <= h.rank}

(* Mutant: the tables of a level are searched from the front.              *)
LevelGetForwards(tables, k) ==
    LET hits == {h \in tables : TableGet(h.data, k) # {}}
    IN  UNION {TableGet(h.data, k) : h \in Foremost(hits)}

(* The tables of one level are searched from the back of the list.         *)
LevelGet(tables, k) ==
    LET hits == {h \in tables : TableGet(h.data, k) # {}}
    IN  UNION {TableGet(h.data, k) : h \in Hindmost(hits)}

(* DB::get and DB::get_at_sequence search the levels from 0 upwards.       *)
LevelsGet(lvls, k) ==
    LET hits == {l \in DOMAIN lvls : LevelGet(lvls[l], k) # {}}
    IN  UNION {LevelGet(lvls[l], k) : l \in {m \in hits : \A n \in hits : m <= n}}

(* The immutable MemTables are searched from the back of the list.         *)
ImmutableGet(imms, k, maxSeq) ==
    LET hits == {i \in DOMAIN imms : MemGet(imms[i], k, maxSeq) # {}}
    IN  UNION {MemGet(imms[i], k, maxSeq) : i \in {j \in hits : \A n \in hits : n <= j}}

(* Mutant: the input that stands last wins.                                *)
MergeWinnersLast(inputs) ==
    UNION {{o \in h.data :
              \A g \in inputs : g.rank > h.rank => \A p \in g.data : p.key # o.key}
           : h \in inputs}

(* MergeIterator: of several inputs that hold a key, the one that stands   *)
(* first in the list wins.                                                 *)
MergeWinners(inputs) ==
    UNION {{o \in h.data :
              \A g \in inputs : g.rank < h.rank => \A p \in g.data : p.key # o.key}
           : h \in inputs}

(* CompactionJob::run drops empty values unless it writes to level 0.      *)
MergeOutput(merged, outputLevel) ==
    {o \in merged : outputLevel > 0 => o.kind = "put"}
=============================================================================
