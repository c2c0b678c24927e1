------------------------------- MODULE Reads --------------------------------
(***************************************************************************)
(* DB::get and snapshots beside the running engine.  A lookup takes the    *)
(* MemTable lock, the immutable-list lock and the SSTable-list lock one    *)
(* after the other, and the engine moves between them.                     *)
(***************************************************************************)
EXTENDS EngineProps

CONSTANTS
    Readers,          \* threads that call get, snapshot and Snapshot::get
    QuietSnapshots    \* the clients take snapshots only while no write is in progress

ASSUME ReadersAssumption == QuietSnapshots \in BOOLEAN

VARIABLES
    rpc,      \* where the lookup of a reader is
    rkey,     \* its key
    rseq,     \* max_seq
    viaSnap,  \* whether it goes through the reader's snapshot
    floor,    \* the operations acknowledged when it began
    answer,   \* what it returns
    snap,     \* the reader's snapshot: {} or {sequence}
    view      \* what a get of each key returned when the snapshot was taken

rlocals == <<rpc, rkey, rseq, viaSnap, floor, answer>>
rvars == <<rlocals, snap, view>>

NoLookup == [k \in Key |-> {}]

RInit ==
    /\ Init
    /\ rpc = [r \in Readers |-> "idle"]
    /\ rkey = [r \in Readers |-> CHOOSE k \in Key : TRUE]
    /\ rseq = [r \in Readers |-> 0]
    /\ viaSnap = [r \in Readers |-> FALSE]
    /\ floor = [r \in Readers |-> {}]
    /\ answer = [r \in Readers |-> {}]
    /\ snap = [r \in Readers |-> {}]
    /\ view = [r \in Readers |-> NoLookup]

BeginLookup(r, k, maxSeq, isSnap) ==
    /\ mode = "up" /\ rpc[r] = "idle"
    /\ \A t \in Thread : call[t] # "drop"
    /\ rpc' = [rpc EXCEPT ![r] = "memtable"]
    /\ rkey' = [rkey EXCEPT ![r] = k]
    /\ rseq' = [rseq EXCEPT ![r] = maxSeq]
    /\ viaSnap' = [viaSnap EXCEPT ![r] = isSnap]
    /\ floor' = [floor EXCEPT ![r] = acked]
    /\ UNCHANGED <<answer, snap, view, vars>>

(* get reads the counter once, before the first lock.                      *)
Get(r) == \E k \in Key : BeginLookup(r, k, sequence, FALSE)

(* Snapshot::get is get_at_sequence with the snapshot's number.            *)
SnapshotGet(r) == \E k \in Key, s \in snap[r] : BeginLookup(r, k, s, TRUE)

TakeSnapshot(r) ==
    /\ mode = "up" /\ rpc[r] = "idle" /\ snap[r] = {}
    /\ \A t \in Thread : call[t] # "drop"
    /\ QuietSnapshots => \A t \in Thread : call[t] \notin Writing
    /\ snap' = [snap EXCEPT ![r] = {sequence}]
    /\ view' = [view EXCEPT ![r] = [k \in Key |-> Lookup(k, sequence)]]
    /\ UNCHANGED <<rlocals, vars>>

(* One section of the lookup: a hit ends it.                               *)
Search(r, here, found, next) ==
    /\ rpc[r] = here
    /\ answer' = [answer EXCEPT ![r] = found]
    /\ rpc' = [rpc EXCEPT ![r] = IF found # {} THEN "done" ELSE next]
    /\ UNCHANGED <<rkey, rseq, viaSnap, floor, snap, view, vars>>

(* Mutant: the immutable MemTables are not searched.                       *)
SearchMemtableOnly(r) == Search(r, "memtable", MemGet(memtable, rkey[r], rseq[r]), "tables")

SearchMemtable(r) == Search(r, "memtable", MemGet(memtable, rkey[r], rseq[r]), "immutable")

SearchImmutable(r) == Search(r, "immutable", ImmutableGet(immutable, rkey[r], rseq[r]), "tables")

SearchTables(r) == Search(r, "tables", LevelsGet(levels, rkey[r]), "done")

EndLookup(r) ==
    /\ rpc[r] = "done"
    /\ rpc' = [rpc EXCEPT ![r] = "idle"]
    /\ rseq' = [rseq EXCEPT ![r] = 0]
    /\ viaSnap' = [viaSnap EXCEPT ![r] = FALSE]
    /\ floor' = [floor EXCEPT ![r] = {}]
    /\ answer' = [answer EXCEPT ![r] = {}]
    /\ UNCHANGED <<rkey, snap, view, vars>>

(* A step of the engine.  The readers die with the process; drop waits for *)
(* every lookup to return and every snapshot to go.                        *)
EngineStep ==
    /\ Next
    /\ (\E t \in Thread : call'[t] = "drop") => \A r \in Readers : rpc[r] = "idle" /\ snap[r] = {}
    /\ IF mode' = "down"
       THEN /\ rpc' = [r \in Readers |-> "idle"]
            /\ rseq' = [r \in Readers |-> 0]
            /\ viaSnap' = [r \in Readers |-> FALSE]
            /\ floor' = [r \in Readers |-> {}]
            /\ answer' = [r \in Readers |-> {}]
            /\ snap' = [r \in Readers |-> {}]
            /\ view' = [r \in Readers |-> NoLookup]
            /\ UNCHANGED rkey
       ELSE UNCHANGED rvars

ReaderStep(r) ==
    \/ Get(r) \/ SnapshotGet(r) \/ TakeSnapshot(r)
    \/ SearchMemtable(r) \/ SearchImmutable(r) \/ SearchTables(r) \/ EndLookup(r)

RNext == EngineStep \/ \E r \in Readers : ReaderStep(r)

RSpec == RInit /\ [][RNext]_<<vars, rvars>>
-----------------------------------------------------------------------------
(* Lookups, snapshots and answers have their types at every lock of get    *)
(* (lib.rs:445).                                                           *)
RTypeOK ==
    /\ TypeOK
    /\ rpc \in [Readers -> {"idle", "memtable", "immutable", "tables", "done"}]
    /\ rkey \in [Readers -> Key] /\ rseq \in [Readers -> Nat]
    /\ viaSnap \in [Readers -> BOOLEAN]
    /\ floor \in [Readers -> SUBSET Nat] /\ answer \in [Readers -> SUBSET Op]
    /\ snap \in [Readers -> SUBSET Nat] /\ view \in [Readers -> [Key -> SUBSET Op]]

(* get returns a value at least as new as every write to the key that had  *)
(* returned before the get began, and None only if there was none or it    *)
(* was deleted (lib.rs:421).                                               *)
GetFresh ==
    \A r \in Readers :
        rpc[r] = "done" /\ ~viaSnap[r] => UpToDate(answer[r], rkey[r], floor[r])

(* The same of a get between calls, flushed tables and deletes included:   *)
(* put overwrites (lib.rs:348), delete removes (lib.rs:485).  It fails:    *)
(* level 0 is searched oldest first, and a tombstone hides nothing.        *)
QuietReadsFresh ==
    (mode = "up" /\ \A t \in Thread : pc[t] = "idle")
        => \A k \in Key : UpToDate(Lookup(k, sequence), k, acked)

(* Snapshot::get returns what a get returned when the snapshot was taken,  *)
(* "regardless of subsequent modifications" (lib.rs:543).                  *)
SnapshotStable ==
    \A r \in Readers :
        rpc[r] = "done" /\ viaSnap[r] => answer[r] = view[r][rkey[r]]
=============================================================================
