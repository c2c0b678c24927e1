------------------------------- MODULE Scans --------------------------------
(***************************************************************************)
(* DBIterator (iterator.rs) beside the running engine.  An iterator is a   *)
(* list of the keys found at its creation, a position in it and the entry  *)
(* loaded there; loading is a get_at_sequence, so it takes the three locks *)
(* of a lookup, and a key without a value is skipped forwards.             *)
(***************************************************************************)
EXTENDS Reads, FiniteSetsExt

CONSTANTS
    MaxScans,       \* bound: iterators created
    MaxMoves,       \* bound: moves of one iterator
    Ranges,         \* the pairs of a first key and an end that are scanned
    ScanAlone       \* the clients create iterators only while no call is in
                    \* progress, and do not flush while there is one

ASSUME ScansAssumption ==
    /\ Key \subseteq Nat \ {0} /\ {MaxScans, MaxMoves} \subseteq Nat
    /\ Ranges \subseteq Nat \X Nat /\ ScanAlone \in BOOLEAN

(* SSTableReader::keys begins with the empty key, which is below all keys. *)
EmptyKey == 0

VARIABLES
    it,      \* the iterator of each reader
    scans    \* history: iterators created

svars == <<it, scans>>

(* collected: the BTreeSet of collect_keys; current: {} or {an operation}; *)
(* move, goal: the last move ("stray" for one from no entry) and the key   *)
(* it is about, the target of a seek or the entry that was left.           *)
NoIterator ==
    [phase |-> "none", collected |-> {}, start |-> 0, end |-> 0, keys |-> <<>>, position |-> 0,
     current |-> {}, move |-> "none", goal |-> 0, moves |-> 0]

SInit == RInit /\ it = [r \in Readers |-> NoIterator] /\ scans = 0

Set(r, i) == it' = [it EXCEPT ![r] = i]

(* DB::iter and DB::scan read the counter; no start is 0 and no end a key  *)
(* above all others.  The iterator keeps the database open, as a snapshot  *)
(* does.                                                                   *)
NewIterator(r) ==
    /\ mode = "up" /\ it[r].phase = "none" /\ scans < MaxScans
    /\ \A t \in Thread : call[t] # "drop"
    /\ ScanAlone => \A t \in Thread : call[t] = "none"
    /\ \E range \in Ranges :
          Set(r, [NoIterator EXCEPT !.phase = "memtable", !.start = range[1], !.end = range[2],
                                    !.move = "seek", !.goal = range[1]])
    /\ scans' = scans + 1
    /\ snap' = [snap EXCEPT ![r] = {sequence}]
    /\ view' = [view EXCEPT ![r] = [k \in Key |-> Lookup(k, sequence)]]
    /\ UNCHANGED <<rlocals, vars>>

MemKeys(mem) == {v.op.key : v \in mem}

CollectMemtable(r) ==
    /\ it[r].phase = "memtable"
    /\ Set(r, [it[r] EXCEPT !.phase = "immutable", !.collected = MemKeys(memtable)])
    /\ UNCHANGED <<scans, rvars, vars>>

CollectImmutable(r) ==
    /\ it[r].phase = "immutable"
    /\ Set(r, [it[r] EXCEPT !.phase = "tables",
                            !.collected = @ \cup UNION {MemKeys(immutable[i]) : i \in DOMAIN immutable}])
    /\ UNCHANGED <<scans, rvars, vars>>

(* The keys of an SSTable, the empty one included.                         *)
TableKeys(h) == {EmptyKey} \cup {o.key : o \in h.data}

InRange(k, start, end) == start <= k /\ k < end

(* A BTreeSet is read in the order of its keys: there is one such list.    *)
SortedLists(keys) ==
    {s \in UNION {[1 .. n -> keys] : n \in 0 .. Cardinality(keys)} :
        /\ \A i, j \in DOMAIN s : i < j => s[i] < s[j]
        /\ \A k \in keys : \E i \in DOMAIN s : s[i] = k}

(* The last lock of collect_keys, the filter and the sorted list.          *)
CollectTables(r) ==
    LET all  == it[r].collected \cup UNION {UNION {TableKeys(h) : h \in levels[l]} : l \in DOMAIN levels}
        keys == {k \in all : InRange(k, it[r].start, it[r].end)}
    IN  /\ it[r].phase = "tables"
        /\ \E s \in SortedLists(keys) :
              Set(r, [it[r] EXCEPT !.phase = "load", !.collected = {}, !.keys = s])
        /\ UNCHANGED <<scans, rvars, vars>>
-----------------------------------------------------------------------------
(* load_current: past the end there is no entry.                           *)
LoadNone(r) ==
    /\ it[r].phase = "load" /\ it[r].position >= Len(it[r].keys)
    /\ Set(r, [it[r] EXCEPT !.phase = "ready", !.current = {}])
    /\ UNCHANGED <<scans, rvars, vars>>

(* get_at_sequence for the key at the position, with the steps of Reads.   *)
LoadCurrent(r) ==
    /\ it[r].phase = "load" /\ it[r].position < Len(it[r].keys)
    /\ \E s \in snap[r] : BeginLookup(r, it[r].keys[it[r].position + 1], s, TRUE)
    /\ Set(r, [it[r] EXCEPT !.phase = "get"])
    /\ UNCHANGED scans

GetStep(r) ==
    /\ SearchMemtable(r) \/ SearchImmutable(r) \/ SearchTables(r)
    /\ UNCHANGED svars

(* Mutant: a key without a value ends the move.                            *)
LoadedStop(r) ==
    /\ EndLookup(r)
    /\ Set(r, [it[r] EXCEPT !.phase = "ready", !.current = answer[r]])
    /\ UNCHANGED scans

(* A value is the new entry.  Without one load_current calls next, which   *)
(* loads the key behind it, whichever way the iterator was moved.          *)
Loaded(r) ==
    /\ EndLookup(r)
    /\ Set(r, IF answer[r] # {}
              THEN [it[r] EXCEPT !.phase = "ready", !.current = answer[r]]
              ELSE [it[r] EXCEPT !.phase = "load", !.position = @ + 1])
    /\ UNCHANGED scans

KeyLeft(current) == IF current = {} THEN EmptyKey ELSE (CHOOSE o \in current : TRUE).key

MoveFrom(current, move) == IF current = {} THEN "stray" ELSE move

(* A move of the iterator: the new position is then loaded.                *)
Move(r, move, position, goal) ==
    /\ it[r].phase = "ready" /\ it[r].moves < MaxMoves
    /\ Set(r, [it[r] EXCEPT !.phase = "load", !.move = move, !.position = position, !.goal = goal,
                            !.moves = @ + 1])
    /\ UNCHANGED <<scans, rvars, vars>>

(* At the first position, or without keys, a move only forgets the entry.  *)
Forget(r, move, goal) ==
    /\ it[r].phase = "ready" /\ it[r].moves < MaxMoves
    /\ Set(r, [it[r] EXCEPT !.current = {}, !.move = move, !.goal = goal, !.moves = @ + 1])
    /\ UNCHANGED <<scans, rvars, vars>>

(* next steps on from wherever the iterator is, past the end too.          *)
NextKey(r) ==
    LET c == it[r].current IN Move(r, MoveFrom(c, "next"), it[r].position + 1, KeyLeft(c))

(* Mutant: prev forgets to step back.                                      *)
PrevForward(r) ==
    LET c == it[r].current
    IN  it[r].position > 0 /\ Move(r, MoveFrom(c, "prev"), it[r].position + 1, KeyLeft(c))

Prev(r) ==
    LET c == it[r].current
    IN  it[r].position > 0 /\ Move(r, MoveFrom(c, "prev"), it[r].position - 1, KeyLeft(c))

PrevNone(r) ==
    LET c == it[r].current IN it[r].position = 0 /\ Forget(r, MoveFrom(c, "prev"), KeyLeft(c))

(* The binary search gives the position of the target or the one where it  *)
(* would be inserted.                                                      *)
Seek(r) ==
    \E target \in Key : \E p \in 0 .. Len(it[r].keys) :
        /\ \A i \in DOMAIN it[r].keys : i <= p <=> it[r].keys[i] < target
        /\ Move(r, "seek", p, target)

SeekFirst(r) == Move(r, "seek", 0, 0)

SeekLast(r) == it[r].keys # <<>> /\ Move(r, "last", Len(it[r].keys) - 1, 0)

SeekLastNone(r) == it[r].keys = <<>> /\ Forget(r, "last", 0)

DropIterator(r) ==
    /\ it[r].phase = "ready"
    /\ Set(r, NoIterator)
    /\ snap' = [snap EXCEPT ![r] = {}] /\ view' = [view EXCEPT ![r] = NoLookup]
    /\ UNCHANGED <<scans, rlocals, vars>>

(* A step of the engine; iterators die with the process.                   *)
SEngineStep ==
    /\ EngineStep
    /\ ScanAlone /\ (\E r \in Readers : it[r].phase # "none")
         => \A t \in Thread : call'[t] \notin Flushing
    /\ it' = IF mode' = "down" THEN [r \in Readers |-> NoIterator] ELSE it
    /\ UNCHANGED scans

IteratorStep(r) ==
    \/ NewIterator(r) \/ CollectMemtable(r) \/ CollectImmutable(r) \/ CollectTables(r)
    \/ LoadNone(r) \/ LoadCurrent(r) \/ GetStep(r) \/ Loaded(r)
    \/ NextKey(r) \/ Prev(r) \/ PrevNone(r) \/ Seek(r) \/ SeekFirst(r)
    \/ SeekLast(r) \/ SeekLastNone(r) \/ DropIterator(r)

SNext == SEngineStep \/ \E r \in Readers : IteratorStep(r)

SSpec == SInit /\ [][SNext]_<<vars, rvars, svars>>
-----------------------------------------------------------------------------
(* An iterator has at most one entry, its position leaves its keys only    *)
(* forwards (iterator.rs:185), and a lookup belongs to a load.             *)
STypeOK ==
    /\ TypeOK
    /\ \A r \in Readers :
          /\ it[r].phase \in {"none", "memtable", "immutable", "tables", "load", "get", "ready"}
          /\ it[r].keys \in Seq(Key \cup {EmptyKey}) /\ it[r].position \in 0 .. Cardinality(Key) + 1 + MaxMoves
          /\ it[r].current \subseteq Op /\ Cardinality(it[r].current) <= 1
          /\ rpc[r] # "idle" => it[r].phase = "get"

(* The entries of the range that the database held when the iterator was   *)
(* created.                                                                *)
Live(r) == {k \in Key : InRange(k, it[r].start, it[r].end) /\ view[r][k] # {}}

(* A move forwards stops at the first entry of its range: next at the one  *)
(* after the entry it left, seek at "the first key that is greater than or *)
(* equal to the target" (iterator.rs:200), with the value it had when the  *)
(* iterator was created, and nowhere when there is none.  So a scan meets  *)
(* every entry once, in order.                                             *)
ForwardExact ==
    \A r \in Readers :
        it[r].phase = "ready" /\ it[r].move \in {"seek", "next"} =>
            LET ahead == {k \in Live(r) : k > it[r].goal \/ (k = it[r].goal /\ it[r].move = "seek")}
            IN  it[r].current = IF ahead = {} THEN {} ELSE view[r][Min(ahead)]

(* prev (iterator.rs:191) never moves an iterator forwards, although       *)
(* load_current skips forwards.                                            *)
PrevNotAfter ==
    \A r \in Readers :
        it[r].phase = "ready" /\ it[r].move = "prev" =>
            \A o \in it[r].current : o.key <= it[r].goal

(* "Moves to the previous entry in backward direction."                    *)
(* (iterator.rs:190)                                                       *)
PrevExact ==
    \A r \in Readers :
        it[r].phase = "ready" /\ it[r].move = "prev" =>
            LET behind == {k \in Live(r) : k < it[r].goal}
            IN  it[r].current = IF behind = {} THEN {} ELSE view[r][Max(behind)]

(* "Seeks to the last key in the database." (iterator.rs:220)              *)
LastExact ==
    \A r \in Readers :
        it[r].phase = "ready" /\ it[r].move = "last" =>
            it[r].current = IF Live(r) = {} THEN {} ELSE view[r][Max(Live(r))]
=============================================================================
