----------------------------- MODULE ScanProofs -----------------------------
(***************************************************************************)
(* Iterators beside writers, for every number of both, every range, every  *)
(* order of moves and across crashes, as long as nothing is flushed: an    *)
(* iterator collects the keys structure by structure and looks each one up *)
(* again, and MemTables are written and frozen in between.                 *)
(***************************************************************************)
EXTENDS Scans, ReadProofs

(***************************************************************************)
(* Sorted lists of keys.                                                   *)
(***************************************************************************)
Sorted(s) == \A i, j \in DOMAIN s : i < j => s[i] < s[j]

(* The list of a set of keys.                                              *)
LEMMA SortedFacts ==
    ASSUME NEW S \in SUBSET Key, NEW s \in SortedLists(S)
    PROVE  /\ s \in Seq(Key) /\ Sorted(s) /\ \A i \in DOMAIN s : i > 0 /\ s[i] \in S
           /\ \A k \in S : \E i \in DOMAIN s : s[i] = k
<1>1. PICK n \in 0 .. Cardinality(S) : s \in [1 .. n -> S]
  BY Zenon DEF SortedLists
<1>2. n \in Nat
  BY <1>1
<1>3. s \in Seq(Key) /\ \A i \in DOMAIN s : i > 0
  <2>1. s \in [1 .. n -> Key]
    BY <1>1, Zenon
  <2> QED BY <1>2, <2>1
<1>4. \A i \in DOMAIN s : s[i] \in S
  BY <1>1, Zenon
<1> QED BY <1>3, <1>4, Zenon DEF SortedLists, Sorted

(***************************************************************************)
(* Without a flush there are no tables, and memory only grows.             *)
(***************************************************************************)
NoTables == DOMAIN files = {} /\ \A l \in Level : levels[l] = {}

(* Key k is in the MemTable, in the immutable list.                        *)
InMemtable(k) == \E v \in memtable : v.op.key = k
InImmutable(k) == \E n \in DOMAIN immutable : \E v \in immutable[n] : v.op.key = k

LEMMA FilesStay ==
    ASSUME Flushers = {}, TypeInv, CallInv, DownEmpty, NEW t \in Thread, ThreadNext(t)
    PROVE  files' = files
<1>1. CASE Put(t) \/ Delete(t) \/ Write(t)
  BY <1>1, Zenon DEF Put, Delete, Write, BeginWrite, disk
<1>2. CASE AppendLog(t) \/ SyncLog(t) \/ Apply(t)
  BY <1>2, Zenon DEF AppendLog, SyncLog, Apply, disk
<1>3. CASE CheckSize(t) \/ Freeze(t) \/ Fail(t)
  BY <1>3, Zenon DEF CheckSize, Freeze, Fail, disk
<1> QED BY <1>1, <1>2, <1>3, ThreadMoves, Zenon

LEMMA NoTablesStep ==
    ASSUME Flushers = {}, SeqInv, CallInv, NoTables, [Next]_vars PROVE NoTables'
<1>0. TypeInv /\ DownEmpty /\ DOMAIN levels = Level
  BY Zenon DEF SeqInv, TypeInv, MemoryOK
<1>1. ASSUME NEW t \in Thread, ThreadNext(t) PROVE NoTables'
  <2>1. files' = files /\ levels' = levels
    BY <1>0, <1>1, FilesStay, ThreadMoves, Zenon
  <2> QED BY <2>1, Zenon DEF NoTables
<1>2. CASE Open
  <2>1. LoadedTables = {}
    BY DEF LoadedTables, NoTables
  <2>2. files' = files /\ levels' = [l \in Level |-> IF l = 0 THEN LoadedTables ELSE {}]
    BY <1>2, Zenon DEF Open
  <2> QED BY <2>1, <2>2, Zenon DEF NoTables
<1>3. CASE Crash
  BY <1>3, Zenon DEF Crash, Vanish, disk, NoTables
<1>4. CASE Spill
  BY <1>4, Zenon DEF Spill, NoTables
<1>5. CASE UNCHANGED vars
  BY <1>5, Zenon DEF vars, memory, disk, NoTables
<1> QED BY <1>1, <1>2, <1>3, <1>4, <1>5, Zenon DEF Next, Rest

(* A key in memory stays there; one in the list stays in the list.         *)
LEMMA KeysGrow ==
    ASSUME Flushers = {}, SeqInv, CallInv, NEW t \in Thread, ThreadNext(t), NEW k
    PROVE  /\ InMemtable(k) => InMemtable(k)' \/ InImmutable(k)'
           /\ InImmutable(k) => InImmutable(k)'
<1>0. TypeInv /\ DownEmpty
  BY Zenon DEF SeqInv
<1>1. CASE UNCHANGED <<memtable, immutable>>
  BY <1>1, Zenon DEF InMemtable, InImmutable
<1>2. CASE Apply(t)
  <2>1. memtable \subseteq memtable' /\ immutable' = immutable
    BY <1>2, Zenon DEF Apply
  <2> QED BY <2>1, Zenon DEF InMemtable, InImmutable
<1>3. CASE Freeze(t)
  <2>1. immutable' = Append(immutable, memtable)
    BY <1>3, Zenon DEF Freeze
  <2>2. /\ \A n \in DOMAIN immutable : n \in DOMAIN immutable' /\ immutable'[n] = immutable[n]
        /\ \E n \in DOMAIN immutable' : immutable'[n] = memtable
    <3>1. immutable \in Seq(SUBSET Version) /\ memtable \in SUBSET Version
      BY <1>0, Zenon DEF TypeInv, MemoryOK
    <3>2. Len(immutable) + 1 \in DOMAIN immutable' /\ immutable'[Len(immutable) + 1] = memtable
      BY <2>1, <3>1
    <3>3. \A n \in DOMAIN immutable : n \in DOMAIN immutable' /\ immutable'[n] = immutable[n]
      BY <2>1, <3>1
    <3> QED BY <3>2, <3>3, Zenon
  <2> QED BY <2>2, Zenon DEF InMemtable, InImmutable
<1>4. CASE Put(t) \/ Delete(t) \/ Write(t)
  BY <1>1, <1>4, ZenonT(40) DEF Put, Delete, Write, BeginWrite
<1>5. CASE AppendLog(t) \/ SyncLog(t) \/ CheckSize(t) \/ Fail(t)
  BY <1>0, <1>1, <1>5, CalmSteps, Zenon DEF Calm
<1> QED BY <1>0, <1>2, <1>3, <1>4, <1>5, ThreadMoves, Zenon

(* What a lookup finds is an operation on its key, in memory.              *)
LEMMA LookupKeys ==
    ASSUME TypeInv, NoTables, NEW k, NEW s
    PROVE  /\ Lookup(k, s) \subseteq Op /\ \A o \in Lookup(k, s) : o.key = k
           /\ Lookup(k, s) # {} => InMemtable(k) \/ InImmutable(k)
<1>0. /\ memtable \subseteq Version /\ \A n \in DOMAIN immutable : immutable[n] \subseteq Version
  <2>1. immutable \in Seq(SUBSET Version) /\ memtable \in SUBSET Version
    BY Zenon DEF TypeInv, MemoryOK
  <2> QED BY <2>1
<1>1. ASSUME NEW mem, mem \subseteq Version, NEW o \in MemGet(mem, k, s)
      PROVE  o \in Op /\ o.key = k /\ \E v \in mem : v.op.key = k
  <2>1. PICK v \in mem : v.op = o /\ v.op.key = k
    BY <1>1, Zenon DEF MemGet, Newest
  <2> QED BY <1>1, <2>1, Zenon DEF Version
<1>2. ASSUME NEW o \in ImmutableGet(immutable, k, s)
      PROVE  \E n \in DOMAIN immutable : o \in MemGet(immutable[n], k, s)
  BY <1>2, Zenon DEF ImmutableGet
<1>3. LevelsGet(levels, k) = {}
  <2>1. DOMAIN levels = Level
    BY Zenon DEF TypeInv, MemoryOK
  <2>2. \A l \in Level : LevelGet(levels[l], k) = {}
    <3>1. LevelGet({}, k) = {}
      BY Zenon DEF LevelGet, Hindmost
    <3> QED BY <3>1, Zenon DEF NoTables
  <2> QED BY <2>1, <2>2, Zenon DEF LevelsGet
<1>4. ASSUME NEW o \in Lookup(k, s)
      PROVE  o \in MemGet(memtable, k, s) \/ o \in ImmutableGet(immutable, k, s)
  BY <1>3, <1>4, Zenon DEF Lookup
<1>5. ASSUME NEW o \in Lookup(k, s)
      PROVE  o \in Op /\ o.key = k /\ (InMemtable(k) \/ InImmutable(k))
  <2>1. CASE o \in MemGet(memtable, k, s)
    BY <1>0, <1>1, <2>1, Zenon DEF InMemtable
  <2>2. CASE o \in ImmutableGet(immutable, k, s)
    <3>1. PICK n \in DOMAIN immutable : o \in MemGet(immutable[n], k, s)
      BY <1>2, <2>2, Zenon
    <3> QED BY <1>0, <1>1, <3>1, Zenon DEF InImmutable
  <2> QED BY <1>4, <1>5, <2>1, <2>2, Zenon
<1> QED BY <1>5, Zenon

(***************************************************************************)
(* The iterator.                                                           *)
(***************************************************************************)
Collecting == {"memtable", "immutable", "tables"}
Loading == {"load", "get"}
Phases == {"none", "ready"} \cup Collecting \cup Loading
Moves == {"none", "seek", "next", "prev", "last", "stray"}
Iterator ==
    [phase : Phases, collected : SUBSET Key, start : Nat, end : Nat, keys : Seq(Key), position : Nat,
     current : SUBSET Op, move : Moves, goal : Nat, moves : Nat]

(* k lies in the direction of a move forwards to goal, or from it.         *)
IsAhead(i, k) == k > i.goal \/ (k = i.goal /\ i.move = "seek")

(* The keys of the range that had a value, by the fields of the iterator.  *)
LiveKeys(i, v) == {k \in Key : InRange(k, i.start, i.end) /\ v[k] # {}}

(* While the keys are collected, those not seen yet are still to come.     *)
Gathers(i, live) ==
    /\ i.move = "seek" /\ i.goal = i.start /\ i.position = 0
    /\ i.phase = "memtable" => \A k \in live : InMemtable(k) \/ InImmutable(k)
    /\ i.phase = "immutable" => \A k \in live : k \in i.collected \/ InImmutable(k)
    /\ i.phase = "tables" => live \subseteq i.collected

(* The list is sorted and has every key with a value.                      *)
Lists(i, live) ==
    /\ Sorted(i.keys)
    /\ \A k \in live : \E n \in DOMAIN i.keys : i.keys[n] = k
    /\ \A n \in DOMAIN i.keys : InRange(i.keys[n], i.start, i.end)

(* While an entry is loaded, the key to stop at is at the position or      *)
(* behind it: forwards, all keys ahead; for prev, the entry that was left. *)
Approaches(i, live) ==
    /\ i.move \in {"seek", "next"} =>
          \A n \in DOMAIN i.keys :
              IF i.position < n THEN IsAhead(i, i.keys[n])
                                ELSE ~(i.keys[n] \in live /\ IsAhead(i, i.keys[n]))
    /\ i.move = "prev" =>
          \E n \in DOMAIN i.keys : i.keys[n] = i.goal /\ i.position < n /\ i.goal \in live

(* The iterator stands at no entry, or at the one of the key at its        *)
(* position, which is the one the last move was to find.                   *)
Arrives(i, v, live) ==
    /\ i.current # {} =>
          LET k == i.keys[i.position + 1] IN
          /\ i.position + 1 \in DOMAIN i.keys /\ i.current = v[k]
          /\ i.move \in {"seek", "next"} => IsAhead(i, k) /\ \A m \in live : IsAhead(i, m) => k <= m
          /\ i.move = "prev" => k <= i.goal
    /\ i.current = {} /\ i.move \in {"seek", "next"} => \A m \in live : ~IsAhead(i, m)

IterOK(i, v, live) ==
    /\ i.phase \in Collecting => Gathers(i, live)
    /\ i.phase \in Loading \cup {"ready"} => Lists(i, live)
    /\ i.phase \in Loading => Approaches(i, live)
    /\ i.phase = "ready" => Arrives(i, v, live)

ScanOK(r) ==
    /\ it[r] \in Iterator /\ IterOK(it[r], view[r], LiveKeys(it[r], view[r]))
    /\ it[r].phase = "none" => snap[r] = {}
    /\ it[r].phase # "none" => mode = "up" /\ snap[r] # {}
    /\ rpc[r] # "idle" <=> it[r].phase = "get"
    /\ it[r].phase = "get" => /\ it[r].position + 1 \in DOMAIN it[r].keys
                              /\ rkey[r] = it[r].keys[it[r].position + 1] /\ viaSnap[r]
    /\ it[r].phase # "get" => ~viaSnap[r]

ScanInv == NoTables /\ DOMAIN it = Readers /\ \A r \in Readers : ScanOK(r)

LEMMA NoneIdle == NoIterator \in Iterator /\ NoIterator.phase = "none"
<1>1. <<>> \in Seq(Key) /\ 0 \in Nat
  OBVIOUS
<1> QED BY <1>1, Zenon DEF NoIterator, Iterator, Phases, Moves

LEMMA IdleIterator ==
    ASSUME NEW r \in Readers, it[r] = NoIterator, snap[r] = {}, rpc[r] = "idle", ~viaSnap[r]
    PROVE  ScanOK(r)
<1>1. \A i, v, live : i.phase = "none" => IterOK(i, v, live)
  BY Zenon DEF IterOK, Collecting, Loading
<1> QED BY <1>1, NoneIdle, Zenon DEF ScanOK

LEMMA IdleNext ==
    ASSUME NEW r \in Readers, it'[r] = NoIterator, snap'[r] = {}, rpc'[r] = "idle", ~viaSnap'[r]
    PROVE  ScanOK(r)'
<1>1. \A i, v, live : i.phase = "none" => IterOK(i, v, live)'
  BY Zenon DEF IterOK, Collecting, Loading
<1>2. PICK i, v, live : i = it'[r] /\ v = view'[r] /\ live = LiveKeys(it'[r], view'[r])
  BY Zenon
<1>3. IterOK(i, v, live)'
  BY <1>1, <1>2, NoneIdle, Zenon
<1>4. IterOK(it[r], view[r], LiveKeys(it[r], view[r]))'
  BY <1>2, <1>3, Zenon
<1> QED BY <1>4, NoneIdle, Zenon DEF ScanOK

(* An iterator that does not move, while the keys in memory grow.          *)
LEMMA ScanStays ==
    ASSUME NEW r \in Readers, ScanOK(r), it'[r] = it[r], ReaderStays(r),
           it[r].phase # "none" => mode' = "up",
           \A k : /\ InMemtable(k) => InMemtable(k)' \/ InImmutable(k)'
                  /\ InImmutable(k) => InImmutable(k)'
    PROVE  ScanOK(r)'
<1>1. PICK i, v : i = it[r] /\ v = view[r] /\ it'[r] = i /\ view'[r] = v
  BY Zenon DEF ReaderStays
<1>2. \A live : Gathers(i, live) => Gathers(i, live)'
  BY Zenon DEF Gathers
<1>3. \A live : IterOK(i, v, live) => IterOK(i, v, live)'
  BY <1>2, Zenon DEF IterOK
<1>4. IterOK(i, v, LiveKeys(i, v))
  BY <1>1, Zenon DEF ScanOK
<1>5. PICK live : live = LiveKeys(i, v)
  BY Zenon
<1>6. IterOK(i, v, live)'
  BY <1>3, <1>4, <1>5, Zenon
<1>7. IterOK(it[r], view[r], LiveKeys(it[r], view[r]))'
  BY <1>1, <1>5, <1>6, Zenon
<1> QED BY <1>1, <1>7, Zenon DEF ScanOK, ReaderStays

LEMMA ScanEngine ==
    ASSUME Flushers = {}, SeqInv, SeqInv', CallInv, ReadersOK, ScanInv, SEngineStep PROVE ScanInv'
<1>0. NoTables'
  BY NoTablesStep, Zenon DEF ScanInv, SEngineStep, EngineStep
<1>1. CASE mode' = "down"
  <2>1. it' = [r \in Readers |-> NoIterator] /\ rpc' = [r \in Readers |-> "idle"]
        /\ snap' = [r \in Readers |-> {}] /\ viaSnap' = [r \in Readers |-> FALSE]
    BY <1>1, Zenon DEF SEngineStep, EngineStep
  <2>2. \A r \in Readers : ScanOK(r)'
    BY <2>1, IdleNext, Zenon
  <2> QED BY <1>0, <2>1, <2>2, Zenon DEF ScanInv
<1>2. CASE mode' # "down"
  <2>1. it' = it /\ \A r \in Readers : ReaderStays(r)
    BY <1>2, Zenon DEF SEngineStep, EngineStep, rvars, rlocals, ReaderStays
  <2>2. mode' = "up"
    BY <1>2, Zenon DEF SeqInv, TypeInv, MemoryOK
  <2>3. CASE mode = "up"
    <3>1. \A k : /\ InMemtable(k) => InMemtable(k)' \/ InImmutable(k)'
                 /\ InImmutable(k) => InImmutable(k)'
      <4>1. CASE \E t \in Thread : ThreadNext(t)
        BY <4>1, KeysGrow, Zenon
      <4>2. CASE Spill \/ Rest
        BY <4>2, Zenon DEF Spill, Rest, vars, memory, InMemtable, InImmutable
      <4>3. ~Open /\ ~Crash
        BY <2>2, <2>3, Zenon DEF Open, Crash, Vanish
      <4> QED BY <4>1, <4>2, <4>3, Zenon DEF SEngineStep, EngineStep, Next
    <3>2. \A r \in Readers : ScanOK(r)'
      BY <2>1, <2>2, <3>1, ScanStays, Zenon DEF ScanInv
    <3> QED BY <1>0, <2>1, <3>2, Zenon DEF ScanInv
  <2>4. CASE mode # "up"
    <3>1. ASSUME NEW r \in Readers PROVE ScanOK(r)'
      <4>1. it[r].phase = "none" /\ it[r] \in Iterator /\ snap[r] = {} /\ rpc[r] = "idle"
            /\ ~viaSnap[r]
        BY <2>4, Zenon DEF ScanInv, ScanOK
      <4>2. \A i, v, live : i.phase = "none" => IterOK(i, v, live)'
        BY Zenon DEF IterOK, Collecting, Loading
      <4>3. it'[r] = it[r] /\ rpc'[r] = rpc[r] /\ snap'[r] = snap[r]
            /\ viaSnap'[r] = viaSnap[r]
        BY <2>1, Zenon DEF ReaderStays
      <4>4. IterOK(it[r], view[r], LiveKeys(it[r], view[r]))'
        <5>1. PICK i, v, live : i = it'[r] /\ v = view'[r] /\ live = LiveKeys(it'[r], view'[r])
          BY Zenon
        <5>2. IterOK(i, v, live)'
          BY <4>1, <4>2, <4>3, <5>1, Zenon
        <5> QED BY <5>1, <5>2, Zenon
      <4> QED BY <4>1, <4>3, <4>4, Zenon DEF ScanOK
    <3> QED BY <1>0, <2>1, <3>1, Zenon DEF ScanInv
  <2> QED BY <2>3, <2>4, Zenon
<1> QED BY <1>1, <1>2, Zenon

(* What the steps of an iterator leave alone.                              *)
LEMMA ScanOthers ==
    ASSUME ReadersOK, ScanInv, NEW r \in Readers, IteratorStep(r)
    PROVE  /\ UNCHANGED vars /\ NoTables' /\ DOMAIN it' = Readers
           /\ \A u \in Readers \ {r} : ScanOK(u)'
           /\ \A k : (InMemtable(k)' <=> InMemtable(k)) /\ (InImmutable(k)' <=> InImmutable(k))
<1>1. UNCHANGED vars
  BY Zenon DEF IteratorStep, NewIterator, CollectMemtable, CollectImmutable, CollectTables, LoadNone,
     LoadCurrent, BeginLookup, GetStep, SearchMemtable, SearchImmutable, SearchTables, Search, Loaded,
     EndLookup, NextKey, Prev, PrevNone, Seek, SeekFirst, SeekLast, SeekLastNone, Move, Forget, DropIterator,
     vars
<1>2. /\ NoTables' /\ mode' = mode
      /\ \A k : (InMemtable(k)' <=> InMemtable(k)) /\ (InImmutable(k)' <=> InImmutable(k))
  BY <1>1, Zenon DEF vars, memory, disk, NoTables, InMemtable, InImmutable, ScanInv
<1>3. /\ DOMAIN it' = Readers
      /\ \A u \in Readers \ {r} : it'[u] = it[u]
  BY Zenon DEF IteratorStep, NewIterator, CollectMemtable, CollectImmutable, CollectTables, LoadNone,
     LoadCurrent, GetStep, svars, Loaded, NextKey, Prev, PrevNone, Seek, SeekFirst, SeekLast, SeekLastNone,
     Move, Forget, DropIterator, Set, ScanInv
<1>4. ASSUME NEW u \in Readers \ {r} PROVE ReaderStays(u)
  <2> USE DEF ReadersOK, ReaderStays
  <2>1. CASE NewIterator(r) \/ DropIterator(r)
    BY <1>4, <2>1, Zenon DEF NewIterator, DropIterator, rlocals
  <2>2. CASE LoadCurrent(r)
    BY <1>4, <2>2, Zenon DEF LoadCurrent, BeginLookup
  <2>3. CASE GetStep(r)
    BY <1>4, <2>3, Zenon DEF GetStep, SearchMemtable, SearchImmutable, SearchTables, Search
  <2>4. CASE Loaded(r)
    BY <1>4, <2>4, Zenon DEF Loaded, EndLookup
  <2>5. CASE ~(NewIterator(r) \/ DropIterator(r) \/ LoadCurrent(r) \/ GetStep(r) \/ Loaded(r))
    <3>1. UNCHANGED rvars
      BY <2>5, Zenon DEF IteratorStep, CollectMemtable, CollectImmutable, CollectTables, LoadNone,
         NextKey, Prev, PrevNone, Seek, SeekFirst, SeekLast, SeekLastNone, Move, Forget
    <3> QED BY <3>1, Zenon DEF rvars, rlocals
  <2> QED BY <2>1, <2>2, <2>3, <2>4, <2>5, Zenon
<1>5. ASSUME NEW u \in Readers \ {r} PROVE ScanOK(u)'
  <2>1. ScanOK(u) /\ (it[u].phase # "none" => mode' = "up")
    BY <1>2, <1>5, Zenon DEF ScanInv, ScanOK
  <2> QED BY <1>2, <1>3, <1>4, <1>5, <2>1, ScanStays, Zenon
<1> QED BY <1>1, <1>2, <1>3, <1>5, Zenon

(* A step to the iterator j over the same snapshot.                        *)
LEMMA ScanTo ==
    ASSUME NEW r \in Readers, ScanOK(r), it[r].phase # "none", NEW j \in Iterator, it'[r] = j,
           j.phase # "none", j.start = it[r].start, j.end = it[r].end,
           mode' = mode, snap'[r] = snap[r], view'[r] = view[r],
           \A k : (InMemtable(k)' <=> InMemtable(k)) /\ (InImmutable(k)' <=> InImmutable(k)),
           IterOK(j, view[r], LiveKeys(it[r], view[r])),
           rpc'[r] # "idle" <=> j.phase = "get",
           j.phase = "get" => /\ j.position + 1 \in DOMAIN j.keys
                              /\ rkey'[r] = j.keys[j.position + 1] /\ viaSnap'[r],
           j.phase # "get" => ~viaSnap'[r]
    PROVE  ScanOK(r)'
<1>1. PICK v, live : v = view[r] /\ live = LiveKeys(it[r], view[r])
  BY Zenon
<1>2. LiveKeys(j, v) = live
  BY <1>1, Zenon DEF LiveKeys
<1>3. IterOK(j, v, live)'
  <2>1. IterOK(j, v, live)
    BY <1>1, Zenon
  <2>2. Gathers(j, live) => Gathers(j, live)'
    BY Zenon DEF Gathers
  <2> QED BY <2>1, <2>2, Zenon DEF IterOK
<1>4. IterOK(it[r], view[r], LiveKeys(it[r], view[r]))'
  BY <1>1, <1>2, <1>3, Zenon
<1>5. mode = "up" /\ snap[r] # {}
  BY Zenon DEF ScanOK
<1> QED BY <1>4, <1>5, Zenon DEF ScanOK

(* The fields of an iterator have their types.                             *)
LEMMA Fields ==
    ASSUME NEW i \in Iterator
    PROVE  /\ i.phase \in Phases /\ i.collected \subseteq Key /\ i.start \in Nat /\ i.end \in Nat
           /\ i.keys \in Seq(Key) /\ i.position \in Nat /\ i.current \subseteq Op /\ i.move \in Moves
           /\ i.goal \in Nat /\ i.moves \in Nat
           /\ Len(i.keys) \in Nat /\ DOMAIN i.keys = 1 .. Len(i.keys)
           /\ \A n \in DOMAIN i.keys : i.keys[n] \in Key
           /\ Key \subseteq Nat /\ \A n \in DOMAIN i.keys : n \in Nat /\ i.keys[n] \in Nat
<1>1. /\ i.phase \in Phases /\ i.collected \subseteq Key /\ i.start \in Nat /\ i.end \in Nat
      /\ i.keys \in Seq(Key) /\ i.position \in Nat /\ i.current \subseteq Op /\ i.move \in Moves
      /\ i.goal \in Nat /\ i.moves \in Nat
  BY Zenon DEF Iterator
<1>2. Key \subseteq Nat
  BY ScansAssumption
<1>3. /\ Len(i.keys) \in Nat /\ DOMAIN i.keys = 1 .. Len(i.keys)
      /\ \A n \in DOMAIN i.keys : i.keys[n] \in Key
  BY <1>1
<1>4. \A n \in DOMAIN i.keys : n \in Nat
  BY <1>3
<1> QED BY <1>1, <1>2, <1>3, <1>4, Zenon

(* load_current past the end, at an entry, and on to the next key.         *)
Becomes(i, j, v, live, phase) ==
    j \in Iterator /\ IterOK(j, v, live) /\ j.phase = phase /\ j.start = i.start /\ j.end = i.end
HasEntry(v, k, entry) == entry = v[k] /\ entry # {} /\ entry \subseteq Op
StandsAt(i, k) == i.position + 1 \in DOMAIN i.keys /\ k = i.keys[i.position + 1]
Ended(i, j) == j = [i EXCEPT !.phase = "ready", !.current = {}]
Shown(i, entry, j) == j = [i EXCEPT !.phase = "ready", !.current = entry]
Skipped(i, j) == j = [i EXCEPT !.phase = "load", !.position = @ + 1]

LEMMA LoadsNone ==
    ASSUME NEW i \in Iterator, NEW v, NEW live, Lists(i, live), Approaches(i, live),
           i.position >= Len(i.keys), NEW j, Ended(i, j)
    PROVE  Becomes(i, j, v, live, "ready")
<1>0. /\ i.move \in Moves /\ i.position \in Nat /\ Len(i.keys) \in Nat /\ DOMAIN i.keys = 1 .. Len(i.keys)
  BY Fields, Zenon
<1>1. /\ j \in Iterator /\ j.phase = "ready" /\ j.current = {} /\ j.keys = i.keys /\ j.position = i.position
      /\ j.start = i.start /\ j.end = i.end /\ j.move = i.move /\ j.goal = i.goal
  BY Zenon DEF Ended, Iterator, Phases
<1>2. \A k : IsAhead(j, k) <=> IsAhead(i, k)
  BY <1>1, Zenon DEF IsAhead
<1>3. Lists(j, live)
  BY <1>1, Zenon DEF Lists
<1>4. ASSUME j.move \in {"seek", "next"}, NEW m \in live PROVE ~IsAhead(j, m)
  <2>1. PICK n \in DOMAIN i.keys : i.keys[n] = m
    BY <1>4, Zenon DEF Lists
  <2>2. ~(i.position < n)
    BY <1>0
  <2> QED BY <1>1, <1>2, <1>4, <2>1, <2>2, Zenon DEF Approaches
<1>5. Arrives(j, v, live)
  BY <1>1, <1>4, Zenon DEF Arrives
<1>6. j.phase \notin Collecting \cup Loading
  BY <1>1, Zenon DEF Collecting, Loading
<1>7. IterOK(j, v, live)
  BY <1>1, <1>3, <1>5, <1>6, Zenon DEF IterOK
<1> QED BY <1>1, <1>7, Zenon DEF Becomes

(* load_current finds an entry.                                            *)
LEMMA LoadsEntry ==
    ASSUME NEW i \in Iterator, NEW v, NEW live, Lists(i, live), Approaches(i, live),
           NEW k, StandsAt(i, k), NEW entry, HasEntry(v, k, entry),
           NEW j, Shown(i, entry, j)
    PROVE  Becomes(i, j, v, live, "ready")
<1>a. /\ i.position + 1 \in DOMAIN i.keys /\ k = i.keys[i.position + 1]
      /\ entry = v[k] /\ entry # {} /\ entry \subseteq Op
  BY Zenon DEF StandsAt, HasEntry
<1>0. /\ i.move \in Moves /\ i.position \in Nat /\ Len(i.keys) \in Nat /\ DOMAIN i.keys = 1 .. Len(i.keys)
      /\ k \in Nat /\ \A n \in DOMAIN i.keys : i.keys[n] \in Nat
  BY <1>a, Fields, Zenon
<1>1. /\ j \in Iterator /\ j.phase = "ready" /\ j.current = entry /\ j.keys = i.keys /\ j.position = i.position
      /\ j.start = i.start /\ j.end = i.end /\ j.move = i.move /\ j.goal = i.goal
  BY <1>a, Zenon DEF Shown, Iterator, Phases
<1>2. \A m : IsAhead(j, m) <=> IsAhead(i, m)
  BY <1>1, Zenon DEF IsAhead
<1>3. Lists(j, live)
  BY <1>1, Zenon DEF Lists
<1>4. \A n \in DOMAIN i.keys : i.position + 1 <= n => k <= i.keys[n]
  <2> SUFFICES ASSUME NEW n \in DOMAIN i.keys, i.position + 1 <= n PROVE k <= i.keys[n]
    BY Zenon
  <2>1. i.position + 1 < n => k < i.keys[n]
    BY <1>a, Zenon DEF Lists, Sorted
  <2>2. i.position + 1 = n => k = i.keys[n]
    BY <1>a, Zenon
  <2> QED BY <1>0, <2>1, <2>2, SMTT(30)
<1>5. ASSUME i.move \in {"seek", "next"}
      PROVE  IsAhead(i, k) /\ \A m \in live : IsAhead(i, m) => k <= m
  <2>1. i.position < i.position + 1
    BY <1>0
  <2>2. IsAhead(i, k)
    BY <1>a, <1>5, <2>1, Zenon DEF Approaches
  <2>3. ASSUME NEW m \in live, IsAhead(i, m) PROVE k <= m
    <3>1. PICK n \in DOMAIN i.keys : i.keys[n] = m
      BY <2>3, Zenon DEF Lists
    <3>2. i.position < n
      BY <1>5, <2>3, <3>1, Zenon DEF Approaches
    <3>3. i.position + 1 <= n
      BY <1>0, <3>2
    <3> QED BY <1>4, <3>1, <3>3, Zenon
  <2> QED BY <2>2, <2>3, Zenon
<1>6. ASSUME i.move = "prev" PROVE k <= i.goal
  <2>1. PICK n \in DOMAIN i.keys : i.keys[n] = i.goal /\ i.position < n
    BY <1>6, Zenon DEF Approaches
  <2>2. i.position + 1 <= n
    BY <1>0, <2>1
  <2> QED BY <1>4, <2>1, <2>2, Zenon
<1>7. Arrives(j, v, live)
  <2>1. j.keys[j.position + 1] = k /\ j.position + 1 \in DOMAIN j.keys /\ j.current # {}
    BY <1>a, <1>1, Zenon
  <2> QED BY <1>a, <1>1, <1>2, <1>5, <1>6, <2>1, Zenon DEF Arrives
<1>8. j.phase \notin Collecting \cup Loading
  BY <1>1, Zenon DEF Collecting, Loading
<1>9. IterOK(j, v, live)
  BY <1>1, <1>3, <1>7, <1>8, Zenon DEF IterOK
<1> QED BY <1>1, <1>9, Zenon DEF Becomes

(* load_current finds none and goes on to the next key.                    *)
LEMMA LoadsOn ==
    ASSUME NEW i \in Iterator, NEW v, NEW live, Lists(i, live), Approaches(i, live),
           NEW k, StandsAt(i, k), k \notin live,
           NEW j, Skipped(i, j)
    PROVE  Becomes(i, j, v, live, "load")
<1>a. i.position + 1 \in DOMAIN i.keys /\ k = i.keys[i.position + 1]
  BY Zenon DEF StandsAt
<1>0. /\ i.move \in Moves /\ i.position \in Nat /\ i.position + 1 \in Nat /\ \A n \in DOMAIN i.keys : n \in Nat
  <2>1. i.move \in Moves /\ i.position \in Nat /\ \A n \in DOMAIN i.keys : n \in Nat
    BY Fields, Zenon
  <2> QED BY <2>1
<1>1. /\ j \in Iterator /\ j.phase = "load" /\ j.keys = i.keys /\ j.position = i.position + 1
      /\ j.start = i.start /\ j.end = i.end /\ j.move = i.move /\ j.goal = i.goal
  BY <1>0, Zenon DEF Skipped, Iterator, Phases, Loading
<1>2. \A m : IsAhead(j, m) <=> IsAhead(i, m)
  BY <1>1, Zenon DEF IsAhead
<1>3. Lists(j, live)
  BY <1>1, Zenon DEF Lists
<1>4. ASSUME i.move \in {"seek", "next"}, NEW n \in DOMAIN i.keys
      PROVE  IF i.position + 1 < n THEN IsAhead(i, i.keys[n])
                                   ELSE ~(i.keys[n] \in live /\ IsAhead(i, i.keys[n]))
  <2>1. IF i.position < n THEN IsAhead(i, i.keys[n])
                          ELSE ~(i.keys[n] \in live /\ IsAhead(i, i.keys[n]))
    BY <1>4, Zenon DEF Approaches
  <2>2. (i.position + 1 < n => i.position < n)
        /\ (~(i.position + 1 < n) => ~(i.position < n) \/ n = i.position + 1)
    BY <1>0
  <2> QED BY <1>a, <2>1, <2>2, Zenon
<1>5. ASSUME i.move = "prev"
      PROVE  \E n \in DOMAIN i.keys : i.keys[n] = i.goal /\ i.position + 1 < n /\ i.goal \in live
  <2>1. PICK n \in DOMAIN i.keys : i.keys[n] = i.goal /\ i.position < n /\ i.goal \in live
    BY <1>5, Zenon DEF Approaches
  <2>2. n # i.position + 1
    BY <1>a, <2>1, Zenon
  <2>3. i.position + 1 < n
    BY <1>0, <2>1, <2>2
  <2> QED BY <2>1, <2>3, Zenon
<1>6. Approaches(j, live)
  BY <1>1, <1>2, <1>4, <1>5, Zenon DEF Approaches
<1>7. j.phase \in Loading /\ j.phase \notin Collecting /\ j.phase # "ready"
  BY <1>1, Zenon DEF Collecting, Loading
<1>8. IterOK(j, v, live)
  BY <1>3, <1>6, <1>7, Zenon DEF IterOK
<1> QED BY <1>1, <1>8, Zenon DEF Becomes

(* k is ahead of a move forwards to g, or from it.                         *)
AheadOf(k, g, move) == k > g \/ (k = g /\ move = "seek")

(* A move that goes to position p finds the key to stop at from there on.  *)
Aims(i, live, move, p, g) ==
    /\ move \in {"seek", "next"} => \A n \in DOMAIN i.keys : p < n <=> AheadOf(i.keys[n], g, move)
    /\ move = "prev" => \E n \in DOMAIN i.keys : i.keys[n] = g /\ p < n /\ g \in live

(* A move to position p, which is then loaded, and one that only forgets   *)
(* the entry.                                                              *)
Moved(i, move, p, g, j) ==
    j = [i EXCEPT !.phase = "load", !.move = move, !.position = p, !.goal = g, !.moves = @ + 1]
Stopped(i, move, g, j) == j = [i EXCEPT !.current = {}, !.move = move, !.goal = g, !.moves = @ + 1]

LEMMA MovesOn ==
    ASSUME NEW i \in Iterator, NEW v, NEW live, Lists(i, live),
           NEW move \in Moves, NEW p \in Nat, NEW g \in Nat,
           Aims(i, live, move, p, g), NEW j, Moved(i, move, p, g, j)
    PROVE  Becomes(i, j, v, live, "load")
<1>0. i.moves + 1 \in Nat
  <2>1. i.moves \in Nat
    BY Fields, Zenon
  <2> QED BY <2>1
<1>1. /\ j \in Iterator /\ j.phase = "load" /\ j.keys = i.keys /\ j.position = p
      /\ j.start = i.start /\ j.end = i.end /\ j.move = move /\ j.goal = g
  BY <1>0, Zenon DEF Moved, Iterator, Phases, Loading
<1>2. \A m : IsAhead(j, m) <=> AheadOf(m, g, move)
  BY <1>1, Zenon DEF IsAhead, AheadOf
<1>3. Lists(j, live)
  BY <1>1, Zenon DEF Lists
<1>4. Approaches(j, live)
  BY <1>1, <1>2, Zenon DEF Approaches, Aims
<1>5. j.phase \in Loading /\ j.phase \notin Collecting /\ j.phase # "ready"
  BY <1>1, Zenon DEF Collecting, Loading
<1>6. IterOK(j, v, live)
  BY <1>3, <1>4, <1>5, Zenon DEF IterOK
<1> QED BY <1>1, <1>6, Zenon DEF Becomes

LEMMA MovesOff ==
    ASSUME NEW i \in Iterator, NEW v, NEW live, Lists(i, live), i.phase = "ready",
           NEW move \in Moves \ {"seek", "next"}, NEW g \in Nat, NEW j, Stopped(i, move, g, j)
    PROVE  Becomes(i, j, v, live, "ready")
<1>0. i.moves + 1 \in Nat
  <2>1. i.moves \in Nat
    BY Fields, Zenon
  <2> QED BY <2>1
<1>1. /\ j \in Iterator /\ j.phase = "ready" /\ j.keys = i.keys /\ j.current = {}
      /\ j.start = i.start /\ j.end = i.end /\ j.move = move
  BY <1>0, Zenon DEF Stopped, Iterator
<1>2. Lists(j, live) /\ Arrives(j, v, live)
  BY <1>1, Zenon DEF Lists, Arrives
<1>3. j.phase \notin Collecting \cup Loading
  BY <1>1, Zenon DEF Collecting, Loading
<1>4. IterOK(j, v, live)
  BY <1>1, <1>2, <1>3, Zenon DEF IterOK
<1> QED BY <1>1, <1>4, Zenon DEF Becomes

(* What collect_keys makes of the iterator.                                *)
KeysInRange(i) == {k \in i.collected : InRange(k, i.start, i.end)}
Collected(i, s, j) ==
    s \in SortedLists(KeysInRange(i)) /\ j = [i EXCEPT !.phase = "load", !.collected = {}, !.keys = s]

(* The keys that were collected, sorted: the first load is that of a seek  *)
(* to the start of the range.                                              *)
LEMMA CollectsAll ==
    ASSUME NEW i \in Iterator, NEW v, NEW live, Gathers(i, live), i.phase = "tables",
           \A k \in live : InRange(k, i.start, i.end),
           NEW s, NEW j, Collected(i, s, j)
    PROVE  Becomes(i, j, v, live, "load")
<1>1. PICK keys : keys = KeysInRange(i)
  BY Zenon
<1>2. keys \in SUBSET Key /\ i.start \in Nat /\ Key \subseteq Nat
  <2>1. i.collected \subseteq Key /\ Key \subseteq Nat /\ i.start \in Nat
    BY Fields, Zenon
  <2> QED BY <1>1, <2>1, Zenon DEF KeysInRange
<1>3. s \in SortedLists(keys)
  BY <1>1, Zenon DEF Collected
<1>5. /\ s \in Seq(Key) /\ Sorted(s) /\ \A n \in DOMAIN s : n > 0 /\ s[n] \in keys
      /\ \A k \in keys : \E n \in DOMAIN s : s[n] = k
  BY <1>2, <1>3, SortedFacts, Zenon
<1>6. /\ j \in Iterator /\ j.phase = "load" /\ j.keys = s /\ j.position = 0 /\ j.goal = i.start
      /\ j.move = "seek" /\ j.start = i.start /\ j.end = i.end
  BY <1>5, Zenon DEF Collected, Iterator, Phases, Loading, Gathers
<1>7. Lists(j, live)
  <2>1. \A k \in live : k \in keys
    BY <1>1, Zenon DEF Gathers, KeysInRange
  <2>2. \A n \in DOMAIN s : InRange(s[n], i.start, i.end)
    BY <1>1, <1>5, Zenon DEF KeysInRange
  <2> QED BY <1>5, <1>6, <2>1, <2>2, Zenon DEF Lists
<1>8. Approaches(j, live)
  <2>1. \A n \in DOMAIN s : 0 < n /\ IsAhead(j, s[n])
    <3> SUFFICES ASSUME NEW n \in DOMAIN s PROVE 0 < n /\ IsAhead(j, s[n])
      BY Zenon
    <3>1. s[n] \in Nat /\ i.start <= s[n] /\ n > 0
      BY <1>1, <1>2, <1>5, Zenon DEF KeysInRange, InRange
    <3>2. 0 < n /\ (s[n] > i.start \/ s[n] = i.start)
      BY <1>2, <3>1
    <3> QED BY <1>6, <3>2, Zenon DEF IsAhead
  <2> QED BY <1>6, <2>1, Zenon DEF Approaches
<1>9. j.phase \in Loading /\ j.phase \notin Collecting /\ j.phase # "ready"
  BY <1>6, Zenon DEF Collecting, Loading
<1>10. IterOK(j, v, live)
  BY <1>7, <1>8, <1>9, Zenon DEF IterOK
<1> QED BY <1>6, <1>10, Zenon DEF Becomes

(* The keys of the MemTables in memory.                                    *)
LEMMA CollectedKeys ==
    ASSUME SeqInv
    PROVE  LET imms == UNION {MemKeys(immutable[n]) : n \in DOMAIN immutable}
           IN  /\ MemKeys(memtable) \subseteq Key /\ imms \subseteq Key
               /\ \A k : (k \in MemKeys(memtable) <=> InMemtable(k)) /\ (k \in imms <=> InImmutable(k))
<1> DEFINE imms == UNION {MemKeys(immutable[n]) : n \in DOMAIN immutable}
           all == {v.op.key : v \in MemoryVersions}
<1>1. \A k : (k \in MemKeys(memtable) <=> InMemtable(k)) /\ (k \in imms <=> InImmutable(k))
  <2> SUFFICES ASSUME NEW k
               PROVE  (k \in MemKeys(memtable) <=> InMemtable(k)) /\ (k \in imms <=> InImmutable(k))
    BY Zenon
  <2>1. k \in MemKeys(memtable) <=> InMemtable(k)
    BY Zenon DEF MemKeys, InMemtable
  <2>2. k \in imms <=> \E n \in DOMAIN immutable : k \in MemKeys(immutable[n])
    BY Zenon
  <2>3. (\E n \in DOMAIN immutable : k \in MemKeys(immutable[n])) <=> InImmutable(k)
    BY Zenon DEF MemKeys, InImmutable
  <2> HIDE DEF imms
  <2> QED BY <2>1, <2>2, <2>3, Zenon
<1>2. MemoryVersions \subseteq Version
  BY VersionsTyped, Zenon DEF SeqInv
<1>3. all \subseteq Key
  BY <1>2, Zenon DEF Version, Op
<1>4. MemKeys(memtable) \in SUBSET all /\ imms \in SUBSET all
  <2>1. \A k : InMemtable(k) \/ InImmutable(k) => k \in all
    BY InMemoryVersions, Zenon DEF InMemtable, InImmutable
  <2> HIDE DEF imms, all
  <2> QED BY <1>1, <2>1, Zenon
<1>5. MemKeys(memtable) \subseteq Key /\ imms \subseteq Key
  <2> HIDE DEF all, imms
  <2> QED BY <1>3, <1>4, Zenon
<1> HIDE DEF all, imms
<1> QED BY <1>1, <1>5, Zenon DEF imms

(* A new iterator.                                                         *)
LEMMA ScanNew ==
    ASSUME SeqInv, ReadersOK, ScanInv, NEW r \in Readers, NewIterator(r) PROVE ScanOK(r)'
<1>1. PICK range \in Ranges :
         Set(r, [NoIterator EXCEPT !.phase = "memtable", !.start = range[1], !.end = range[2],
                                   !.move = "seek", !.goal = range[1]])
  BY Zenon DEF NewIterator
<1>2. PICK a, b, j : /\ a = range[1] /\ b = range[2]
                     /\ j = [NoIterator EXCEPT !.phase = "memtable", !.start = a, !.end = b,
                                               !.move = "seek", !.goal = a]
  BY Zenon
<1>3. a \in Nat /\ b \in Nat
  BY <1>1, <1>2, ScansAssumption
<1>4. it'[r] = j
  BY <1>1, <1>2, Zenon DEF Set, ScanInv
<1>5. /\ j \in Iterator /\ j.phase = "memtable" /\ j.start = a /\ j.end = b /\ j.move = "seek"
      /\ j.goal = a /\ j.position = 0 /\ j.collected = {}
  <2>1. <<>> \in Seq(Key) /\ 0 \in Nat
    OBVIOUS
  <2> QED BY <1>2, <1>3, <2>1, Zenon DEF NoIterator, Iterator, Phases, Moves, Collecting
<1>6. PICK v, live : v = view'[r] /\ live = LiveKeys(j, v)
  BY Zenon
<1>7. \A k \in live : InMemtable(k)' \/ InImmutable(k)'
  <2>1. TypeInv /\ NoTables
    BY Zenon DEF SeqInv, ScanInv
  <2>2. \A k \in Key : v[k] = Lookup(k, sequence)
    BY <1>6, Zenon DEF NewIterator, ReadersOK
  <2>3. \A k \in live : InMemtable(k) \/ InImmutable(k)
    BY <1>6, <2>1, <2>2, LookupKeys, Zenon DEF LiveKeys
  <2>4. UNCHANGED <<memtable, immutable>>
    BY Zenon DEF NewIterator, vars, memory
  <2> QED BY <2>3, <2>4, Zenon DEF InMemtable, InImmutable
<1>8. Gathers(j, live)'
  BY <1>5, <1>7, Zenon DEF Gathers
<1>9. IterOK(j, v, live)'
  BY <1>5, <1>8, Zenon DEF IterOK, Loading
<1>10. IterOK(it[r], view[r], LiveKeys(it[r], view[r]))'
  BY <1>4, <1>6, <1>9, Zenon
<1>11. mode' = "up" /\ snap'[r] = {sequence} /\ rpc'[r] = "idle" /\ ~viaSnap'[r]
  BY Zenon DEF NewIterator, vars, memory, rlocals, ReadersOK, ScanInv, ScanOK
<1> QED BY <1>4, <1>5, <1>10, <1>11, Zenon DEF ScanOK

(* collect_keys.                                                           *)
LEMMA ScanCollects ==
    ASSUME SeqInv, ReadersOK, ScanInv, NEW r \in Readers,
           CollectMemtable(r) \/ CollectImmutable(r) \/ CollectTables(r)
    PROVE  \E j \in Iterator :
              /\ it'[r] = j /\ j.phase \notin {"none", "get"}
              /\ j.start = it[r].start /\ j.end = it[r].end
              /\ IterOK(j, view[r], LiveKeys(it[r], view[r]))
<1>1. PICK i, v, live : i = it[r] /\ v = view[r] /\ live = LiveKeys(i, v)
  BY Zenon
<1>2. i \in Iterator /\ IterOK(i, v, live) /\ DOMAIN it = Readers /\ i.collected \subseteq Key
  <2>1. i \in Iterator /\ IterOK(i, v, live) /\ DOMAIN it = Readers
    BY <1>1, Zenon DEF ScanInv, ScanOK
  <2> QED BY <2>1, Fields, Zenon
<1>3. PICK mems, imms : /\ mems = MemKeys(memtable)
                        /\ imms = UNION {MemKeys(immutable[n]) : n \in DOMAIN immutable}
  BY Zenon
<1>4. /\ mems \subseteq Key /\ imms \subseteq Key
      /\ \A k : (k \in mems <=> InMemtable(k)) /\ (k \in imms <=> InImmutable(k))
  BY <1>3, CollectedKeys, Zenon
<1>5. CASE CollectMemtable(r)
  <2>1. PICK j : j = [i EXCEPT !.phase = "immutable", !.collected = mems]
    BY Zenon
  <2>2. it'[r] = j /\ i.phase = "memtable"
    BY <1>1, <1>2, <1>3, <1>5, <2>1, Zenon DEF CollectMemtable, Set
  <2>3. Gathers(i, live)
    BY <1>2, <2>2, Zenon DEF IterOK, Collecting
  <2>4. /\ j \in Iterator /\ j.phase = "immutable" /\ j.collected = mems /\ j.start = i.start
        /\ j.end = i.end /\ j.move = i.move /\ j.goal = i.goal /\ j.position = i.position
    BY <1>2, <1>4, <2>1, Zenon DEF Iterator, Phases, Collecting
  <2>5. Gathers(j, live)
    BY <1>4, <2>2, <2>3, <2>4, Zenon DEF Gathers
  <2>6. IterOK(j, v, live)
    BY <2>4, <2>5, Zenon DEF IterOK, Loading
  <2> QED BY <1>1, <2>2, <2>4, <2>6, Zenon
<1>6. CASE CollectImmutable(r)
  <2>1. PICK both, j : both = i.collected \cup imms /\ j = [i EXCEPT !.phase = "tables", !.collected = both]
    BY Zenon
  <2>2. it'[r] = j /\ i.phase = "immutable"
    BY <1>1, <1>2, <1>3, <1>6, <2>1, Zenon DEF CollectImmutable, Set
  <2>3. Gathers(i, live)
    BY <1>2, <2>2, Zenon DEF IterOK, Collecting
  <2>4. both \subseteq Key /\ \A k \in live : k \in both
    <3>1. \A k \in live : k \in i.collected \/ InImmutable(k)
      BY <2>2, <2>3, Zenon DEF Gathers
    <3> QED BY <1>2, <1>4, <2>1, <3>1, Zenon
  <2>5. /\ j \in Iterator /\ j.phase = "tables" /\ j.collected = both /\ j.start = i.start
        /\ j.end = i.end /\ j.move = i.move /\ j.goal = i.goal /\ j.position = i.position
    BY <1>2, <2>1, <2>4, Zenon DEF Iterator, Phases, Collecting
  <2>6. Gathers(j, live)
    BY <2>3, <2>4, <2>5, Zenon DEF Gathers
  <2>7. IterOK(j, v, live)
    BY <2>5, <2>6, Zenon DEF IterOK, Loading
  <2> QED BY <1>1, <2>2, <2>5, <2>7, Zenon
<1>7. CASE CollectTables(r)
  <2>1. DOMAIN levels = Level /\ \A l \in Level : levels[l] = {}
    BY Zenon DEF ScanInv, NoTables, SeqInv, TypeInv, MemoryOK
  <2>2. i.collected \cup UNION {UNION {TableKeys(h) : h \in levels[l]} : l \in DOMAIN levels} = i.collected
    <3>1. \A l \in DOMAIN levels : UNION {TableKeys(h) : h \in levels[l]} = {}
      BY <2>1, Zenon
    <3>2. UNION {UNION {TableKeys(h) : h \in levels[l]} : l \in DOMAIN levels} = {}
      BY <3>1, Zenon
    <3> QED BY <3>2, Zenon
  <2>3. PICK s \in SortedLists(KeysInRange(i)) :
           Set(r, [i EXCEPT !.phase = "load", !.collected = {}, !.keys = s]) /\ i.phase = "tables"
    BY <1>1, <1>7, <2>2, Zenon DEF CollectTables, KeysInRange
  <2>4. PICK j : j = [i EXCEPT !.phase = "load", !.collected = {}, !.keys = s] /\ it'[r] = j
    BY <1>2, <2>3, Zenon DEF Set
  <2>5. Gathers(i, live)
    BY <1>2, <2>3, Zenon DEF IterOK, Collecting
  <2>6. \A k \in live : InRange(k, i.start, i.end)
    BY <1>1, Zenon DEF LiveKeys
  <2>7. i \in Iterator /\ i.phase = "tables" /\ Collected(i, s, j)
    BY <1>2, <2>3, <2>4, Zenon DEF Collected
  <2>8. j \in Iterator /\ IterOK(j, v, live) /\ j.phase = "load" /\ j.start = i.start /\ j.end = i.end
    <3>1. Becomes(i, j, v, live, "load")
      BY <2>5, <2>6, <2>7, CollectsAll, Zenon
    <3> QED BY <3>1, Zenon DEF Becomes
  <2> QED BY <1>1, <2>4, <2>8, Zenon
<1> QED BY <1>5, <1>6, <1>7, Zenon

(* What an iterator may find for a key is an operation on that key.        *)
LEMMA ViewKeys ==
    ASSUME SeqInv, SnapInv, ScanInv, NEW r \in Readers, it[r].phase # "none", NEW k \in Key
    PROVE  view[r][k] \subseteq Op /\ \A o \in view[r][k] : o.key = k
<1>1. PICK s \in snap[r] : TRUE
  BY Zenon DEF ScanInv, ScanOK
<1>2. view[r][k] = Lookup(k, s)
  BY <1>1, Zenon DEF SnapInv, SnapOK
<1>3. TypeInv /\ NoTables
  BY Zenon DEF SeqInv, ScanInv
<1>4. Lookup(k, s) \subseteq Op /\ \A o \in Lookup(k, s) : o.key = k
  BY <1>3, LookupKeys, Zenon
<1> QED BY <1>2, <1>4, Zenon

(* The entry of an iterator is that of the key at its position.            *)
LEMMA EntryKey ==
    ASSUME SeqInv, SnapInv, ScanInv, NEW r \in Readers, it[r].phase = "ready", it[r].current # {}
    PROVE  /\ it[r].position + 1 \in DOMAIN it[r].keys
           /\ it[r].keys[it[r].position + 1] \in LiveKeys(it[r], view[r])
           /\ KeyLeft(it[r].current) = it[r].keys[it[r].position + 1]
<1>1. PICK i, v, live, k : i = it[r] /\ v = view[r] /\ live = LiveKeys(i, v) /\ k = i.keys[i.position + 1]
  BY Zenon
<1>2. i \in Iterator /\ Lists(i, live) /\ Arrives(i, v, live)
  BY <1>1, Zenon DEF ScanInv, ScanOK, IterOK
<1>3. i.position + 1 \in DOMAIN i.keys /\ i.current = v[k] /\ InRange(k, i.start, i.end)
  BY <1>1, <1>2, Zenon DEF Arrives, Lists
<1>4. k \in Key
  BY <1>1, <1>2, <1>3, Fields, Zenon
<1>5. \A o \in v[k] : o.key = k
  BY <1>1, <1>4, ViewKeys, Zenon
<1>6. KeyLeft(i.current) = k
  BY <1>1, <1>3, <1>5, Zenon DEF KeyLeft
<1>7. k \in live
  BY <1>1, <1>3, <1>4, Zenon DEF LiveKeys
<1> QED BY <1>1, <1>3, <1>6, <1>7, Zenon

(* The moves of an iterator.                                               *)
LEMMA ScanMoves ==
    ASSUME SeqInv, SnapInv, ScanInv, NEW r \in Readers,
           \/ NextKey(r) \/ Prev(r) \/ PrevNone(r) \/ Seek(r) \/ SeekFirst(r) \/ SeekLast(r)
           \/ SeekLastNone(r)
    PROVE  \E j \in Iterator :
              /\ it'[r] = j /\ j.phase \notin {"none", "get"}
              /\ j.start = it[r].start /\ j.end = it[r].end
              /\ IterOK(j, view[r], LiveKeys(it[r], view[r]))
<1>1. PICK i, v, live, c, left :
         /\ i = it[r] /\ v = view[r] /\ live = LiveKeys(i, v) /\ c = i.current /\ left = KeyLeft(c)
  BY Zenon
<1>2. i.phase = "ready"
  BY <1>1, Zenon DEF NextKey, Prev, PrevNone, Seek, SeekFirst, SeekLast, SeekLastNone, Move, Forget
<1>3. i \in Iterator /\ Lists(i, live) /\ DOMAIN it = Readers
  BY <1>1, <1>2, Zenon DEF ScanInv, ScanOK, IterOK
<1>4. /\ i.position \in Nat /\ Len(i.keys) \in Nat /\ DOMAIN i.keys = 1 .. Len(i.keys)
      /\ \A n \in DOMAIN i.keys : n \in Nat /\ i.keys[n] \in Nat /\ i.keys[n] \in Key
      /\ i.keys \in Seq(Key) /\ Key \subseteq Nat
  BY <1>3, Fields, Zenon
<1>5. c # {} => /\ i.position + 1 \in DOMAIN i.keys /\ i.keys[i.position + 1] = left /\ left \in live
  BY <1>1, <1>2, EntryKey, Zenon
<1>6. left \in Nat /\ 0 \in Nat
  <2>1. c = {} => left = 0
    BY <1>1, Zenon DEF KeyLeft, EmptyKey
  <2> QED BY <1>4, <1>5, <2>1, SMTT(30)
<1>7. ASSUME NEW move \in Moves, NEW p \in Nat, NEW g \in Nat, Move(r, move, p, g),
             move \in {"seek", "next"} =>
                \A n \in DOMAIN i.keys : p < n <=> AheadOf(i.keys[n], g, move),
             move = "prev" => \E n \in DOMAIN i.keys : i.keys[n] = g /\ p < n /\ g \in live
      PROVE  \E j \in Iterator :
                /\ it'[r] = j /\ j.phase \notin {"none", "get"}
                /\ j.start = it[r].start /\ j.end = it[r].end
                /\ IterOK(j, view[r], LiveKeys(it[r], view[r]))
  <2>1. PICK j : j = [i EXCEPT !.phase = "load", !.move = move, !.position = p, !.goal = g,
                               !.moves = @ + 1]
    BY Zenon
  <2>2. it'[r] = j
    BY <1>1, <1>3, <1>7, <2>1, Zenon DEF Move, Set
  <2>3. j \in Iterator /\ IterOK(j, v, live) /\ j.phase = "load" /\ j.start = i.start /\ j.end = i.end
    <3>1. Moved(i, move, p, g, j)
      BY <2>1, Zenon DEF Moved
    <3>2. Aims(i, live, move, p, g)
      BY <1>7, Zenon DEF Aims
    <3>3. Becomes(i, j, v, live, "load")
      BY <1>3, <1>7, <3>1, <3>2, MovesOn, Zenon
    <3> QED BY <3>3, Zenon DEF Becomes
  <2> QED BY <1>1, <2>2, <2>3, Zenon
<1>8. ASSUME NEW move \in Moves \ {"seek", "next"}, NEW g \in Nat, Forget(r, move, g)
      PROVE  \E j \in Iterator :
                /\ it'[r] = j /\ j.phase \notin {"none", "get"}
                /\ j.start = it[r].start /\ j.end = it[r].end
                /\ IterOK(j, view[r], LiveKeys(it[r], view[r]))
  <2>1. PICK j : j = [i EXCEPT !.current = {}, !.move = move, !.goal = g, !.moves = @ + 1]
    BY Zenon
  <2>2. it'[r] = j
    BY <1>1, <1>3, <1>8, <2>1, Zenon DEF Forget, Set
  <2>3. j \in Iterator /\ IterOK(j, v, live) /\ j.phase = "ready" /\ j.start = i.start /\ j.end = i.end
    <3>1. Stopped(i, move, g, j)
      BY <2>1, Zenon DEF Stopped
    <3>2. Becomes(i, j, v, live, "ready")
      BY <1>2, <1>3, <1>8, <3>1, MovesOff, Zenon
    <3> QED BY <3>2, Zenon DEF Becomes
  <2> QED BY <1>1, <2>2, <2>3, Zenon
<1>9. CASE NextKey(r)
  <2>1. PICK move, p : move = MoveFrom(c, "next") /\ p = i.position + 1
    BY Zenon
  <2>2. Move(r, move, p, left)
    BY <1>1, <1>9, <2>1, Zenon DEF NextKey
  <2>3. p \in Nat
    BY <1>4, <2>1
  <2>4. move \in Moves /\ move # "prev" /\ move # "seek" /\ (move = "next" => c # {})
    BY <2>1, Zenon DEF MoveFrom, Moves
  <2>5. ASSUME move = "next", NEW n \in DOMAIN i.keys PROVE p < n <=> AheadOf(i.keys[n], left, move)
    <3>1. p \in DOMAIN i.keys /\ i.keys[p] = left
      BY <1>5, <2>1, <2>4, <2>5, Zenon
    <3>2. (p < n => left < i.keys[n]) /\ (n < p => i.keys[n] < left) /\ (n = p => i.keys[n] = left)
      BY <1>3, <2>5, <3>1, Zenon DEF Lists, Sorted
    <3>3. p < n <=> i.keys[n] > left
      BY <1>4, <1>6, <2>3, <2>5, <3>2, SMTT(30)
    <3> QED BY <2>4, <3>3, Zenon DEF AheadOf
  <2> QED BY <1>6, <1>7, <2>2, <2>3, <2>4, <2>5, Zenon
<1>10. CASE Prev(r)
  <2>1. PICK move, p : move = MoveFrom(c, "prev") /\ p = i.position - 1
    BY Zenon
  <2>2. Move(r, move, p, left) /\ i.position > 0
    BY <1>1, <1>10, <2>1, Zenon DEF Prev
  <2>3. p \in Nat /\ p < i.position + 1
    BY <1>4, <2>1, <2>2, SMTT(30)
  <2>4. move \in Moves /\ move \notin {"seek", "next"} /\ (move = "prev" => c # {})
    BY <2>1, Zenon DEF MoveFrom, Moves
  <2> QED BY <1>5, <1>6, <1>7, <2>2, <2>3, <2>4, Zenon
<1>11. CASE PrevNone(r)
  <2>1. PICK move : move = MoveFrom(c, "prev")
    BY Zenon
  <2>2. Forget(r, move, left)
    BY <1>1, <1>11, <2>1, Zenon DEF PrevNone
  <2>3. move \in Moves \ {"seek", "next"}
    BY <2>1, Zenon DEF MoveFrom, Moves
  <2> QED BY <1>6, <1>8, <2>2, <2>3, Zenon
<1>12. CASE Seek(r)
  <2>1. PICK target \in Key : \E p \in 0 .. Len(i.keys) :
           /\ \A n \in DOMAIN i.keys : n <= p <=> i.keys[n] < target
           /\ Move(r, "seek", p, target)
    BY <1>1, <1>12, Zenon DEF Seek
  <2>2. PICK p \in 0 .. Len(i.keys) : /\ \A n \in DOMAIN i.keys : n <= p <=> i.keys[n] < target
                                      /\ Move(r, "seek", p, target)
    BY <2>1, Zenon
  <2>3. p \in Nat /\ target \in Nat
    BY <1>4, <2>1, <2>2, SMTT(30)
  <2>4. \A n \in DOMAIN i.keys : p < n <=> AheadOf(i.keys[n], target, "seek")
    <3> SUFFICES ASSUME NEW n \in DOMAIN i.keys PROVE p < n <=> AheadOf(i.keys[n], target, "seek")
      BY Zenon
    <3>1. n <= p <=> i.keys[n] < target
      BY <2>2, Zenon
    <3>2. p < n <=> (i.keys[n] > target \/ i.keys[n] = target)
      BY <1>4, <2>3, <3>1, SMTT(30)
    <3> QED BY <3>2, Zenon DEF AheadOf
  <2> QED BY <1>7, <2>2, <2>3, <2>4, Zenon DEF Moves
<1>13. CASE SeekFirst(r)
  <2>1. Move(r, "seek", 0, 0)
    BY <1>13, Zenon DEF SeekFirst
  <2>2. \A n \in DOMAIN i.keys : 0 < n /\ (i.keys[n] > 0 \/ i.keys[n] = 0)
    BY <1>4, SMTT(30)
  <2>3. \A n \in DOMAIN i.keys : 0 < n <=> AheadOf(i.keys[n], 0, "seek")
    BY <2>2, Zenon DEF AheadOf
  <2> QED BY <1>6, <1>7, <2>1, <2>3, Zenon DEF Moves
<1>14. CASE SeekLast(r)
  <2>1. PICK p : p = Len(i.keys) - 1
    BY Zenon
  <2>2. Move(r, "last", p, 0) /\ i.keys # <<>>
    BY <1>1, <1>14, <2>1, Zenon DEF SeekLast
  <2>3. p \in Nat
    BY <1>4, <2>1, <2>2, SMTT(30)
  <2> QED BY <1>6, <1>7, <2>2, <2>3, Zenon DEF Moves
<1>15. CASE SeekLastNone(r)
  BY <1>6, <1>8, <1>15, Zenon DEF SeekLastNone, Moves
<1> QED BY <1>9, <1>10, <1>11, <1>12, <1>13, <1>14, <1>15, Zenon

(* Loading the entry at the position.                                      *)
LEMMA ScanLoads ==
    ASSUME SeqInv, ReadersOK, SnapInv, ScanInv, NEW r \in Readers,
           LoadNone(r) \/ LoadCurrent(r) \/ GetStep(r) \/ Loaded(r),
           mode' = mode,
           \A k : (InMemtable(k)' <=> InMemtable(k)) /\ (InImmutable(k)' <=> InImmutable(k))
    PROVE  ScanOK(r)'
<1>1. PICK i, v, live, k : i = it[r] /\ v = view[r] /\ live = LiveKeys(i, v) /\ k = i.keys[i.position + 1]
  BY Zenon
<1>2. i \in Iterator /\ DOMAIN it = Readers /\ ScanOK(r) /\ IterOK(i, v, live)
  BY <1>1, Zenon DEF ScanInv, ScanOK
<1>3. /\ i.position \in Nat /\ Len(i.keys) \in Nat /\ DOMAIN i.keys = 1 .. Len(i.keys)
      /\ \A n \in DOMAIN i.keys : i.keys[n] \in Key
  BY <1>2, Fields, Zenon
<1>4. i.phase \in Loading => Lists(i, live) /\ Approaches(i, live)
  BY <1>2, Zenon DEF IterOK
<1>5. ASSUME NEW j \in Iterator, it'[r] = j, j.phase \notin {"none", "get"}, i.phase # "none",
             j.start = i.start, j.end = i.end, IterOK(j, v, live),
             snap'[r] = snap[r], view'[r] = view[r], rpc'[r] = "idle", ~viaSnap'[r]
      PROVE  ScanOK(r)'
  BY <1>1, <1>2, <1>5, ScanTo, Zenon
<1>6. CASE LoadNone(r)
  <2>1. PICK j : j = [i EXCEPT !.phase = "ready", !.current = {}]
    BY Zenon
  <2>2. it'[r] = j /\ i.phase = "load" /\ i.position >= Len(i.keys) /\ UNCHANGED rvars
    BY <1>1, <1>2, <1>6, <2>1, Zenon DEF LoadNone, Set
  <2>3. j \in Iterator /\ IterOK(j, v, live) /\ j.phase = "ready" /\ j.start = i.start /\ j.end = i.end
    <3>1. Ended(i, j) /\ Lists(i, live) /\ Approaches(i, live)
      BY <1>4, <2>1, <2>2, Zenon DEF Ended, Loading
    <3>2. Becomes(i, j, v, live, "ready")
      BY <1>2, <2>2, <3>1, LoadsNone, Zenon
    <3> QED BY <3>2, Zenon DEF Becomes
  <2>4. rpc'[r] = "idle" /\ ~viaSnap'[r] /\ snap'[r] = snap[r] /\ view'[r] = view[r]
    BY <1>1, <1>2, <2>2, Zenon DEF ScanOK, rvars, rlocals
  <2> QED BY <1>5, <2>2, <2>3, <2>4, Zenon
<1>7. CASE LoadCurrent(r)
  <2>1. PICK j : j = [i EXCEPT !.phase = "get"]
    BY Zenon
  <2>2. it'[r] = j /\ i.phase = "load" /\ i.position < Len(i.keys)
    BY <1>1, <1>2, <1>7, <2>1, Zenon DEF LoadCurrent, Set
  <2>3. /\ j \in Iterator /\ j.phase = "get" /\ j.start = i.start /\ j.end = i.end /\ j.keys = i.keys
        /\ j.position = i.position /\ j.move = i.move /\ j.goal = i.goal
    BY <1>2, <2>1, Zenon DEF Iterator, Phases, Loading
  <2>4. i.position + 1 \in DOMAIN i.keys
    BY <1>3, <2>2, SMTT(30)
  <2>5. /\ rpc'[r] = "memtable" /\ rkey'[r] = k /\ viaSnap'[r] /\ snap'[r] = snap[r] /\ view'[r] = view[r]
    BY <1>1, <1>7, Zenon DEF LoadCurrent, BeginLookup, ReadersOK
  <2>6. IterOK(j, v, live)
    <3>1. \A m : IsAhead(j, m) <=> IsAhead(i, m)
      BY <2>3, Zenon DEF IsAhead
    <3>2. Lists(i, live) /\ Approaches(i, live)
      BY <1>4, <2>2, Zenon DEF Loading
    <3>3. Lists(j, live)
      BY <2>3, <3>2, Zenon DEF Lists
    <3>4. Approaches(j, live)
      BY <2>3, <3>1, <3>2, ZenonT(40) DEF Approaches
    <3> QED BY <2>3, <3>3, <3>4, Zenon DEF IterOK, Collecting
  <2> QED BY <1>1, <1>2, <2>2, <2>3, <2>4, <2>5, <2>6, ScanTo, Zenon
<1>8. CASE GetStep(r)
  <2>1. /\ it' = it /\ rpc[r] # "idle" /\ rpc'[r] # "idle" /\ rkey'[r] = rkey[r] /\ viaSnap'[r] = viaSnap[r]
        /\ snap'[r] = snap[r] /\ view'[r] = view[r]
    BY <1>8, Zenon DEF GetStep, SearchMemtable, SearchImmutable, SearchTables, Search, svars, ReadersOK
  <2>2. it'[r] = i /\ i.phase = "get"
    BY <1>1, <1>2, <2>1, Zenon DEF ScanOK
  <2> QED BY <1>1, <1>2, <2>1, <2>2, ScanTo, Zenon DEF ScanOK
<1>9. CASE Loaded(r)
  <2>1. /\ rpc[r] = "done" /\ rpc'[r] = "idle" /\ ~viaSnap'[r] /\ snap'[r] = snap[r] /\ view'[r] = view[r]
    BY <1>9, Zenon DEF Loaded, EndLookup, ReadersOK
  <2>2. i.phase = "get" /\ i.position + 1 \in DOMAIN i.keys /\ rkey[r] = k /\ viaSnap[r] /\ k \in Key
    BY <1>1, <1>2, <1>3, <2>1, Zenon DEF ScanOK
  <2>3. answer[r] = v[k] /\ v[k] \subseteq Op
    <3>1. rseq[r] \in snap[r] /\ answer[r] = Lookup(k, rseq[r])
      BY <2>1, <2>2, Zenon DEF SnapInv, SnapOK, Searched
    <3>2. v[k] = Lookup(k, rseq[r])
      BY <1>1, <2>2, <3>1, Zenon DEF SnapInv, SnapOK
    <3>3. v[k] \subseteq Op
      BY <1>1, <2>2, ViewKeys, Zenon
    <3> QED BY <3>1, <3>2, <3>3, Zenon
  <2>4. Lists(i, live) /\ Approaches(i, live)
    BY <1>4, <2>2, Zenon DEF Loading
  <2>5. CASE v[k] # {}
    <3>1. PICK j : j = [i EXCEPT !.phase = "ready", !.current = v[k]]
      BY Zenon
    <3>2. it'[r] = j
      BY <1>1, <1>2, <1>9, <2>3, <2>5, <3>1, Zenon DEF Loaded, Set
    <3>3. j \in Iterator /\ IterOK(j, v, live) /\ j.phase = "ready" /\ j.start = i.start /\ j.end = i.end
      <4>1. Shown(i, v[k], j)
        BY <3>1, Zenon DEF Shown
      <4>2. StandsAt(i, k) /\ i \in Iterator /\ HasEntry(v, k, v[k])
        BY <1>1, <1>2, <2>2, <2>3, <2>5, Zenon DEF StandsAt, HasEntry
      <4>3. Becomes(i, j, v, live, "ready")
        BY <2>4, <4>1, <4>2, LoadsEntry, Zenon
      <4> QED BY <4>3, Zenon DEF Becomes
    <3> QED BY <1>5, <2>1, <2>2, <3>2, <3>3, Zenon
  <2>6. CASE v[k] = {}
    <3>1. PICK j : j = [i EXCEPT !.phase = "load", !.position = @ + 1]
      BY Zenon
    <3>2. it'[r] = j
      BY <1>1, <1>2, <1>9, <2>3, <2>6, <3>1, Zenon DEF Loaded, Set
    <3>3. k \notin live
      BY <1>1, <2>6, Zenon DEF LiveKeys
    <3>4. j \in Iterator /\ IterOK(j, v, live) /\ j.phase = "load" /\ j.start = i.start /\ j.end = i.end
      <4>1. Skipped(i, j)
        BY <3>1, Zenon DEF Skipped
      <4>2. StandsAt(i, k) /\ i \in Iterator
        BY <1>1, <1>2, <2>2, Zenon DEF StandsAt
      <4>3. Becomes(i, j, v, live, "load")
        BY <2>4, <3>3, <4>1, <4>2, LoadsOn, Zenon
      <4> QED BY <4>3, Zenon DEF Becomes
    <3> QED BY <1>5, <2>1, <2>2, <3>2, <3>4, Zenon
  <2> QED BY <2>5, <2>6, Zenon
<1> QED BY <1>6, <1>7, <1>8, <1>9, Zenon

LEMMA ScanReader ==
    ASSUME SeqInv, ReadersOK, SnapInv, ScanInv, NEW r \in Readers, IteratorStep(r) PROVE ScanInv'
<1>1. /\ UNCHANGED vars /\ NoTables' /\ DOMAIN it' = Readers
      /\ \A u \in Readers \ {r} : ScanOK(u)'
      /\ \A k : (InMemtable(k)' <=> InMemtable(k)) /\ (InImmutable(k)' <=> InImmutable(k))
  BY ScanOthers, Zenon
<1>2. mode' = mode /\ ScanOK(r) /\ DOMAIN it = Readers
  BY <1>1, Zenon DEF vars, memory, ScanInv
<1>3. ASSUME it[r].phase \notin {"none", "get"}, UNCHANGED rvars,
             \E j \in Iterator :
                /\ it'[r] = j /\ j.phase \notin {"none", "get"}
                /\ j.start = it[r].start /\ j.end = it[r].end
                /\ IterOK(j, view[r], LiveKeys(it[r], view[r]))
      PROVE  ScanOK(r)'
  <2>1. rpc'[r] = "idle" /\ ~viaSnap'[r] /\ snap'[r] = snap[r] /\ view'[r] = view[r]
    BY <1>2, <1>3, Zenon DEF ScanOK, rvars, rlocals
  <2> QED BY <1>1, <1>2, <1>3, <2>1, ScanTo, Zenon
<1>4. CASE CollectMemtable(r) \/ CollectImmutable(r) \/ CollectTables(r)
  <2>1. it[r].phase \notin {"none", "get"} /\ UNCHANGED rvars
    BY <1>4, Zenon DEF CollectMemtable, CollectImmutable, CollectTables
  <2>2. ScanOK(r)'
    BY <1>3, <1>4, <2>1, ScanCollects, Zenon
  <2> QED BY <1>1, <2>2, Zenon DEF ScanInv
<1>5. CASE \/ NextKey(r) \/ Prev(r) \/ PrevNone(r) \/ Seek(r) \/ SeekFirst(r) \/ SeekLast(r)
           \/ SeekLastNone(r)
  <2>1. it[r].phase \notin {"none", "get"} /\ UNCHANGED rvars
    BY <1>5, Zenon DEF NextKey, Prev, PrevNone, Seek, SeekFirst, SeekLast, SeekLastNone, Move, Forget
  <2>2. ScanOK(r)'
    BY <1>3, <1>5, <2>1, ScanMoves, Zenon
  <2> QED BY <1>1, <2>2, Zenon DEF ScanInv
<1>6. CASE LoadNone(r) \/ LoadCurrent(r) \/ GetStep(r) \/ Loaded(r)
  <2>1. ScanOK(r)'
    BY <1>1, <1>2, <1>6, ScanLoads, Zenon
  <2> QED BY <1>1, <2>1, Zenon DEF ScanInv
<1>7. CASE NewIterator(r)
  BY <1>1, <1>7, ScanNew, Zenon DEF ScanInv
<1>8. CASE DropIterator(r)
  <2>1. it'[r] = NoIterator /\ snap'[r] = {} /\ rpc'[r] = "idle" /\ ~viaSnap'[r]
    BY <1>2, <1>8, Zenon DEF DropIterator, Set, rlocals, ReadersOK, ScanOK
  <2>2. ScanOK(r)'
    BY <2>1, IdleNext, Zenon
  <2> QED BY <1>1, <2>2, Zenon DEF ScanInv
<1> QED BY <1>4, <1>5, <1>6, <1>7, <1>8, Zenon DEF IteratorStep

(* To the readers of Reads, an iterator is a snapshot, taken while nobody  *)
(* writes, and the lookups through it.                                     *)
LEMMA ScanReads ==
    ASSUME ScanAlone, ReadersOK, ScanInv, NEW r \in Readers, IteratorStep(r)
    PROVE  \/ UNCHANGED <<vars, rvars>> \/ DropIterator(r)
           \/ ReaderStep(r) /\ (TakeSnapshot(r) => \A t \in Thread : call[t] \notin Writing)
<1>1. ScanOK(r)
  BY Zenon DEF ScanInv
<1>2. CASE NewIterator(r)
  <2>1. rpc[r] = "idle" /\ snap[r] = {} /\ \A t \in Thread : call[t] \notin Writing
    BY <1>1, <1>2, Zenon DEF NewIterator, ScanOK, Writing
  <2>2. TakeSnapshot(r)
    BY <1>2, <2>1, Zenon DEF NewIterator, TakeSnapshot
  <2> QED BY <2>1, <2>2, Zenon DEF ReaderStep
<1>3. ASSUME it[r].phase # "none" PROVE ~TakeSnapshot(r)
  BY <1>1, <1>3, Zenon DEF ScanOK, TakeSnapshot
<1>4. CASE LoadCurrent(r)
  <2>1. PICK s \in snap[r] : BeginLookup(r, it[r].keys[it[r].position + 1], s, TRUE)
    BY <1>4, Zenon DEF LoadCurrent
  <2>2. it[r].keys[it[r].position + 1] \in Key
    <3>1. it[r] \in Iterator /\ it[r].position < Len(it[r].keys)
      BY <1>1, <1>4, Zenon DEF ScanOK, LoadCurrent
    <3>2. /\ it[r].position \in Nat /\ Len(it[r].keys) \in Nat
          /\ \A n \in 1 .. Len(it[r].keys) : it[r].keys[n] \in Key
      BY <3>1, Fields, Zenon
    <3>3. it[r].position + 1 \in 1 .. Len(it[r].keys)
      BY <3>1, <3>2, SMTT(30)
    <3> QED BY <3>2, <3>3, Zenon
  <2>3. SnapshotGet(r)
    BY <2>1, <2>2, Zenon DEF SnapshotGet
  <2> QED BY <1>3, <1>4, <2>3, Zenon DEF ReaderStep, LoadCurrent
<1>5. CASE GetStep(r) \/ Loaded(r)
  <2>1. rpc[r] # "idle" /\ ReaderStep(r)
    BY <1>5, Zenon DEF GetStep, Loaded, ReaderStep, SearchMemtable, SearchImmutable, SearchTables,
       Search, EndLookup
  <2> QED BY <1>1, <1>3, <2>1, Zenon DEF ScanOK
<1>6. CASE ~(NewIterator(r) \/ DropIterator(r) \/ LoadCurrent(r) \/ GetStep(r) \/ Loaded(r))
  BY <1>6, Zenon DEF IteratorStep, CollectMemtable, CollectImmutable, CollectTables, LoadNone,
     NextKey, Prev, PrevNone, Seek, SeekFirst, SeekLast, SeekLastNone, Move, Forget
<1> QED BY <1>2, <1>4, <1>5, <1>6, Zenon

LEMMA ScanDrop ==
    ASSUME ReadersOK, SnapInv, ScanInv, NEW r \in Readers, DropIterator(r) PROVE ReadersOK' /\ SnapInv'
<1>1. /\ UNCHANGED vars /\ UNCHANGED rlocals
      /\ snap' = [snap EXCEPT ![r] = {}] /\ view' = [view EXCEPT ![r] = NoLookup]
      /\ ~viaSnap[r]
  BY Zenon DEF DropIterator, ScanInv, ScanOK
<1>2. ReadersOK'
  BY <1>1, Zenon DEF ReadersOK, rlocals, vars, memory
<1>3. MemStays
  BY <1>1, Zenon DEF MemStays, vars, memory, locals
<1>4. \A u \in Readers \ {r} : ReaderStays(u)
  BY <1>1, Zenon DEF ReaderStays, rlocals, ReadersOK
<1>5. SnapOK(r)'
  BY <1>1, Zenon DEF SnapOK, rlocals, ReadersOK
<1>6. \A u \in Readers \ {r} : SnapOK(u)'
  BY <1>3, <1>4, SnapStays, Zenon DEF SnapInv
<1> QED BY <1>2, <1>5, <1>6, Zenon DEF SnapInv

LEMMA ScanStep ==
    ASSUME Flushers = {}, ScanAlone, SeqInv, SeqInv', CallInv, ReadersOK, SnapInv, ScanInv,
           [SNext]_<<vars, rvars, svars>>
    PROVE  ReadersOK' /\ SnapInv' /\ ScanInv'
<1>0. TypeInv /\ TypeInv'
  BY Zenon DEF SeqInv
<1>1. CASE UNCHANGED <<vars, rvars, svars>>
  <2>1. MemStays /\ \A r \in Readers : ReaderStays(r)
    BY <1>1, Zenon DEF MemStays, ReaderStays, vars, memory, locals, rvars, rlocals
  <2>2. SnapInv'
    BY <2>1, SnapStays, Zenon DEF SnapInv
  <2>3. ReadersOK'
    BY <1>1, Zenon DEF ReadersOK, vars, memory, rvars, rlocals
  <2>4. /\ it' = it /\ mode' = mode /\ NoTables'
        /\ \A k : (InMemtable(k)' <=> InMemtable(k)) /\ (InImmutable(k)' <=> InImmutable(k))
    BY <1>1, Zenon DEF svars, vars, memory, disk, NoTables, InMemtable, InImmutable, ScanInv
  <2>5. \A r \in Readers : ScanOK(r) /\ (it[r].phase # "none" => mode' = "up")
    BY <2>4, Zenon DEF ScanInv, ScanOK
  <2>6. \A r \in Readers : ScanOK(r)'
    BY <2>1, <2>4, <2>5, ScanStays, Zenon
  <2> QED BY <2>2, <2>3, <2>4, <2>6, Zenon DEF ScanInv
<1>2. CASE SEngineStep
  <2>1. EngineStep
    BY <1>2, Zenon DEF SEngineStep
  <2> QED BY <1>0, <1>2, <2>1, EngineKeeps, SnapEngine, ScanEngine, Zenon
<1>3. ASSUME NEW r \in Readers, IteratorStep(r) PROVE ReadersOK' /\ SnapInv' /\ ScanInv'
  <2>1. ScanInv'
    BY <1>3, ScanReader, Zenon
  <2>2. CASE DropIterator(r)
    BY <2>1, <2>2, ScanDrop, Zenon
  <2>3. CASE ReaderStep(r) /\ (TakeSnapshot(r) => \A t \in Thread : call[t] \notin Writing)
    BY <1>0, <2>1, <2>3, ReaderKeeps, SnapReader, Zenon
  <2>4. CASE UNCHANGED <<vars, rvars>>
    <3>1. MemStays /\ \A u \in Readers : ReaderStays(u)
      BY <2>4, Zenon DEF MemStays, ReaderStays, vars, memory, locals, rvars, rlocals
    <3>2. ReadersOK'
      BY <2>4, Zenon DEF ReadersOK, vars, memory, rvars, rlocals
    <3> QED BY <2>1, <3>1, <3>2, SnapStays, Zenon DEF SnapInv
  <2> QED BY <1>3, <2>2, <2>3, <2>4, ScanReads, Zenon
<1> QED BY <1>1, <1>2, <1>3, Zenon DEF SNext

LEMMA ScanBegins == SInit => ReadersOK /\ SnapInv /\ ScanInv
<1> SUFFICES ASSUME SInit PROVE ReadersOK /\ SnapInv /\ ScanInv
  BY Zenon
<1>1. ReadersOK /\ SnapInv
  <2>1. RInit
    BY Zenon DEF SInit
  <2> QED BY <2>1, ReadersInit, Zenon DEF RInit, SnapInv, SnapOK
<1>2. NoTables
  <2>1. DOMAIN <<>> = {}
    OBVIOUS
  <2> QED BY <2>1, Zenon DEF SInit, RInit, Init, NoTables
<1>3. \A r \in Readers : ScanOK(r)
  BY IdleIterator, Zenon DEF SInit, RInit
<1> QED BY <1>1, <1>2, <1>3, Zenon DEF SInit, ScanInv

LEMMA ScanBelow == SSpec => Spec
<1>1. SInit => Init
  BY Zenon DEF SInit, RInit
<1>2. [SNext]_<<vars, rvars, svars>> => [Next]_vars
  <2>1. ASSUME NEW r \in Readers, IteratorStep(r) PROVE UNCHANGED vars
    BY <2>1, Zenon DEF IteratorStep, NewIterator, CollectMemtable, CollectImmutable, CollectTables,
       LoadNone, LoadCurrent, BeginLookup, GetStep, SearchMemtable, SearchImmutable, SearchTables,
       Search, Loaded, EndLookup, NextKey, Prev, PrevNone, Seek, SeekFirst, SeekLast, SeekLastNone,
       Move, Forget, DropIterator
  <2> QED BY <2>1, Zenon DEF SNext, SEngineStep, EngineStep
<1> QED BY <1>1, <1>2, PTL DEF SSpec, Spec

LEMMA ScanInvariant ==
    ASSUME Flushers = {}, ScanAlone PROVE SSpec => [](SeqInv /\ SnapInv /\ ScanInv)
<1>1. SeqInv /\ SeqInv' /\ CallInv /\ ReadersOK /\ SnapInv /\ ScanInv /\ [SNext]_<<vars, rvars, svars>>
          => ReadersOK' /\ SnapInv' /\ ScanInv'
  BY ScanStep, Zenon
<1> QED BY <1>1, ScanBegins, ScanBelow, SeqInvariant, CallInvariant, PTL DEF SSpec

LEMMA MinIs ==
    ASSUME NEW T, T \subseteq Nat, NEW k \in T, \A m \in T : k <= m PROVE Min(T) = k
<1>1. \A x \in T : (\A y \in T : x <= y) => x = k
  OBVIOUS
<1> QED BY <1>1, Zenon DEF Min

(* A move of an iterator forwards, and its creation, stop at the first     *)
(* entry ahead in its range, with the value it had when the iterator was   *)
(* created, and nowhere when there is none (iterator.rs:185, 200): for any *)
(* keys, ranges and moves, and any number of iterators, writers, kinds of  *)
(* operation, batches, crashes, sessions and I/O errors, if no call was in *)
(* progress when it was created, and nothing is flushed.                   *)
THEOREM ScansAreExact == Flushers = {} /\ ScanAlone => (SSpec => []ForwardExact)
<1> SUFFICES ASSUME Flushers = {}, ScanAlone PROVE SSpec => []ForwardExact
  BY Zenon
<1>1. ASSUME SeqInv, SnapInv, ScanInv PROVE ForwardExact
  <2> SUFFICES ASSUME NEW r \in Readers, it[r].phase = "ready", it[r].move \in {"seek", "next"}
               PROVE  LET ahead == {k \in Live(r) : k > it[r].goal \/ (k = it[r].goal /\ it[r].move = "seek")}
                      IN  it[r].current = IF ahead = {} THEN {} ELSE view[r][Min(ahead)]
    BY Zenon DEF ForwardExact
  <2>1. PICK i, v, live, ahead :
           /\ i = it[r] /\ v = view[r] /\ live = LiveKeys(i, v)
           /\ ahead = {k \in Live(r) : k > it[r].goal \/ (k = it[r].goal /\ it[r].move = "seek")}
    BY Zenon
  <2>2. \A k : k \in ahead <=> k \in live /\ IsAhead(i, k)
    BY <2>1, Zenon DEF Live, LiveKeys, IsAhead
  <2>3. Arrives(i, v, live)
    BY <1>1, <2>1, Zenon DEF ScanInv, ScanOK, IterOK
  <2>4. CASE i.current = {}
    <3>1. \A m \in live : ~IsAhead(i, m)
      BY <2>1, <2>3, <2>4, Zenon DEF Arrives
    <3>2. ahead = {}
      BY <2>2, <3>1, Zenon
    <3> QED BY <2>1, <2>4, <3>2, Zenon
  <2>5. CASE i.current # {}
    <3>1. PICK k : k = i.keys[i.position + 1]
      BY Zenon
    <3>2. k \in live
      BY <1>1, <2>1, <2>5, <3>1, EntryKey, Zenon
    <3>3. i.current = v[k] /\ IsAhead(i, k) /\ \A m \in live : IsAhead(i, m) => k <= m
      BY <2>1, <2>3, <2>5, <3>1, Zenon DEF Arrives
    <3>4. k \in ahead /\ \A m \in ahead : k <= m
      BY <2>2, <3>2, <3>3, Zenon
    <3>5. ahead \subseteq Nat
      <4>1. Key \subseteq Nat
        BY ScansAssumption
      <4> QED BY <2>1, <2>2, <4>1, Zenon DEF LiveKeys
    <3>6. Min(ahead) = k
      BY <3>4, <3>5, MinIs, Zenon
    <3> QED BY <2>1, <3>3, <3>4, <3>6, Zenon
  <2> QED BY <2>4, <2>5, Zenon
<1> QED BY <1>1, ScanInvariant, PTL

(* prev never moves an iterator forwards (iterator.rs:191), although       *)
(* load_current skips forwards, under the same conditions.                 *)
THEOREM PrevGoesBack == Flushers = {} /\ ScanAlone => (SSpec => []PrevNotAfter)
<1> SUFFICES ASSUME Flushers = {}, ScanAlone PROVE SSpec => []PrevNotAfter
  BY Zenon
<1>1. ASSUME SeqInv, SnapInv, ScanInv PROVE PrevNotAfter
  <2> SUFFICES ASSUME NEW r \in Readers, it[r].phase = "ready", it[r].move = "prev",
                      NEW o \in it[r].current
               PROVE  o.key <= it[r].goal
    BY Zenon DEF PrevNotAfter
  <2>1. PICK i, v, live, k : i = it[r] /\ v = view[r] /\ live = LiveKeys(i, v) /\ k = i.keys[i.position + 1]
    BY Zenon
  <2>2. Arrives(i, v, live)
    BY <1>1, <2>1, Zenon DEF ScanInv, ScanOK, IterOK
  <2>3. i.current # {}
    BY <2>1, Zenon
  <2>4. i.current = v[k] /\ k <= i.goal
    BY <2>1, <2>2, <2>3, Zenon DEF Arrives
  <2>5. k \in Key
    BY <1>1, <2>1, <2>3, EntryKey, Zenon DEF LiveKeys
  <2>6. o.key = k
    BY <1>1, <2>1, <2>4, <2>5, ViewKeys, Zenon
  <2> QED BY <2>1, <2>4, <2>6, Zenon
<1> QED BY <1>1, ScanInvariant, PTL
=============================================================================
