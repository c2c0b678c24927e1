----------------------------- MODULE ReadProofs ------------------------------
(***************************************************************************)
(* Lookups beside writers, for every number of readers and writers and for *)
(* every batch, as long as nothing is flushed: a get takes one lock after  *)
(* the other, and MemTables are frozen in between.                         *)
(***************************************************************************)
EXTENDS Reads, EngineProofs

RSteps == {"idle", "memtable", "immutable", "tables", "done"}

(* The key of a reader that has not looked anything up yet.                *)
AnyKey == CHOOSE k \in Key : TRUE

(* The readers, and that none is at work without a DB object.              *)
ReadersOK ==
    /\ rpc \in [Readers -> RSteps] /\ rkey \in [Readers -> Key \cup {AnyKey}]
    /\ rseq \in [Readers -> Nat] /\ viaSnap \in [Readers -> BOOLEAN]
    /\ floor \in [Readers -> SUBSET Nat] /\ snap \in [Readers -> SUBSET Nat]
    /\ DOMAIN answer = Readers /\ DOMAIN view = Readers
    /\ mode = "down" => \A r \in Readers : rpc[r] = "idle" /\ snap[r] = {} /\ ~viaSnap[r]

(* The engine does not know of the readers.                                *)
LEMMA EngineBelow == RSpec => Spec
<1>1. RInit => Init
  BY Zenon DEF RInit
<1>2. [RNext]_<<vars, rvars>> => [Next]_vars
  <2>1. ASSUME NEW r \in Readers, ReaderStep(r) PROVE UNCHANGED vars
    BY <2>1, Zenon DEF ReaderStep, Get, SnapshotGet, BeginLookup, TakeSnapshot, SearchMemtable,
       SearchImmutable, SearchTables, Search, EndLookup
  <2> QED BY <2>1, Zenon DEF RNext, EngineStep
<1> QED BY <1>1, <1>2, PTL DEF RSpec, Spec

LEMMA ReadersInit == RInit => ReadersOK
<1> SUFFICES ASSUME RInit PROVE ReadersOK
  BY Zenon
<1>1. 0 \in Nat
  OBVIOUS
<1> QED BY <1>1, Zenon DEF RInit, ReadersOK, RSteps, AnyKey

LEMMA ReaderKeeps ==
    ASSUME TypeInv, ReadersOK, NEW r \in Readers, ReaderStep(r) PROVE ReadersOK' /\ UNCHANGED vars
<1>0. sequence \in Nat /\ 0 \in Nat /\ acked \in SUBSET Nat
  BY DEF TypeInv, MemoryOK, GhostsOK
<1>1. CASE Get(r)
  <2>1. PICK k \in Key : BeginLookup(r, k, sequence, FALSE)
    BY <1>1, Zenon DEF Get
  <2> QED BY <1>0, <2>1, Zenon DEF BeginLookup, ReadersOK, RSteps, vars
<1>2. CASE SnapshotGet(r)
  <2>1. PICK k \in Key, s \in snap[r] : BeginLookup(r, k, s, TRUE)
    BY <1>2, Zenon DEF SnapshotGet
  <2>2. s \in Nat
    BY <2>1, Zenon DEF ReadersOK
  <2> QED BY <1>0, <2>1, <2>2, Zenon DEF BeginLookup, ReadersOK, RSteps, vars
<1>3. CASE TakeSnapshot(r)
  BY <1>0, <1>3, Zenon DEF TakeSnapshot, ReadersOK, rlocals, vars
<1>4. ASSUME NEW here, NEW found, NEW next \in RSteps, Search(r, here, found, next), here # "idle"
      PROVE  ReadersOK' /\ UNCHANGED vars
  BY <1>4, Zenon DEF Search, ReadersOK, RSteps, vars
<1>5. CASE SearchMemtable(r) \/ SearchImmutable(r) \/ SearchTables(r)
  BY <1>4, <1>5, Zenon DEF SearchMemtable, SearchImmutable, SearchTables, RSteps
<1>6. CASE EndLookup(r)
  BY <1>0, <1>6, Zenon DEF EndLookup, ReadersOK, RSteps, vars
<1> QED BY <1>1, <1>2, <1>3, <1>5, <1>6, Zenon DEF ReaderStep

LEMMA EngineKeeps == ASSUME TypeInv', ReadersOK, EngineStep PROVE ReadersOK'
<1>0. 0 \in Nat
  OBVIOUS
<1>1. CASE mode' = "down"
  <2>1. /\ rpc' = [r \in Readers |-> "idle"] /\ rseq' = [r \in Readers |-> 0]
        /\ viaSnap' = [r \in Readers |-> FALSE] /\ floor' = [r \in Readers |-> {}]
        /\ answer' = [r \in Readers |-> {}] /\ snap' = [r \in Readers |-> {}]
        /\ view' = [r \in Readers |-> NoLookup] /\ rkey' = rkey
    BY <1>1, Zenon DEF EngineStep
  <2> QED BY <1>0, <2>1, Zenon DEF ReadersOK, RSteps
<1>2. CASE mode' # "down"
  BY <1>2, Zenon DEF EngineStep, ReadersOK, rvars, rlocals
<1> QED BY <1>1, <1>2, Zenon

LEMMA ReadersStep ==
    ASSUME TypeInv, TypeInv', ReadersOK, [RNext]_<<vars, rvars>> PROVE ReadersOK'
<1>1. CASE UNCHANGED <<vars, rvars>>
  BY <1>1, Zenon DEF ReadersOK, vars, rvars, rlocals
<1> QED BY <1>1, ReaderKeeps, EngineKeeps, Zenon DEF RNext

(***************************************************************************)
(* What a step does to the MemTables while nothing is flushed.             *)
(***************************************************************************)
LEMMA NoFlushCall ==
    ASSUME Flushers = {}, CallInv, NEW t \in Thread
    PROVE  /\ call[t] \notin Flushes
           /\ pc[t] \notin {"take", "closing"} \cup Holding \cup RotateSteps \cup CompactSteps
<1>1. call[t] \notin Flushes
  BY Zenon DEF CallInv
<1> QED BY <1>1, Zenon DEF CallInv, CallsMatch, Flushes

LEMMA ThreadMoves ==
    ASSUME Flushers = {}, TypeInv, CallInv, DownEmpty, NEW t \in Thread, ThreadNext(t)
    PROVE  /\ mode = "up" /\ UNCHANGED <<mode, levels>>
           /\ \/ Put(t) \/ Delete(t) \/ Write(t) \/ Apply(t) \/ Freeze(t)
              \/ AppendLog(t) \/ SyncLog(t) \/ CheckSize(t) \/ Fail(t)
<1>1. ~(Flush(t) \/ Close(t) \/ Drop(t) \/ Compact(t))
  BY Zenon DEF Flush, Close, Drop, BeginFlush, Compact, MayFlush
<1>2. ~(FlushTake(t) \/ FlushCreate(t) \/ FlushBuild(t) \/ FlushInstall(t) \/ CloseSync(t))
  BY NoFlushCall, Zenon DEF FlushTake, FlushCreate, FlushBuild, FlushInstall, CloseSync, Holding
<1>3. ~(RotateOpen(t) \/ RotateSwap(t) \/ RotateRemove(t))
  BY NoFlushCall, Zenon DEF RotateOpen, RotateSwap, RotateRemove, RotateSteps
<1>4. ~(CompactPick(t) \/ CompactCreate(t) \/ CompactMerge(t) \/ CompactInstall(t) \/ CompactDelete(t))
  BY NoFlushCall, Zenon DEF CompactPick, CompactCreate, CompactMerge, CompactInstall, CompactDelete,
     CompactSteps
<1>5. \/ Put(t) \/ Delete(t) \/ Write(t) \/ Apply(t) \/ Freeze(t)
      \/ AppendLog(t) \/ SyncLog(t) \/ CheckSize(t) \/ Fail(t)
  BY <1>1, <1>2, <1>3, <1>4, Zenon DEF ThreadNext
<1>6. UNCHANGED <<mode, levels>>
  BY <1>5, Zenon DEF Put, Delete, Write, BeginWrite, Apply, Freeze, AppendLog, SyncLog, CheckSize,
     Fail, memory
<1> QED BY <1>5, <1>6, ThreadUp, Zenon

(* A version with a number above s does not change what is found below s.  *)
SameBelow(new, old, s) == \A k : MemGet(new, k, s) = MemGet(old, k, s)

LEMMA NewerUnseen ==
    ASSUME NEW mem, NEW e, NEW s, ~(e.seq <= s) PROVE SameBelow(mem \cup {e}, mem, s)
<1>1. \A k : Newest(mem \cup {e}, k, s) = Newest(mem, k, s)
  BY Zenon DEF Newest
<1> QED BY <1>1, Zenon DEF MemGet, SameBelow

LEMMA EmptyMiss == \A k, s : MemGet({}, k, s) = {}
BY Zenon DEF MemGet, Newest

(* The immutable list is searched from the back: a MemTable added there is *)
(* asked first.                                                            *)
AskedFirst(imms, mem, k, s) ==
    /\ MemGet(mem, k, s) # {} => ImmutableGet(Append(imms, mem), k, s) = MemGet(mem, k, s)
    /\ MemGet(mem, k, s) = {} =>
          ImmutableGet(Append(imms, mem), k, s) = ImmutableGet(imms, k, s)

LEMMA ImmutableAppend ==
    ASSUME NEW imms \in Seq(SUBSET Version), NEW mem \in SUBSET Version, NEW k, NEW s
    PROVE  AskedFirst(imms, mem, k, s)
<1> DEFINE n == Len(imms)
           all == Append(imms, mem)
           hits == {i \in DOMAIN imms : MemGet(imms[i], k, s) # {}}
           allHits == {i \in DOMAIN all : MemGet(all[i], k, s) # {}}
<1>1. /\ n \in Nat /\ DOMAIN imms = 1 .. n /\ DOMAIN all = 1 .. n + 1
      /\ all[n + 1] = mem /\ \A i \in 1 .. n : all[i] = imms[i]
  OBVIOUS
<1>2. /\ \A i : i \in 1 .. n + 1 <=> i \in 1 .. n \/ i = n + 1
      /\ n + 1 \notin 1 .. n /\ \A i \in 1 .. n : i <= n + 1 /\ ~(n + 1 <= i)
      /\ n + 1 <= n + 1
  BY <1>1
<1> HIDE DEF n, all
<1>3. CASE MemGet(mem, k, s) # {}
  <2>1. n + 1 \in allHits
    BY <1>1, <1>2, <1>3, Zenon
  <2>2. {j \in allHits : \A i \in allHits : i <= j} = {n + 1}
    BY <1>1, <1>2, <2>1, Zenon
  <2>3. ImmutableGet(all, k, s) = UNION {MemGet(all[i], k, s) : i \in {n + 1}}
    BY <2>2, Zenon DEF ImmutableGet
  <2> QED BY <1>1, <1>3, <2>3, Zenon DEF all, AskedFirst
<1>4. CASE MemGet(mem, k, s) = {}
  <2>1. allHits = hits
    <3>1. ASSUME NEW i \in allHits PROVE i \in hits
      <4>1. i # n + 1
        BY <1>1, <1>4, Zenon
      <4> QED BY <1>1, <1>2, <4>1, Zenon
    <3>2. hits \subseteq allHits
      BY <1>1, <1>2, Zenon
    <3> QED BY <3>1, <3>2, Zenon
  <2>2. \A i \in hits : all[i] = imms[i]
    BY <1>1, Zenon
  <2>3. ImmutableGet(all, k, s) = ImmutableGet(imms, k, s)
    BY <2>1, <2>2, Zenon DEF ImmutableGet
  <2> QED BY <1>4, <2>3, Zenon DEF all, AskedFirst
<1> QED BY <1>3, <1>4, Zenon

(* Freezing the MemTable changes no lookup.                                *)
LEMMA FreezeLookup ==
    ASSUME TypeInv, immutable' = Append(immutable, memtable), memtable' = {}, levels' = levels
    PROVE  \A k, s : Lookup(k, s)' = Lookup(k, s)
<1> SUFFICES ASSUME NEW k, NEW s PROVE Lookup(k, s)' = Lookup(k, s)
  BY Zenon
<1>2. MemGet(memtable', k, s) = {}
  BY EmptyMiss, Zenon
<1>3. /\ MemGet(memtable, k, s) # {} => ImmutableGet(immutable', k, s) = MemGet(memtable, k, s)
      /\ MemGet(memtable, k, s) = {} => ImmutableGet(immutable', k, s) = ImmutableGet(immutable, k, s)
  <2>1. AskedFirst(immutable, memtable, k, s)
    <3>1. immutable \in Seq(SUBSET Version) /\ memtable \in SUBSET Version
      BY Zenon DEF TypeInv, MemoryOK
    <3> QED BY <3>1, ImmutableAppend, Zenon
  <2> QED BY <2>1, Zenon DEF AskedFirst
<1> QED BY <1>2, <1>3, Zenon DEF Lookup

(***************************************************************************)
(* Snapshots.                                                              *)
(***************************************************************************)

(* Whatever is still to be inserted has a number above s.                  *)
Ahead(s) ==
    /\ s <= sequence
    /\ \A t \in Thread : pc[t] \in PendingSteps => s < base[t] + applied[t]

(* Where a lookup of key k at number s is, nothing was found before it.    *)
Searched(r, k, s) ==
    /\ rpc[r] \in {"immutable", "tables"} => MemGet(memtable, k, s) = {}
    /\ rpc[r] = "tables" => ImmutableGet(immutable, k, s) = {}
    /\ rpc[r] = "done" => answer[r] = Lookup(k, s)

SnapOK(r) ==
    /\ \A s \in snap[r] : Ahead(s) /\ \A k \in Key : view[r][k] = Lookup(k, s)
    /\ viaSnap[r] => /\ rkey[r] \in Key /\ rseq[r] \in snap[r]
                     /\ Searched(r, rkey[r], rseq[r])

SnapInv == \A r \in Readers : SnapOK(r)

LEMMA AheadCalm ==
    ASSUME Calm, NEW s, Ahead(s) PROVE Ahead(s)'
BY Zenon DEF Ahead, Calm

LEMMA AheadStep ==
    ASSUME Flushers = {}, SeqInv, TypeInv', CallInv, NEW t \in Thread, ThreadNext(t),
           NEW s \in Nat, Ahead(s)
    PROVE  Ahead(s)'
<1>0. /\ TypeInv /\ DownEmpty /\ sequence \in Nat
      /\ \A u \in Thread : base[u] \in Nat /\ applied[u] \in Nat
  BY SeqFacts, Zenon DEF SeqInv
<1>1. CASE Put(t) \/ Delete(t) \/ Write(t)
  <2>1. PICK c, items : Len(items) \in Nat /\ BeginWrite(t, c, items)
    BY <1>1, BeginsWrite, Zenon
  <2>2. /\ sequence' = sequence + Len(items) /\ base'[t] = sequence + 1 /\ applied' = applied
        /\ \A u \in Thread \ {t} : base'[u] = base[u] /\ pc'[u] = pc[u]
    BY <1>0, <2>1, Zenon DEF BeginWrite, Goto, TypeInv, LocalsOK
  <2>3. s <= sequence
    BY Zenon DEF Ahead
  <2>4. s <= sequence' /\ s < base'[t] + applied'[t]
    BY <1>0, <2>1, <2>2, <2>3
  <2> QED BY <2>2, <2>4, Zenon DEF Ahead
<1>2. CASE Apply(t)
  <2>1. /\ sequence' = sequence /\ pc[t] = "apply"
        /\ \A u \in Thread \ {t} : base'[u] = base[u] /\ pc'[u] = pc[u] /\ applied'[u] = applied[u]
        /\ pc'[t] \in PendingSteps => base'[t] = base[t] /\ applied'[t] = applied[t] + 1
    <3>1. CASE Return(t, Ids(batch[t]))
      BY <1>0, <1>2, <3>1, Zenon DEF Apply, Return, Goto, TypeInv, LocalsOK, PendingSteps
    <3>2. CASE ~Return(t, Ids(batch[t]))
      BY <1>0, <1>2, <3>2, Zenon DEF Apply, Goto, TypeInv, LocalsOK
    <3> QED BY <3>1, <3>2, Zenon
  <2>2. s < base[t] + applied[t]
    BY <2>1, Zenon DEF Ahead, PendingSteps
  <2>3. s < base[t] + (applied[t] + 1)
    BY <1>0, <2>2
  <2> QED BY <2>1, <2>3, Zenon DEF Ahead
<1>3. CASE Freeze(t)
  <2>1. Return(t, Ids(batch[t])) /\ sequence' = sequence
    BY <1>3, NoFlushCall, Zenon DEF Freeze, Flushes
  <2> QED BY <1>0, <2>1, Zenon DEF Ahead, Return, Goto, TypeInv, LocalsOK, PendingSteps
<1>4. CASE AppendLog(t) \/ SyncLog(t) \/ CheckSize(t) \/ Fail(t)
  BY <1>0, <1>4, CalmSteps, AheadCalm, Zenon
<1> QED BY <1>0, <1>1, <1>2, <1>3, <1>4, ThreadMoves, Zenon

(* A step of a thread changes no lookup at a number below the pending ones.*)
LEMMA LookupKept ==
    ASSUME Flushers = {}, SeqInv, CallInv, NEW t \in Thread, ThreadNext(t),
           NEW s \in Nat, Ahead(s), NEW k
    PROVE  /\ Lookup(k, s)' = Lookup(k, s)
           /\ MemGet(memtable, k, s) = {} =>
                 /\ MemGet(memtable', k, s) = {}
                 /\ ImmutableGet(immutable, k, s) = {} => ImmutableGet(immutable', k, s) = {}
<1>0. /\ TypeInv /\ DownEmpty /\ sequence \in Nat /\ levels' = levels
      /\ \A u \in Thread : base[u] \in Nat /\ applied[u] \in Nat
  BY SeqFacts, ThreadMoves, Zenon DEF SeqInv
<1>1. CASE UNCHANGED <<memtable, immutable>>
  BY <1>0, <1>1, Zenon DEF Lookup
<1>2. CASE Apply(t)
  <2>1. memtable' = memtable \cup {Entry(t)} /\ immutable' = immutable /\ pc[t] = "apply"
    BY <1>2, Zenon DEF Apply, Entry
  <2>2. ~(Entry(t).seq <= s)
    <3>1. s < base[t] + applied[t] /\ Entry(t).seq = base[t] + applied[t]
      BY <2>1, Zenon DEF Ahead, PendingSteps, Entry
    <3> QED BY <1>0, <3>1
  <2>3. MemGet(memtable', k, s) = MemGet(memtable, k, s)
    <3>1. SameBelow(memtable \cup {Entry(t)}, memtable, s)
      BY <2>2, NewerUnseen, Zenon
    <3> QED BY <2>1, <3>1, Zenon DEF SameBelow
  <2> QED BY <1>0, <2>1, <2>3, Zenon DEF Lookup
<1>3. CASE Freeze(t)
  <2>1. immutable' = Append(immutable, memtable) /\ memtable' = {}
    BY <1>3, Zenon DEF Freeze
  <2>2. AskedFirst(immutable, memtable, k, s)
    BY <1>0, ImmutableAppend, Zenon DEF TypeInv, MemoryOK
  <2> QED BY <1>0, <2>1, <2>2, FreezeLookup, EmptyMiss, Zenon DEF AskedFirst
<1>4. CASE Put(t) \/ Delete(t) \/ Write(t)
  <2>1. UNCHANGED <<memtable, immutable>>
    BY <1>4, Zenon DEF Put, Delete, Write, BeginWrite
  <2> QED BY <1>1, <2>1, Zenon
<1>5. CASE AppendLog(t) \/ SyncLog(t) \/ CheckSize(t) \/ Fail(t)
  BY <1>0, <1>1, <1>5, CalmSteps, Zenon DEF Calm
<1> QED BY <1>0, <1>2, <1>3, <1>4, <1>5, ThreadMoves, Zenon

(* What SnapOK says of reader r hangs on these.                            *)
MemStays == UNCHANGED <<sequence, memtable, immutable, levels, pc, base, applied>>
ReaderStays(r) ==
    /\ rpc'[r] = rpc[r] /\ rkey'[r] = rkey[r] /\ rseq'[r] = rseq[r] /\ viaSnap'[r] = viaSnap[r]
    /\ answer'[r] = answer[r] /\ floor'[r] = floor[r] /\ snap'[r] = snap[r] /\ view'[r] = view[r]

LEMMA SnapStays ==
    ASSUME NEW r \in Readers, SnapOK(r), MemStays, ReaderStays(r) PROVE SnapOK(r)'
BY Zenon DEF SnapOK, Ahead, Searched, Lookup, MemStays, ReaderStays

(* While r moves, the other readers and the engine do not.                 *)
LEMMA OthersStay ==
    ASSUME ReadersOK, NEW r \in Readers, ReaderStep(r)
    PROVE  MemStays /\ \A u \in Readers \ {r} : ReaderStays(u)
<1>1. MemStays
  BY Zenon DEF ReaderStep, Get, SnapshotGet, BeginLookup, TakeSnapshot, SearchMemtable,
     SearchImmutable, SearchTables, Search, EndLookup, vars, memory, locals, MemStays
<1> USE DEF ReadersOK, ReaderStays
<1>2. ASSUME NEW u \in Readers \ {r}, Get(r) \/ SnapshotGet(r) PROVE ReaderStays(u)
  BY <1>2, ZenonT(40) DEF Get, SnapshotGet, BeginLookup
<1>3. ASSUME NEW u \in Readers \ {r}, TakeSnapshot(r) PROVE ReaderStays(u)
  BY <1>3, Zenon DEF TakeSnapshot, rlocals
<1>4. ASSUME NEW u \in Readers \ {r}, SearchMemtable(r) \/ SearchImmutable(r) \/ SearchTables(r)
      PROVE  ReaderStays(u)
  BY <1>4, Zenon DEF SearchMemtable, SearchImmutable, SearchTables, Search
<1>5. ASSUME NEW u \in Readers \ {r}, EndLookup(r) PROVE ReaderStays(u)
  BY <1>5, Zenon DEF EndLookup
<1> QED BY <1>1, <1>2, <1>3, <1>4, <1>5, Zenon DEF ReaderStep

LEMMA SnapReader ==
    ASSUME TypeInv, CallInv, ReadersOK, SnapInv, NEW r \in Readers, ReaderStep(r),
           TakeSnapshot(r) => \A t \in Thread : call[t] \notin Writing
    PROVE  SnapInv'
<1>0. /\ SnapOK(r) /\ MemStays /\ \A u \in Readers \ {r} : SnapOK(u)'
      /\ \A k, s : Lookup(k, s)' = Lookup(k, s)
  <2>1. MemStays /\ \A u \in Readers \ {r} : ReaderStays(u)
    BY OthersStay, Zenon
  <2> QED BY <2>1, SnapStays, Zenon DEF SnapInv, Lookup, MemStays
<1>1. \A s : Ahead(s)' <=> Ahead(s)
  BY <1>0, Zenon DEF Ahead, MemStays
<1> USE DEF ReadersOK
<1>2. CASE Get(r) \/ EndLookup(r)
  <2>1. snap' = snap /\ view' = view /\ ~viaSnap'[r]
    BY <1>2, Zenon DEF Get, BeginLookup, EndLookup
  <2>2. SnapOK(r)'
    BY <1>0, <1>1, <2>1, Zenon DEF SnapOK
  <2> QED BY <1>0, <2>2, Zenon DEF SnapInv
<1>3. CASE SnapshotGet(r)
  <2>1. /\ snap' = snap /\ view' = view /\ rpc'[r] = "memtable"
        /\ rkey'[r] \in Key /\ rseq'[r] \in snap[r]
    BY <1>3, Zenon DEF SnapshotGet, BeginLookup
  <2>2. SnapOK(r)'
    BY <1>0, <1>1, <2>1, Zenon DEF SnapOK, Searched
  <2> QED BY <1>0, <2>2, Zenon DEF SnapInv
<1>4. CASE TakeSnapshot(r)
  <2>1. /\ snap[r] = {} /\ snap'[r] = {sequence} /\ viaSnap' = viaSnap
        /\ view'[r] = [k \in Key |-> Lookup(k, sequence)]
        /\ \A t \in Thread : call[t] \notin Writing
    BY <1>4, Zenon DEF TakeSnapshot, rlocals
  <2>2. Ahead(sequence)
    <3>1. \A t \in Thread : pc[t] \notin PendingSteps
      BY <2>1, Zenon DEF CallInv, CallsMatch, PendingSteps
    <3>2. sequence <= sequence
      BY DEF TypeInv, MemoryOK
    <3> QED BY <3>1, <3>2, Zenon DEF Ahead
  <2>3. ~viaSnap[r]
    BY <1>0, <2>1, Zenon DEF SnapOK
  <2>4. SnapOK(r)'
    <3>1. \A s \in snap'[r] : Ahead(s)' /\ \A k \in Key : view'[r][k] = Lookup(k, s)'
      BY <1>0, <1>1, <2>1, <2>2, Zenon
    <3> QED BY <2>1, <2>3, <3>1, Zenon DEF SnapOK
  <2> QED BY <1>0, <2>4, Zenon DEF SnapInv
<1>5. ASSUME UNCHANGED <<rkey, rseq, viaSnap, snap, view>>, viaSnap[r] => Searched(r, rkey[r], rseq[r])'
      PROVE  SnapInv'
  <2>1. SnapOK(r)'
    BY <1>0, <1>1, <1>5, Zenon DEF SnapOK
  <2> QED BY <1>0, <2>1, Zenon DEF SnapInv
<1>6. CASE SearchMemtable(r) \/ SearchImmutable(r) \/ SearchTables(r)
  <2> DEFINE k == rkey[r]
             s == rseq[r]
  <2>0. /\ UNCHANGED <<rkey, rseq, viaSnap, snap, view>>
        /\ memtable' = memtable /\ immutable' = immutable
    BY <1>0, <1>6, Zenon DEF SearchMemtable, SearchImmutable, SearchTables, Search, MemStays
  <2> SUFFICES ASSUME viaSnap[r] PROVE Searched(r, k, s)'
    BY <1>5, <2>0, Zenon
  <2>1. Searched(r, k, s)
    BY <1>0, Zenon DEF SnapOK
  <2>2. CASE SearchMemtable(r)
    <3>1. /\ answer'[r] = MemGet(memtable, k, s)
          /\ rpc'[r] = IF MemGet(memtable, k, s) # {} THEN "done" ELSE "immutable"
      BY <2>2, Zenon DEF SearchMemtable, Search
    <3> QED BY <1>0, <2>0, <3>1, Zenon DEF Searched, Lookup
  <2>3. CASE SearchImmutable(r)
    <3>1. /\ answer'[r] = ImmutableGet(immutable, k, s) /\ rpc[r] = "immutable"
          /\ rpc'[r] = IF ImmutableGet(immutable, k, s) # {} THEN "done" ELSE "tables"
      BY <2>3, Zenon DEF SearchImmutable, Search
    <3> QED BY <1>0, <2>0, <2>1, <3>1, Zenon DEF Searched, Lookup
  <2>4. CASE SearchTables(r)
    <3>1. answer'[r] = LevelsGet(levels, k) /\ rpc[r] = "tables" /\ rpc'[r] = "done"
      BY <2>4, Zenon DEF SearchTables, Search
    <3> QED BY <1>0, <2>0, <2>1, <3>1, Zenon DEF Searched, Lookup
  <2> QED BY <1>6, <2>2, <2>3, <2>4, Zenon
<1> QED BY <1>2, <1>3, <1>4, <1>6, Zenon DEF ReaderStep

LEMMA SnapEngine ==
    ASSUME Flushers = {}, SeqInv, TypeInv', CallInv, ReadersOK, SnapInv, EngineStep
    PROVE  SnapInv'
<1>0. TypeInv /\ DownEmpty
  BY Zenon DEF SeqInv
<1>1. CASE mode' = "down"
  BY <1>1, Zenon DEF EngineStep, SnapInv, SnapOK
<1>2. CASE mode' # "down"
  <2>0. \A r \in Readers : ReaderStays(r)
    BY <1>2, Zenon DEF EngineStep, rvars, rlocals, ReaderStays
  <2>1. CASE Open
    <3>1. \A r \in Readers : snap'[r] = {} /\ ~viaSnap'[r]
      BY <2>0, <2>1, Zenon DEF Open, ReadersOK, ReaderStays
    <3> QED BY <3>1, Zenon DEF SnapInv, SnapOK
  <2>2. CASE Spill \/ Rest
    <3>1. MemStays
      BY <2>2, Zenon DEF Spill, Rest, vars, memory, locals, MemStays
    <3> QED BY <2>0, <3>1, SnapStays, Zenon DEF SnapInv
  <2>3. ASSUME NEW t \in Thread, ThreadNext(t) PROVE SnapInv'
    <3> SUFFICES ASSUME NEW r \in Readers PROVE SnapOK(r)'
      BY Zenon DEF SnapInv
    <3>1. SnapOK(r) /\ ReaderStays(r) /\ snap[r] \subseteq Nat
      BY <2>0, Zenon DEF SnapInv, ReadersOK
    <3>2. \A s \in snap[r] : Ahead(s)' /\ \A k \in Key : view'[r][k] = Lookup(k, s)'
      <4> SUFFICES ASSUME NEW s \in snap[r]
                   PROVE  Ahead(s)' /\ \A k \in Key : view'[r][k] = Lookup(k, s)'
        BY Zenon
      <4>1. s \in Nat /\ Ahead(s) /\ \A k \in Key : view[r][k] = Lookup(k, s)
        BY <3>1, Zenon DEF SnapOK
      <4>2. Ahead(s)'
        BY <2>3, <4>1, AheadStep, Zenon
      <4>3. \A k : Lookup(k, s)' = Lookup(k, s)
        BY <2>3, <4>1, LookupKept, Zenon
      <4> QED BY <3>1, <4>1, <4>2, <4>3, Zenon DEF ReaderStays
    <3>3. ASSUME viaSnap[r] PROVE Searched(r, rkey[r], rseq[r])'
      <4>0. PICK k, s : k = rkey[r] /\ s = rseq[r]
        BY Zenon
      <4>1. s \in Nat /\ Ahead(s) /\ Searched(r, k, s)
        BY <3>1, <3>3, <4>0, Zenon DEF SnapOK
      <4>2. /\ Lookup(k, s)' = Lookup(k, s)
            /\ MemGet(memtable, k, s) = {} =>
                  /\ MemGet(memtable', k, s) = {}
                  /\ ImmutableGet(immutable, k, s) = {} => ImmutableGet(immutable', k, s) = {}
        BY <2>3, <4>1, LookupKept, Zenon
      <4>3. rpc'[r] = rpc[r] /\ answer'[r] = answer[r] /\ rkey'[r] = k /\ rseq'[r] = s
        BY <3>1, <4>0, Zenon DEF ReaderStays
      <4> QED BY <4>1, <4>2, <4>3, Zenon DEF Searched
    <3> QED BY <3>1, <3>2, <3>3, Zenon DEF SnapOK, ReaderStays
  <2>4. ~Crash
    BY <1>2, Zenon DEF Crash, Vanish
  <2> QED BY <2>1, <2>2, <2>3, <2>4, Zenon DEF EngineStep, Next
<1> QED BY <1>1, <1>2, Zenon

LEMMA SnapStep ==
    ASSUME Flushers = {}, QuietSnapshots, SeqInv, TypeInv', CallInv, ReadersOK, SnapInv,
           [RNext]_<<vars, rvars>>
    PROVE  SnapInv'
<1>1. CASE UNCHANGED <<vars, rvars>>
  <2>1. MemStays /\ \A r \in Readers : ReaderStays(r)
    BY <1>1, Zenon DEF MemStays, ReaderStays, vars, memory, locals, rvars, rlocals
  <2> QED BY <2>1, SnapStays, Zenon DEF SnapInv
<1>2. \A r \in Readers : TakeSnapshot(r) => \A t \in Thread : call[t] \notin Writing
  BY Zenon DEF TakeSnapshot
<1> QED BY <1>1, <1>2, SnapReader, SnapEngine, Zenon DEF RNext, SeqInv

(* Snapshot::get returns what a get of the key returned when the snapshot  *)
(* was taken (lib.rs:543), whatever is written and frozen afterwards, for  *)
(* any number of readers and writers, kinds of operation, batches, crashes,*)
(* sessions and I/O errors: if no write was in progress when the snapshot  *)
(* was taken, and nothing is flushed.                                      *)
THEOREM SnapshotsAreStable ==
    Flushers = {} /\ QuietSnapshots => (RSpec => []SnapshotStable)
<1> SUFFICES ASSUME Flushers = {}, QuietSnapshots PROVE RSpec => []SnapshotStable
  BY Zenon
<1>1. RInit => ReadersOK /\ SnapInv
  <2>1. RInit => SnapInv
    BY Zenon DEF RInit, SnapInv, SnapOK
  <2> QED BY <2>1, ReadersInit, Zenon
<1>2. SeqInv /\ SeqInv' /\ CallInv /\ ReadersOK /\ SnapInv /\ [RNext]_<<vars, rvars>>
          => ReadersOK' /\ SnapInv'
  BY ReadersStep, SnapStep, Zenon DEF SeqInv
<1>3. ASSUME SnapInv PROVE SnapshotStable
  <2> SUFFICES ASSUME NEW r \in Readers, rpc[r] = "done", viaSnap[r]
               PROVE  answer[r] = view[r][rkey[r]]
    BY Zenon DEF SnapshotStable
  <2>1. rkey[r] \in Key /\ rseq[r] \in snap[r] /\ answer[r] = Lookup(rkey[r], rseq[r])
    BY <1>3, Zenon DEF SnapInv, SnapOK, Searched
  <2>2. view[r][rkey[r]] = Lookup(rkey[r], rseq[r])
    BY <1>3, <2>1, Zenon DEF SnapInv, SnapOK
  <2> QED BY <2>1, <2>2, Zenon
<1> QED BY <1>1, <1>2, <1>3, EngineBelow, SeqInvariant, CallInvariant, PTL DEF RSpec

(***************************************************************************)
(* Get in the first session, without deletes.                              *)
(***************************************************************************)

(* Operation i is in memory, or at least in an immutable MemTable.         *)
Has(mem, i) == \E v \in mem : v.op.id = i
InList(i) == \E n \in DOMAIN immutable : Has(immutable[n], i)
InMem(i) == Has(memtable, i) \/ InList(i)

(* No operation in the MemTable new had returned before one in old began.  *)
NotOlder(new, old) == \A v \in new, w \in old : v.op.id \notin hist[w.op.id].after

(* Every key with a version up to s has a newest one, and no tombstone.    *)
Answers(mem) ==
    /\ \A v \in mem : v.op.kind # "delete"
    /\ \A s \in Nat : \A v \in mem : v.seq <= s => Newest(mem, v.op.key, s) # {}

(* A search of the immutable list that finds nothing has missed nothing.   *)
ListAnswers ==
    \A k, s : ImmutableGet(immutable, k, s) = {} =>
        \A n \in DOMAIN immutable : MemGet(immutable[n], k, s) = {}

FirstSession ==
    /\ Numbered
    /\ \A i \in DOMAIN hist : Inserted(i) => InMem(i)
    /\ \A n \in DOMAIN immutable : NotOlder(memtable, immutable[n])
    /\ \A m, n \in DOMAIN immutable : n < m => NotOlder(immutable[m], immutable[n])
    /\ Answers(memtable) /\ ListAnswers /\ \A n \in DOMAIN immutable : Answers(immutable[n])
    /\ \A t \in Thread : \A j \in DOMAIN batch[t] : batch[t][j].kind # "delete"

(* A lookup that is under way, against the operations that had returned    *)
(* when it began: it has missed none.                                      *)
GetOK(r) ==
    ~viaSnap[r] =>
        /\ floor[r] \subseteq acked /\ \A i \in floor[r] : i <= rseq[r]
        /\ rpc[r] = "immutable" => \A i \in floor[r] : hist[i].op.key = rkey[r] => InList(i)
        /\ rpc[r] = "tables" => \A i \in floor[r] : hist[i].op.key # rkey[r]
        /\ rpc[r] = "done" => UpToDate(answer[r], rkey[r], floor[r])

GetInv ==
    /\ HistOK /\ BatchOK
    /\ opens = 0 => hist = <<>> /\ logs = <<>> /\ mode = "down"
    /\ opens <= 1 /\ (mode = "up" => opens = 1)
    /\ mode = "up" => FirstSession
    /\ \A r \in Readers : GetOK(r)

(* In the first session a version has the number of its operation.         *)
Placed(mem) == \A v \in mem : v.seq = v.op.id /\ v.op.id \in DOMAIN hist /\ hist[v.op.id].op = v.op

LEMMA AllPlaced ==
    ASSUME Numbered PROVE Placed(memtable) /\ \A n \in DOMAIN immutable : Placed(immutable[n])
BY InMemoryVersions, Zenon DEF Numbered, Placed

(* What one MemTable answers, against an operation i it holds.             *)
LEMMA OneMem ==
    ASSUME TypeInv, HistOK, NEW mem, Placed(mem), Answers(mem), NEW s \in Nat,
           NEW i \in DOMAIN hist, i <= s, Has(mem, i)
    PROVE  /\ MemGet(mem, hist[i].op.key, s) # {}
           /\ \A o \in MemGet(mem, hist[i].op.key, s) : o.id \notin hist[i].after
<1>0. i \in Nat /\ \A j \in DOMAIN hist : j \in Nat
  BY DEF TypeInv, GhostsOK
<1>1. PICK w \in mem : w.op.id = i
  BY Zenon DEF Has
<1>2. w.seq = i /\ w.op = hist[i].op
  BY <1>1, Zenon DEF Placed
<1>3. MemGet(mem, hist[i].op.key, s) # {}
  <2>1. Newest(mem, hist[i].op.key, s) # {}
    BY <1>1, <1>2, Zenon DEF Answers
  <2>2. PICK v : v \in Newest(mem, hist[i].op.key, s)
    BY <2>1, Zenon
  <2>3. v \in mem /\ v.op.kind # "delete"
    BY <2>2, Zenon DEF Newest, Answers
  <2>4. v.op \in MemGet(mem, hist[i].op.key, s)
    BY <2>2, <2>3, Zenon DEF MemGet
  <2> QED BY <2>4, Zenon
<1>4. ASSUME NEW o \in MemGet(mem, hist[i].op.key, s) PROVE o.id \notin hist[i].after
  <2>1. PICK v \in mem : /\ o = v.op
                         /\ \A u \in mem : u.op.key = hist[i].op.key /\ u.seq <= s => u.seq <= v.seq
    BY <1>4, Zenon DEF MemGet, Newest
  <2>2. i <= v.seq /\ v.seq = o.id /\ o.id \in DOMAIN hist
    BY <1>1, <1>2, <2>1, Zenon DEF Placed
  <2>3. o.id \in hist[i].after => o.id < i
    BY Zenon DEF HistOK
  <2> QED BY <1>0, <2>2, <2>3
<1> QED BY <1>3, <1>4, Zenon

(* A hit in the MemTable is fresh, whatever the older MemTables hold.      *)
LEMMA MemtableFresh ==
    ASSUME TypeInv, HistOK, FirstSession, NEW k, NEW s \in Nat, NEW ids, ids \subseteq acked,
           \A i \in ids : i <= s
    PROVE  /\ MemGet(memtable, k, s) # {} => UpToDate(MemGet(memtable, k, s), k, ids)
           /\ MemGet(memtable, k, s) = {} => \A i \in ids : hist[i].op.key = k => InList(i)
<1>0. /\ Placed(memtable) /\ Answers(memtable)
      /\ \A i \in ids : i \in DOMAIN hist /\ i <= s /\ InMem(i)
  BY AllPlaced, Zenon DEF FirstSession, HistOK, Inserted
<1>1. ASSUME NEW i \in ids, hist[i].op.key = k, NEW o \in MemGet(memtable, k, s)
      PROVE  Covers(o, i)
  <2>1. PICK v \in memtable : v.op = o /\ o.key = k
    BY <1>1, Zenon DEF MemGet, Newest
  <2>2. CASE Has(memtable, i)
    <3>1. \A p \in MemGet(memtable, hist[i].op.key, s) : p.id \notin hist[i].after
      BY <1>0, <2>2, OneMem, Zenon
    <3> QED BY <1>1, <2>1, <3>1, Zenon DEF Covers
  <2>3. CASE InList(i)
    <3>1. PICK n \in DOMAIN immutable : Has(immutable[n], i)
      BY <2>3, Zenon DEF InList
    <3>2. PICK w \in immutable[n] : w.op.id = i
      BY <3>1, Zenon DEF Has
    <3>3. v.op.id \notin hist[w.op.id].after
      BY <2>1, <3>1, <3>2, Zenon DEF FirstSession, NotOlder
    <3> QED BY <1>1, <2>1, <3>2, <3>3, Zenon DEF Covers
  <2> QED BY <1>0, <2>2, <2>3, Zenon DEF InMem
<1>2. ASSUME MemGet(memtable, k, s) = {}, NEW i \in ids, hist[i].op.key = k PROVE InList(i)
  <2>1. ~Has(memtable, i)
    BY <1>0, <1>2, OneMem, Zenon
  <2> QED BY <1>0, <1>2, <2>1, Zenon DEF InMem
<1> QED BY <1>1, <1>2, Zenon DEF UpToDate

(* A hit in the immutable list is fresh: it is the last hit, and what it   *)
(* stands before is older.                                                 *)
LEMMA ListFresh ==
    ASSUME TypeInv, HistOK, FirstSession, NEW k, NEW s \in Nat, NEW ids, ids \subseteq acked,
           \A i \in ids : i <= s, \A i \in ids : hist[i].op.key = k => InList(i)
    PROVE  /\ ImmutableGet(immutable, k, s) # {} => UpToDate(ImmutableGet(immutable, k, s), k, ids)
           /\ ImmutableGet(immutable, k, s) = {} => \A i \in ids : hist[i].op.key # k
<1>0. /\ \A n \in DOMAIN immutable : Placed(immutable[n]) /\ Answers(immutable[n]) /\ n \in Nat
      /\ \A i \in ids : i \in DOMAIN hist /\ i <= s
  <2>1. \A n \in DOMAIN immutable : n \in Nat
    BY DEF TypeInv, MemoryOK
  <2> QED BY <2>1, AllPlaced, Zenon DEF FirstSession, HistOK
<1>1. ASSUME NEW i \in ids, hist[i].op.key = k, NEW n \in DOMAIN immutable, Has(immutable[n], i)
      PROVE  MemGet(immutable[n], k, s) # {}
  <2>1. MemGet(immutable[n], hist[i].op.key, s) # {}
    BY <1>0, <1>1, OneMem, Zenon
  <2> QED BY <1>1, <2>1, Zenon
<1>2. ASSUME NEW i \in ids, hist[i].op.key = k, NEW o \in ImmutableGet(immutable, k, s)
      PROVE  Covers(o, i)
  <2>1. PICK m \in DOMAIN immutable :
            /\ o \in MemGet(immutable[m], k, s)
            /\ \A n \in DOMAIN immutable : MemGet(immutable[n], k, s) # {} => n <= m
    BY <1>2, Zenon DEF ImmutableGet
  <2>2. PICK v \in immutable[m] : v.op = o /\ o.key = k
    BY <2>1, Zenon DEF MemGet, Newest
  <2>3. PICK n \in DOMAIN immutable : Has(immutable[n], i)
    BY <1>2, Zenon DEF InList
  <2>4. n <= m
    BY <1>1, <1>2, <2>1, <2>3, Zenon
  <2>5. CASE n = m
    <3>1. \A p \in MemGet(immutable[m], hist[i].op.key, s) : p.id \notin hist[i].after
      BY <1>0, <2>1, <2>3, <2>5, OneMem, Zenon
    <3> QED BY <1>2, <2>1, <2>2, <3>1, Zenon DEF Covers
  <2>6. CASE n # m
    <3>1. n < m
      BY <1>0, <2>4, <2>6
    <3>2. PICK w \in immutable[n] : w.op.id = i
      BY <2>3, Zenon DEF Has
    <3>3. v.op.id \notin hist[w.op.id].after
      BY <2>2, <3>1, <3>2, Zenon DEF FirstSession, NotOlder
    <3> QED BY <1>2, <2>2, <3>2, <3>3, Zenon DEF Covers
  <2> QED BY <2>5, <2>6, Zenon
<1>3. ASSUME ImmutableGet(immutable, k, s) = {}, NEW i \in ids PROVE hist[i].op.key # k
  <2> SUFFICES ASSUME hist[i].op.key = k PROVE FALSE
    BY Zenon
  <2>1. PICK n \in DOMAIN immutable : Has(immutable[n], i)
    BY <1>3, Zenon DEF InList
  <2>2. MemGet(immutable[n], k, s) # {}
    BY <1>1, <1>3, <2>1, Zenon
  <2>3. ListAnswers
    BY Zenon DEF FirstSession
  <2> QED BY <1>3, <2>2, <2>3, Zenon DEF ListAnswers
<1> QED BY <1>2, <1>3, Zenon DEF UpToDate

(* The clients delete nothing.                                             *)
LEMMA NoDeletes ==
    ASSUME "delete" \notin Kinds, TypeInv, NEW t \in Thread, ThreadNext(t),
           \A u \in Thread : \A j \in DOMAIN batch[u] : batch[u][j].kind # "delete"
    PROVE  \A u \in Thread : \A j \in DOMAIN batch'[u] : batch'[u][j].kind # "delete"
<1>1. ASSUME NEW c, NEW n \in Nat, NEW items \in [1 .. n -> [key : Key, kind : Kinds]],
             BeginWrite(t, c, items)
      PROVE  \A u \in Thread : \A j \in DOMAIN batch'[u] : batch'[u][j].kind # "delete"
  <2>1. Len(items) = n /\ \A j \in 1 .. n : items[j].kind \in Kinds
    BY <1>1
  <2>2. batch' = [batch EXCEPT ![t] =
                     [j \in 1 .. Len(items) |->
                        [id |-> Len(hist) + j, key |-> items[j].key, kind |-> items[j].kind]]]
    BY <1>1, Zenon DEF BeginWrite
  <2>3. /\ \A u \in Thread \ {t} : batch'[u] = batch[u]
        /\ DOMAIN batch'[t] = 1 .. n
        /\ \A j \in 1 .. n : batch'[t][j].kind = items[j].kind
    BY <2>1, <2>2, Zenon DEF TypeInv, LocalsOK
  <2>4. \A j \in DOMAIN batch'[t] : batch'[t][j].kind # "delete"
    BY <2>1, <2>3
  <2>5. ASSUME NEW u \in Thread, u # t PROVE \A j \in DOMAIN batch'[u] : batch'[u][j].kind # "delete"
    BY <2>3, <2>5, ZenonT(40)
  <2> QED BY <2>4, <2>5, Zenon
<1>2. CASE Put(t)
  <2>1. PICK k \in Key, kind \in Kinds : BeginWrite(t, "write", <<[key |-> k, kind |-> kind]>>)
    BY <1>2, Zenon DEF Put
  <2>2. PICK items : items = <<[key |-> k, kind |-> kind]>>
    BY Zenon
  <2>3. PICK n \in Nat : items \in [1 .. n -> [key : Key, kind : Kinds]]
    <3>1. 1 \in Nat /\ items \in [1 .. 1 -> [key : Key, kind : Kinds]]
      BY <2>2
    <3> QED BY <3>1
  <2>4. BeginWrite(t, "write", items)
    BY <2>1, <2>2, Zenon
  <2> QED BY <1>1, <2>3, <2>4, Zenon
<1>3. CASE Write(t)
  <2>1. PICK n \in 1 .. MaxBatch : \E items \in [1 .. n -> [key : Key, kind : Kinds]] :
              BeginWrite(t, "write", items)
    BY <1>3, Zenon DEF Write
  <2>2. n \in Nat
    BY ConstantsAssumption
  <2> QED BY <1>1, <2>1, <2>2, Zenon
<1>4. CASE ~(Put(t) \/ Delete(t) \/ Write(t))
  <2>1. \A u \in Thread : batch'[u] = <<>> \/ batch'[u] = batch[u]
    BY <1>4, BatchesStay, Zenon
  <2>2. DOMAIN <<>> = {}
    OBVIOUS
  <2> QED BY <2>1, <2>2, Zenon
<1> QED BY <1>2, <1>3, <1>4, Zenon DEF Delete

LEMMA AckedGrows == ASSUME TypeInv, NEW t \in Thread, ThreadNext(t) PROVE acked \subseteq acked'
<1>1. CASE Put(t) \/ Delete(t) \/ Write(t)
  BY <1>1, Zenon DEF Put, Delete, Write, BeginWrite
<1>2. CASE Apply(t) \/ CheckSize(t) \/ Freeze(t)
  BY <1>2, Zenon DEF Apply, CheckSize, Freeze, Return
<1>3. CASE ~(Put(t) \/ Delete(t) \/ Write(t) \/ Apply(t) \/ CheckSize(t) \/ Freeze(t))
  BY <1>3, QuietSteps, Zenon DEF Quiet
<1> QED BY <1>1, <1>2, <1>3, Zenon

(* A MemTable that answers still does with one version more.               *)
LEMMA AnswersMore ==
    ASSUME NEW mem, NEW e, Answers(mem), e.op.kind # "delete", e.seq \in Nat,
           \A v \in mem : v.seq \in Nat
    PROVE  Answers(mem \cup {e})
<1> DEFINE all == mem \cup {e}
<1>1. ASSUME NEW s \in Nat, NEW v \in all, v.seq <= s PROVE Newest(all, v.op.key, s) # {}
  <2> DEFINE k == v.op.key
             Max(w) == /\ w \in all /\ w.op.key = k /\ w.seq <= s
                       /\ \A u \in all : u.op.key = k /\ u.seq <= s => u.seq <= w.seq
  <2> HIDE DEF k
  <2> SUFFICES \E w : Max(w)
    BY Zenon DEF Newest, k
  <2>1. CASE ~(e.op.key = k /\ e.seq <= s)
    <3>1. v \in mem
      BY <1>1, <2>1, Zenon DEF k
    <3>2. Newest(mem, k, s) # {}
      BY <1>1, <3>1, Zenon DEF Answers, k
    <3>3. PICK w \in mem : /\ w.op.key = k /\ w.seq <= s
                           /\ \A u \in mem : u.op.key = k /\ u.seq <= s => u.seq <= w.seq
      BY <3>2, Zenon DEF Newest
    <3> QED BY <2>1, <3>3, Zenon
  <2>2. CASE e.op.key = k /\ e.seq <= s /\ Newest(mem, k, s) = {}
    <3>1. \A u \in mem : u.op.key = k => ~(u.seq <= s)
      BY <1>1, <2>2, Zenon DEF Answers
    <3>2. e.seq <= e.seq
      OBVIOUS
    <3>3. Max(e)
      BY <2>2, <3>1, <3>2, Zenon
    <3> QED BY <3>3, Zenon
  <2>3. CASE e.op.key = k /\ e.seq <= s /\ Newest(mem, k, s) # {}
    <3>1. PICK w \in mem : /\ w.op.key = k /\ w.seq <= s
                           /\ \A u \in mem : u.op.key = k /\ u.seq <= s => u.seq <= w.seq
      BY <2>3, Zenon DEF Newest
    <3>2. w.seq \in Nat /\ e.seq \in Nat /\ \A u \in mem : u.seq \in Nat
      BY <3>1, Zenon
    <3>3. CASE w.seq <= e.seq
      <4>1. \A u \in mem : u.seq <= w.seq => u.seq <= e.seq
        BY <3>2, <3>3
      <4>2. Max(e)
        BY <2>3, <3>1, <3>2, <4>1
      <4> QED BY <4>2, Zenon
    <3>4. CASE ~(w.seq <= e.seq)
      <4>1. e.seq <= w.seq
        BY <3>2, <3>4
      <4>2. Max(w)
        BY <3>1, <4>1, Zenon
      <4> QED BY <4>2, Zenon
    <3> QED BY <3>3, <3>4, Zenon
  <2> QED BY <2>1, <2>2, <2>3, Zenon
<1>2. \A v \in all : v.op.kind # "delete"
  BY Zenon DEF Answers
<1> QED BY <1>1, <1>2, Zenon DEF Answers

(* What is in memory stays there, in its MemTable or behind it in the list.*)
LEMMA FirstStep ==
    ASSUME Flushers = {}, "delete" \notin Kinds, SeqInv, TypeInv', CallInv, HistOK, BatchOK,
           FirstSession, NEW t \in Thread, ThreadNext(t)
    PROVE  FirstSession' /\ \A i : InList(i) => InList(i)'
<1>0. TypeInv /\ DownEmpty /\ Numbered /\ mode = "up" /\ mode' = "up"
  <2>1. TypeInv /\ DownEmpty /\ Numbered
    BY Zenon DEF SeqInv, FirstSession
  <2> QED BY <2>1, ThreadMoves, Zenon
<1>1. /\ Numbered'
      /\ \A u \in Thread : \A j \in DOMAIN batch'[u] : batch'[u][j].kind # "delete"
  BY <1>0, NumberedStep, NoDeletes, Zenon DEF FirstSession
<1>2. Placed(memtable) /\ \A n \in DOMAIN immutable : Placed(immutable[n])
  BY <1>0, AllPlaced, Zenon
<1>3. \A i \in DOMAIN hist : i \in DOMAIN hist' /\ hist'[i] = hist[i]
  BY <1>0, HistGrows, Zenon
<1>5. \A i : Inserted(i)' => Inserted(i) \/ (Apply(t) /\ i = Entry(t).op.id)
  BY <1>0, InsertedStep, Zenon DEF CallInv
<1>6. \A i : Inserted(i) => i \in DOMAIN hist /\ InMem(i)
  BY <1>0, InsertedIssued, Zenon DEF FirstSession
<1>7. CASE UNCHANGED <<memtable, immutable>>
  <2>1. ~Apply(t)
    <3> SUFFICES ASSUME Apply(t) PROVE FALSE
      BY Zenon
    <3>1. Entry(t) \in memtable /\ \A v \in MemoryVersions : v.seq # Entry(t).seq
      BY <1>0, <1>7, EntryFacts, Zenon
    <3> QED BY <3>1, InMemoryVersions, Zenon
  <2>2. \A i : InMem(i)' <=> InMem(i)
    BY <1>7, Zenon DEF InMem, InList, Has
  <2>3. \A i : InList(i)' <=> InList(i)
    BY <1>7, Zenon DEF InList, Has
  <2>4. /\ \A n \in DOMAIN immutable : NotOlder(memtable, immutable[n])'
        /\ \A m, n \in DOMAIN immutable : n < m => NotOlder(immutable[m], immutable[n])'
    <3>1. \A n \in DOMAIN immutable : NotOlder(memtable, immutable[n]) /\ Placed(immutable[n])
      BY <1>2, Zenon DEF FirstSession
    <3>2. \A m, n \in DOMAIN immutable : n < m => NotOlder(immutable[m], immutable[n])
      BY Zenon DEF FirstSession
    <3>4. ASSUME NEW n \in DOMAIN immutable PROVE NotOlder(memtable, immutable[n])'
      <4>1. \A w \in immutable[n] : w.op.id \in DOMAIN hist /\ hist'[w.op.id] = hist[w.op.id]
        BY <1>3, <3>1, <3>4, Zenon DEF Placed
      <4> QED BY <1>7, <3>1, <3>4, <4>1, Zenon DEF NotOlder
    <3>5. ASSUME NEW m \in DOMAIN immutable, NEW n \in DOMAIN immutable, n < m
          PROVE  NotOlder(immutable[m], immutable[n])'
      <4>1. \A w \in immutable[n] : w.op.id \in DOMAIN hist /\ hist'[w.op.id] = hist[w.op.id]
        BY <1>3, <3>1, <3>5, Zenon DEF Placed
      <4> QED BY <1>7, <3>2, <3>5, <4>1, Zenon DEF NotOlder
    <3> QED BY <3>4, <3>5, Zenon
  <2>5. ListAnswers'
    BY <1>7, Zenon DEF FirstSession, ListAnswers
  <2> QED BY <1>1, <1>5, <1>6, <1>7, <2>1, <2>2, <2>3, <2>4, <2>5, Zenon DEF FirstSession
<1>8. CASE Apply(t)
  <2> DEFINE e == Entry(t)
  <2>0. /\ memtable' = memtable \cup {e} /\ immutable' = immutable /\ hist' = hist
        /\ e.op = batch[t][applied[t] + 1] /\ applied[t] + 1 \in DOMAIN batch[t]
        /\ e.seq \in Nat /\ e.op.id \notin acked
    BY <1>0, <1>8, EntryFacts, Zenon
  <2> HIDE DEF e
  <2>1. \A i : Has(memtable, i) => Has(memtable', i)
    BY <2>0, Zenon DEF Has
  <2>2. \A i : InList(i)' <=> InList(i)
    BY <2>0, Zenon DEF InList, Has
  <2>3. Has(memtable', e.op.id)
    BY <2>0, Zenon DEF Has
  <2>4. \A i \in DOMAIN hist' : Inserted(i)' => InMem(i)'
    <3>1. \A i : InMem(i) => InMem(i)'
      BY <2>1, <2>2, Zenon DEF InMem
    <3>2. PICK x : x = e.op.id
      BY Zenon
    <3>3. InMem(x)'
      BY <2>3, <3>2, Zenon DEF InMem
    <3>4. \A i : Inserted(i)' => Inserted(i) \/ i = x
      BY <1>5, <3>2, Zenon DEF e
    <3> QED BY <1>6, <3>1, <3>3, <3>4, Zenon
  <2>5. ASSUME NEW n \in DOMAIN immutable PROVE NotOlder(memtable, immutable[n])'
    <3>1. \A w \in immutable[n] : hist[w.op.id].after \subseteq acked
      BY <1>2, <2>5, Zenon DEF Placed, HistOK
    <3>2. NotOlder(memtable, immutable[n])
      BY <2>5, Zenon DEF FirstSession
    <3> QED BY <2>0, <3>1, <3>2, Zenon DEF NotOlder
  <2>6. \A m, n \in DOMAIN immutable : n < m => NotOlder(immutable[m], immutable[n])'
    BY <2>0, Zenon DEF FirstSession, NotOlder
  <2>7. Answers(memtable')
    <3>1. \A v \in memtable : v.seq \in Nat
      BY <1>0, Zenon DEF TypeInv, MemoryOK, Version
    <3>2. e.op.kind # "delete" /\ Answers(memtable)
      BY <2>0, Zenon DEF FirstSession
    <3> QED BY <2>0, <3>1, <3>2, AnswersMore, Zenon
  <2>8. ListAnswers'
    BY <2>0, Zenon DEF FirstSession, ListAnswers
  <2> QED BY <1>1, <2>0, <2>2, <2>4, <2>5, <2>6, <2>7, <2>8, Zenon DEF FirstSession
<1>9. CASE Put(t) \/ Delete(t) \/ Write(t)
  BY <1>7, <1>9, ZenonT(40) DEF Put, Delete, Write, BeginWrite
<1>10. CASE AppendLog(t) \/ SyncLog(t) \/ CheckSize(t) \/ Fail(t)
  BY <1>0, <1>7, <1>10, CalmSteps, Zenon DEF Calm
<1>11. CASE Freeze(t)
  <2>0. immutable' = Append(immutable, memtable) /\ memtable' = {} /\ hist' = hist
    BY <1>11, Zenon DEF Freeze
  <2>1. PICK len \in Nat : /\ DOMAIN immutable = 1 .. len /\ DOMAIN immutable' = 1 .. len + 1
                           /\ immutable'[len + 1] = memtable
                           /\ \A n \in 1 .. len : immutable'[n] = immutable[n]
    <3>1. immutable \in Seq(SUBSET Version) /\ memtable \in SUBSET Version
      BY <1>0, Zenon DEF TypeInv, MemoryOK
    <3>2. /\ Len(immutable) \in Nat
          /\ DOMAIN immutable = 1 .. Len(immutable) /\ DOMAIN immutable' = 1 .. Len(immutable) + 1
          /\ immutable'[Len(immutable) + 1] = memtable
          /\ \A n \in 1 .. Len(immutable) : immutable'[n] = immutable[n]
      BY <2>0, <3>1
    <3> QED BY <3>2, Zenon
  <2>2. /\ len + 1 \in 1 .. len + 1
        /\ \A n \in 1 .. len : n \in 1 .. len + 1
        /\ \A n \in 1 .. len + 1 : n \in 1 .. len \/ n = len + 1
        /\ \A n \in 1 .. len + 1 : ~(len + 1 < n)
    OBVIOUS
  <2>3. \A i : InList(i) => InList(i)'
    BY <2>1, <2>2, Zenon DEF InList
  <2>4. \A i : Has(memtable, i) => InList(i)'
    BY <2>1, <2>2, Zenon DEF InList
  <2>5. \A i \in DOMAIN hist' : Inserted(i)' => InMem(i)'
    <3>1. ~Apply(t)
      BY <1>11, Zenon DEF Apply, Freeze
    <3> QED BY <1>5, <1>6, <2>3, <2>4, <3>1, Zenon DEF InMem
  <2>6. (\A n \in DOMAIN immutable : NotOlder(memtable, immutable[n]))'
    BY <2>0, Zenon DEF NotOlder
  <2>7. ASSUME NEW m \in DOMAIN immutable', NEW n \in DOMAIN immutable', n < m
        PROVE  NotOlder(immutable[m], immutable[n])'
    <3>1. n \in 1 .. len
      BY <2>1, <2>2, <2>7, Zenon
    <3>2. CASE m = len + 1
      <4>1. NotOlder(memtable, immutable[n])
        BY <2>1, <3>1, Zenon DEF FirstSession
      <4> QED BY <2>0, <2>1, <3>1, <3>2, <4>1, Zenon DEF NotOlder
    <3>3. CASE m \in 1 .. len
      <4>1. NotOlder(immutable[m], immutable[n])
        BY <2>1, <2>7, <3>1, <3>3, Zenon DEF FirstSession
      <4> QED BY <2>0, <2>1, <3>1, <3>3, <4>1, Zenon DEF NotOlder
    <3> QED BY <2>1, <2>2, <2>7, <3>2, <3>3, Zenon
  <2>8. Answers(memtable') /\ \A n \in DOMAIN immutable' : Answers(immutable'[n])
    <3>1. Answers({})
      BY Zenon DEF Answers
    <3> QED BY <2>0, <2>1, <2>2, <3>1, Zenon DEF FirstSession
  <2>9. ListAnswers'
    <3> SUFFICES ASSUME NEW k, NEW s, ImmutableGet(immutable', k, s) = {}, NEW n \in DOMAIN immutable'
                 PROVE  MemGet(immutable'[n], k, s) = {}
      BY Zenon DEF ListAnswers
    <3>1. AskedFirst(immutable, memtable, k, s)
      BY <1>0, ImmutableAppend, Zenon DEF TypeInv, MemoryOK
    <3>2. MemGet(memtable, k, s) = {} /\ ImmutableGet(immutable, k, s) = {}
      BY <2>0, <3>1, Zenon DEF AskedFirst
    <3>3. \A m \in DOMAIN immutable : MemGet(immutable[m], k, s) = {}
      BY <3>2, Zenon DEF FirstSession, ListAnswers
    <3> QED BY <2>1, <2>2, <3>2, <3>3, Zenon
  <2> QED BY <1>1, <2>3, <2>5, <2>6, <2>7, <2>8, <2>9, Zenon DEF FirstSession
<1> QED BY <1>0, <1>8, <1>9, <1>10, <1>11, ThreadMoves, Zenon

(* A lookup at rest, while the history and the immutable list only grow.   *)
LEMMA GetKept ==
    ASSUME HistOK, acked \subseteq acked', \A i : InList(i) => InList(i)',
           \A i \in DOMAIN hist : i \in DOMAIN hist' /\ hist'[i] = hist[i],
           NEW r \in Readers, ReaderStays(r), GetOK(r)
    PROVE  GetOK(r)'
<1> SUFFICES ASSUME ~viaSnap[r]
             PROVE  /\ floor'[r] \subseteq acked' /\ \A i \in floor'[r] : i <= rseq'[r]
                    /\ rpc'[r] = "immutable" =>
                          \A i \in floor'[r] : hist'[i].op.key = rkey'[r] => InList(i)'
                    /\ rpc'[r] = "tables" => \A i \in floor'[r] : hist'[i].op.key # rkey'[r]
                    /\ rpc'[r] = "done" => UpToDate(answer[r], rkey[r], floor[r])'
  BY Zenon DEF GetOK, ReaderStays
<1>1. /\ floor[r] \subseteq acked /\ \A i \in floor[r] : i <= rseq[r]
      /\ rpc[r] = "immutable" => \A i \in floor[r] : hist[i].op.key = rkey[r] => InList(i)
      /\ rpc[r] = "tables" => \A i \in floor[r] : hist[i].op.key # rkey[r]
      /\ rpc[r] = "done" => UpToDate(answer[r], rkey[r], floor[r])
  BY Zenon DEF GetOK
<1>2. \A i \in floor[r] : i \in DOMAIN hist /\ hist'[i] = hist[i]
  BY <1>1, Zenon DEF HistOK
<1>3. ASSUME rpc'[r] = "done" PROVE UpToDate(answer[r], rkey[r], floor[r])'
  <2>1. PICK a, k, f : a = answer[r] /\ k = rkey[r] /\ f = floor[r]
    BY Zenon
  <2>2. answer'[r] = a /\ rkey'[r] = k /\ floor'[r] = f /\ rpc[r] = "done"
    BY <1>3, <2>1, Zenon DEF ReaderStays
  <2>3. UpToDate(a, k, f) /\ \A i \in f : hist'[i] = hist[i]
    BY <1>1, <1>2, <2>1, <2>2, Zenon
  <2>4. UpToDate(a, k, f)'
    <3> SUFFICES ASSUME NEW i \in f, hist'[i].op.key = k
                 PROVE  IF a # {}
                        THEN \A o \in a : Covers(o, i)'
                        ELSE \E j \in DOMAIN hist' : hist'[j].op.kind = "delete" /\ Covers(hist[j].op, i)'
      BY Zenon DEF UpToDate
    <3>1. hist'[i] = hist[i] /\ hist[i].op.key = k
      BY <2>3, Zenon
    <3>2. CASE a # {}
      <4>1. \A o \in a : Covers(o, i)
        BY <2>3, <3>1, <3>2, Zenon DEF UpToDate
      <4> QED BY <3>1, <3>2, <4>1, Zenon DEF Covers
    <3>3. CASE a = {}
      <4>1. PICK j \in DOMAIN hist : hist[j].op.kind = "delete" /\ Covers(hist[j].op, i)
        BY <2>3, <3>1, <3>3, Zenon DEF UpToDate
      <4>2. j \in DOMAIN hist' /\ hist'[j] = hist[j]
        BY <4>1, Zenon
      <4> QED BY <3>1, <3>3, <4>1, <4>2, Zenon DEF Covers
    <3> QED BY <3>2, <3>3, Zenon
  <2> QED BY <2>1, <2>2, <2>4, Zenon
<1> QED BY <1>1, <1>2, <1>3, Zenon DEF ReaderStays


LEMMA FirstStays ==
    ASSUME UNCHANGED <<mode, sequence, memtable, immutable, pc, locals, ghosts>>
    PROVE  /\ HistOK => HistOK'
           /\ BatchOK => BatchOK'
           /\ FirstSession => FirstSession'
           /\ \A i : InList(i)' <=> InList(i)
<1> USE DEF locals, ghosts
<1>1. HistOK => HistOK'
  BY Zenon DEF HistOK
<1>2. BatchOK => BatchOK'
  BY DEF BatchOK
<1>3. Numbered => Numbered'
  <2>1. MemoryVersions' = MemoryVersions
    BY Zenon DEF MemoryVersions
  <2> QED BY <2>1 DEF Numbered
<1>4. ListAnswers => ListAnswers'
  BY Zenon DEF ListAnswers
<1>5. \A i : (InMem(i)' <=> InMem(i)) /\ (InList(i)' <=> InList(i)) /\ (Inserted(i)' <=> Inserted(i))
  BY Zenon DEF InMem, InList, Has, Inserted
<1>6. FirstSession => FirstSession'
  <2>1. (\A i \in DOMAIN hist : Inserted(i) => InMem(i))
           => \A i \in DOMAIN hist' : Inserted(i)' => InMem(i)'
    BY <1>5, Zenon
  <2>2. (\A n \in DOMAIN immutable : NotOlder(memtable, immutable[n]))
           => (\A n \in DOMAIN immutable : NotOlder(memtable, immutable[n]))'
    BY Zenon DEF NotOlder
  <2>3. (\A m, n \in DOMAIN immutable : n < m => NotOlder(immutable[m], immutable[n]))
           => (\A m, n \in DOMAIN immutable : n < m => NotOlder(immutable[m], immutable[n]))'
    BY DEF NotOlder
  <2> QED BY <1>3, <1>4, <2>1, <2>2, <2>3, Zenon DEF FirstSession
<1> QED BY <1>1, <1>2, <1>5, <1>6, Zenon

(* The steps of a lookup: a miss at one lock leaves the operation to the   *)
(* next, and a hit is fresh.                                               *)
LEMMA GetReader ==
    ASSUME TypeInv, ReadersOK, GetInv, NEW r \in Readers, ReaderStep(r) PROVE GetInv'
<1>0. /\ UNCHANGED vars /\ HistOK /\ GetOK(r) /\ rseq[r] \in Nat
      /\ mode = "up" => FirstSession
      /\ rpc[r] # "idle" => mode = "up"
  <2>1. UNCHANGED vars
    BY ReaderKeeps, Zenon
  <2>2. HistOK /\ GetOK(r) /\ (mode = "up" => FirstSession)
    BY Zenon DEF GetInv
  <2>3. rseq[r] \in Nat /\ (rpc[r] # "idle" => mode # "down")
    BY Zenon DEF ReadersOK
  <2>4. mode \in {"up", "down"}
    BY Zenon DEF TypeInv, MemoryOK
  <2> QED BY <2>1, <2>2, <2>3, <2>4, Zenon
<1>1. /\ UNCHANGED <<hist, acked>> /\ \A i : InList(i)' <=> InList(i)
      /\ \A a, k, f : UpToDate(a, k, f)' <=> UpToDate(a, k, f)
  BY <1>0, ZenonT(40) DEF vars, memory, ghosts, InList, Has, UpToDate, Covers
<1>2. \A u \in Readers \ {r} : GetOK(u)'
  <2>1. \A u \in Readers \ {r} : ReaderStays(u) /\ GetOK(u)
    BY OthersStay, Zenon DEF GetInv
  <2> QED BY <1>0, <1>1, <2>1, GetKept, Zenon
<1>3. ASSUME Get(r) PROVE GetOK(r)'
  <2>1. /\ rpc'[r] = "memtable" /\ rseq'[r] = sequence /\ floor'[r] = acked /\ mode = "up"
    BY <1>3, Zenon DEF Get, BeginLookup, ReadersOK
  <2>2. \A i \in acked : i <= sequence
    <3>1. DOMAIN hist = 1 .. Len(hist) /\ sequence = Len(hist) /\ Len(hist) \in Nat
      BY <1>0, <2>1 DEF TypeInv, GhostsOK, FirstSession, Numbered
    <3> QED BY <1>0, <3>1, SMTT(30) DEF HistOK
  <2> QED BY <1>1, <2>1, <2>2, Zenon DEF GetOK
<1>4. ASSUME SnapshotGet(r) PROVE GetOK(r)'
  BY <1>4, Zenon DEF SnapshotGet, BeginLookup, ReadersOK, GetOK
<1>5. ASSUME TakeSnapshot(r) PROVE GetOK(r)'
  BY <1>0, <1>1, <1>5, Zenon DEF TakeSnapshot, rlocals, GetOK, UpToDate, Covers
<1>6. ASSUME SearchMemtable(r) \/ SearchImmutable(r) \/ SearchTables(r) PROVE GetOK(r)'
  <2> SUFFICES ASSUME ~viaSnap[r] PROVE GetOK(r)'
    BY <1>6, Zenon DEF SearchMemtable, SearchImmutable, SearchTables, Search, GetOK
  <2>0. PICK k, s, f : k = rkey[r] /\ s = rseq[r] /\ f = floor[r]
    BY Zenon
  <2>1. /\ s \in Nat /\ f \subseteq acked /\ \A i \in f : i <= s
        /\ rkey'[r] = k /\ rseq'[r] = s /\ floor'[r] = f
    BY <1>0, <1>6, <2>0, Zenon DEF GetOK, SearchMemtable, SearchImmutable, SearchTables, Search
  <2>2. rpc[r] \in {"memtable", "immutable", "tables"} /\ FirstSession
    BY <1>0, <1>6, Zenon DEF SearchMemtable, SearchImmutable, SearchTables, Search
  <2>3. SUFFICES /\ rpc'[r] = "immutable" => \A i \in f : hist[i].op.key = k => InList(i)
                 /\ rpc'[r] = "tables" => \A i \in f : hist[i].op.key # k
                 /\ rpc'[r] = "done" => UpToDate(answer'[r], k, f)
    <3>1. PICK a : a = answer'[r]
      BY Zenon
    <3>2. ASSUME UpToDate(a, k, f) PROVE UpToDate(answer[r], rkey[r], floor[r])'
      <4>1. UpToDate(a, k, f)'
        BY <1>1, <3>2, Zenon
      <4> QED BY <2>1, <3>1, <4>1, Zenon
    <3> QED BY <1>1, <2>1, <2>3, <3>1, <3>2, Zenon DEF GetOK
  <2>4. CASE SearchMemtable(r)
    <3> DEFINE found == MemGet(memtable, k, s)
    <3>1. /\ answer'[r] = found
          /\ found # {} => rpc'[r] = "done"
          /\ found = {} => rpc'[r] = "immutable"
      BY <2>0, <2>4, Zenon DEF SearchMemtable, Search, ReadersOK
    <3>2. /\ found # {} => UpToDate(found, k, f)
          /\ found = {} => \A i \in f : hist[i].op.key = k => InList(i)
      BY <1>0, <2>1, <2>2, MemtableFresh, Zenon
    <3> QED BY <3>1, <3>2, Zenon
  <2>5. CASE SearchImmutable(r)
    <3> DEFINE found == ImmutableGet(immutable, k, s)
    <3>1. /\ answer'[r] = found
          /\ found # {} => rpc'[r] = "done"
          /\ found = {} => rpc'[r] = "tables"
      BY <2>0, <2>5, Zenon DEF SearchImmutable, Search, ReadersOK
    <3>2. \A i \in f : hist[i].op.key = k => InList(i)
      BY <1>0, <2>0, <2>5, Zenon DEF SearchImmutable, Search, GetOK
    <3>3. /\ found # {} => UpToDate(found, k, f)
          /\ found = {} => \A i \in f : hist[i].op.key # k
      BY <1>0, <2>1, <2>2, <3>2, ListFresh, Zenon
    <3> QED BY <3>1, <3>3, Zenon
  <2>6. CASE SearchTables(r)
    <3>1. rpc'[r] = "done"
      BY <2>6, Zenon DEF SearchTables, Search, ReadersOK
    <3>2. \A i \in f : hist[i].op.key # k
      BY <1>0, <2>0, <2>6, Zenon DEF SearchTables, Search, GetOK
    <3> QED BY <3>1, <3>2, Zenon DEF UpToDate
  <2> QED BY <1>6, <2>4, <2>5, <2>6, Zenon
<1>7. ASSUME EndLookup(r) PROVE GetOK(r)'
  BY <1>7, Zenon DEF EndLookup, ReadersOK, GetOK
<1>8. GetOK(r)'
  BY <1>3, <1>4, <1>5, <1>6, <1>7, Zenon DEF ReaderStep
<1>9. /\ HistOK' /\ BatchOK'
      /\ mode' = "up" => FirstSession'
      /\ opens' = 0 => hist' = <<>> /\ logs' = <<>> /\ mode' = "down"
      /\ opens' <= 1
      /\ mode' = "up" => opens' = 1
  BY <1>0, FirstStays, Zenon DEF GetInv, vars, memory, disk, ghosts
<1> QED BY <1>2, <1>8, <1>9, Zenon DEF GetInv

(* The first open finds nothing to replay.                                 *)
LEMMA GetOpen ==
    ASSUME SeqInv, HistOK, BatchOK, Open, hist = <<>>, logs = <<>>
    PROVE  FirstSession'
<1>1. memtable' = {} /\ sequence' = 0 /\ hist' = <<>> /\ UNCHANGED <<immutable, held, batch, acked>>
  <2>1. \A n : Entries(n) = <<>>
    BY DEF Entries
  <2>2. PICK n : sequence' = Len(Entries(n)) /\ memtable' = Replay(Entries(n))
    BY Zenon DEF Open
  <2>3. sequence' = 0 /\ memtable' = {}
    BY <2>1, <2>2 DEF Replay
  <2> QED BY <2>3, Zenon DEF Open, locals
<1>2. mode = "down"
  BY Zenon DEF Open
<1>3. immutable = <<>> /\ \A t \in Thread : held[t] = {}
  BY <1>2, Zenon DEF SeqInv, DownEmpty
<1>4. DOMAIN hist' = {} /\ DOMAIN immutable' = {} /\ \A t \in Thread : DOMAIN batch'[t] = {}
  BY <1>1, <1>3 DEF BatchOK
<1>5. Numbered'
  <2>1. MemoryVersions' = {}
    BY <1>1, <1>3 DEF MemoryVersions
  <2>2. sequence' = Len(hist')
    BY <1>1
  <2> QED BY <1>4, <2>1, <2>2, Zenon DEF Numbered
<1>6. Answers(memtable') /\ ListAnswers'
  BY <1>1, <1>4, Zenon DEF Answers, ListAnswers
<1> QED BY <1>4, <1>5, <1>6, Zenon DEF FirstSession

LEMMA GetEngine ==
    ASSUME Flushers = {}, "delete" \notin Kinds, MaxOpens <= 1, SeqInv, TypeInv', CallInv,
           ReadersOK, GetInv, EngineStep
    PROVE  GetInv'
<1>0. /\ TypeInv /\ DownEmpty /\ HistOK /\ BatchOK /\ \A r \in Readers : GetOK(r)
  BY Zenon DEF SeqInv, GetInv
<1>1. HistOK' /\ BatchOK'
  <2>1. [Next]_vars
    BY Zenon DEF EngineStep
  <2> QED BY <1>0, <2>1, HistStep, Zenon
<1>2. CASE \E t \in Thread : ThreadNext(t)
  <2>1. PICK t \in Thread : ThreadNext(t)
    BY <1>2, Zenon
  <2>2. mode = "up" /\ mode' = "up" /\ opens' = opens
    BY <1>0, <2>1, ThreadMoves, SameSession, Zenon
  <2>3. FirstSession /\ opens = 1
    BY <2>2, Zenon DEF GetInv
  <2>4. FirstSession' /\ \A i : InList(i) => InList(i)'
    BY <1>0, <2>1, <2>3, FirstStep, Zenon
  <2>5. /\ acked \subseteq acked'
        /\ \A i \in DOMAIN hist : i \in DOMAIN hist' /\ hist'[i] = hist[i]
    BY <1>0, <2>1, AckedGrows, HistGrows, Zenon
  <2>6. \A r \in Readers : ReaderStays(r)
    BY <2>2, Zenon DEF EngineStep, rvars, rlocals, ReaderStays
  <2>7. \A r \in Readers : GetOK(r)'
    BY <1>0, <2>4, <2>5, <2>6, GetKept, Zenon
  <2>8. opens' <= 1 /\ opens' # 0
    BY <2>2, <2>3
  <2> QED BY <1>1, <2>2, <2>3, <2>4, <2>7, <2>8, Zenon DEF GetInv
<1>3. CASE Open
  <2>1. /\ mode = "down" /\ mode' = "up" /\ opens < MaxOpens /\ opens' = opens + 1
        /\ UNCHANGED <<hist, acked>>
    BY <1>3, Zenon DEF Open
  <2>2. opens = 0 /\ opens' = 1 /\ opens' <= 1 /\ opens' # 0
    <3>1. opens \in Nat /\ MaxOpens \in Nat
      BY <1>0, ConstantsAssumption, Zenon DEF TypeInv, GhostsOK
    <3> QED BY <2>1, <3>1
  <2>3. FirstSession'
    BY <1>0, <1>3, <2>2, GetOpen, Zenon DEF GetInv
  <2>4. \A r \in Readers : GetOK(r)'
    <3>1. \A r \in Readers : rpc'[r] = "idle" /\ floor'[r] = floor[r] /\ rseq'[r] = rseq[r]
                             /\ viaSnap'[r] = viaSnap[r]
      BY <2>1, Zenon DEF EngineStep, rvars, rlocals, ReadersOK
    <3> QED BY <1>0, <2>1, <3>1, Zenon DEF GetOK
  <2> QED BY <1>1, <2>1, <2>2, <2>3, <2>4, Zenon DEF GetInv
<1>4. CASE Crash
  <2>1. mode = "up" /\ opens < MaxOpens
    BY <1>4, Zenon DEF Crash
  <2>2. opens = 1
    BY <2>1, Zenon DEF GetInv
  <2> QED BY <2>1, <2>2, ConstantsAssumption
<1>5. CASE Spill \/ Rest
  <2>1. /\ UNCHANGED <<mode, sequence, memtable, immutable, pc, locals, ghosts>>
        /\ mode = "down" => logs' = logs
    BY <1>5, Zenon DEF Spill, Rest, vars, memory, disk
  <2>2. /\ mode' = "up" => FirstSession'
        /\ \A i : InList(i)' <=> InList(i)
    BY <2>1, FirstStays, Zenon DEF GetInv
  <2>3. \A r \in Readers : GetOK(r)'
    <3>1. CASE mode' = "down"
      BY <3>1, Zenon DEF EngineStep, GetOK
    <3>2. CASE mode' # "down"
      <4>1. \A r \in Readers : ReaderStays(r)
        BY <3>2, Zenon DEF EngineStep, rvars, rlocals, ReaderStays
      <4>2. UNCHANGED <<hist, acked>>
        BY <2>1, Zenon DEF ghosts
      <4> QED BY <1>0, <2>2, <4>1, <4>2, GetKept, Zenon
    <3> QED BY <3>1, <3>2, Zenon
  <2>4. /\ opens' = 0 => hist' = <<>> /\ logs' = <<>> /\ mode' = "down"
        /\ opens' <= 1
        /\ mode' = "up" => opens' = 1
    BY <2>1, Zenon DEF GetInv, ghosts
  <2> QED BY <1>1, <2>2, <2>3, <2>4, Zenon DEF GetInv
<1> QED BY <1>2, <1>3, <1>4, <1>5, Zenon DEF EngineStep, Next

LEMMA GetInvStep ==
    ASSUME Flushers = {}, "delete" \notin Kinds, MaxOpens <= 1, SeqInv, TypeInv', CallInv,
           ReadersOK, GetInv, [RNext]_<<vars, rvars>>
    PROVE  GetInv'
<1>0. TypeInv /\ HistOK /\ \A r \in Readers : GetOK(r)
  BY Zenon DEF SeqInv, GetInv
<1>1. CASE UNCHANGED <<vars, rvars>>
  <2>1. /\ UNCHANGED <<mode, sequence, memtable, immutable, pc, locals, ghosts, logs, hist, acked, opens>>
        /\ \A r \in Readers : ReaderStays(r)
    BY <1>1, Zenon DEF vars, memory, disk, ghosts, rvars, rlocals, ReaderStays
  <2>2. /\ HistOK' /\ BatchOK'
        /\ mode' = "up" => FirstSession'
        /\ \A i : InList(i)' <=> InList(i)
    BY <2>1, FirstStays, Zenon DEF GetInv
  <2>3. \A r \in Readers : GetOK(r)'
    BY <1>0, <2>1, <2>2, GetKept, Zenon
  <2>4. /\ opens' = 0 => hist' = <<>> /\ logs' = <<>> /\ mode' = "down"
        /\ opens' <= 1
        /\ mode' = "up" => opens' = 1
    BY <2>1, Zenon DEF GetInv
  <2> QED BY <2>2, <2>3, <2>4, Zenon DEF GetInv
<1> QED BY <1>0, <1>1, GetReader, GetEngine, Zenon DEF RNext

LEMMA GetInvariant ==
    ASSUME Flushers = {}, "delete" \notin Kinds, MaxOpens <= 1 PROVE RSpec => [](TypeInv /\ GetInv)
<1>1. RInit => ReadersOK /\ GetInv
  <2> SUFFICES ASSUME RInit PROVE GetInv
    BY ReadersInit, Zenon
  <2>1. /\ hist = <<>> /\ acked = {} /\ opens = 0 /\ mode = "down" /\ logs = <<>>
        /\ batch = [t \in Thread |-> <<>>] /\ applied = [t \in Thread |-> 0]
    BY Zenon DEF RInit, Init
  <2>2. HistOK /\ BatchOK /\ opens <= 1
    BY <2>1 DEF HistOK, BatchOK
  <2>3. \A r \in Readers : GetOK(r)
    BY Zenon DEF RInit, GetOK
  <2> QED BY <2>1, <2>2, <2>3, Zenon DEF GetInv
<1>2. SeqInv /\ SeqInv' /\ CallInv /\ ReadersOK /\ GetInv /\ [RNext]_<<vars, rvars>>
          => ReadersOK' /\ GetInv'
  BY ReadersStep, GetInvStep, Zenon DEF SeqInv
<1>3. SeqInv => TypeInv
  BY Zenon DEF SeqInv
<1> QED BY <1>1, <1>2, <1>3, EngineBelow, SeqInvariant, CallInvariant, PTL DEF RSpec

(* get (lib.rs:421) looks into the MemTable, the immutable MemTables and   *)
(* the SSTables under three locks, one after the other, while puts, writes *)
(* and freezes go on between them.  For any number of readers, writers,    *)
(* keys and operations per batch, and with I/O errors: a get returns a     *)
(* value at least as new as every put or write to the key that had         *)
(* returned when it began.  This is about the first session of a database, *)
(* without deletes and without a flush.                                    *)
THEOREM GetsAreFresh ==
    Flushers = {} /\ "delete" \notin Kinds /\ MaxOpens <= 1 => (RSpec => []GetFresh)
<1> SUFFICES ASSUME Flushers = {}, "delete" \notin Kinds, MaxOpens <= 1 PROVE RSpec => []GetFresh
  BY Zenon
<1>1. GetInv => GetFresh
  BY Zenon DEF GetInv, GetOK, GetFresh
<1> QED BY <1>1, GetInvariant, PTL
=============================================================================
