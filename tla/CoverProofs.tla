----------------------------- MODULE CoverProofs -----------------------------
(***************************************************************************)
(* No acknowledged write is lost in the first session, for every number of *)
(* concurrent writers and one thread at a time that flushes and compacts:  *)
(* it, or a write to its key that is not older, stays in a structure that  *)
(* no older write hides.                                                   *)
(***************************************************************************)
EXTENDS FileProofs

(* Every key of the MemTable has a newest version.                         *)
Topped ==
    \A v \in memtable : \E w \in memtable :
        /\ w.op.key = v.op.key
        /\ \A u \in memtable : u.op.key = v.op.key => u.seq <= w.seq

(* o does not hide operation i behind an older one.                        *)
Suits(o, i) == o.key = hist[i].op.key => o.id \notin hist[i].after
Fresh(mem, i) == \A o \in FlushContents(mem) : Suits(o, i)
Holds(mem, i) == \E o \in FlushContents(mem) : Covers(o, i)
ListFresh(i) == Fresh(memtable, i) /\ \A m \in DOMAIN immutable : Fresh(immutable[m], i)

(* The structures from the newest to the oldest: operation i is covered in *)
(* one of them and by what every newer one holds of its key.               *)
InMemtable(i) == Holds(memtable, i) /\ Fresh(memtable, i)
InImmutable(i) ==
    /\ Fresh(memtable, i)
    /\ \E j \in DOMAIN immutable :
          /\ Holds(immutable[j], i)
          /\ \A m \in DOMAIN immutable : j <= m => Fresh(immutable[m], i)
InHeld(i) == ListFresh(i) /\ \E t \in Thread : Holds(held[t], i) /\ Fresh(held[t], i)
Leads(h, i) ==
    /\ \E o \in h.data : Covers(o, i)
    /\ \A o \in h.data : Suits(o, i)
    /\ \A g \in levels[0] \ {h} : g.rank <= h.rank => \A o \in g.data : o.key # hist[i].op.key
InLevel0(i) ==
    /\ ListFresh(i) /\ \A t \in Thread : Fresh(held[t], i)
    /\ \E h \in levels[0] : Leads(h, i)
Rests(h, l, i) ==
    /\ \E o \in h.data : Covers(o, i)
    /\ \A m \in Level \ {0} : \A g \in levels[m] :
          m < l \/ (m = l /\ h.rank <= g.rank) => \A o \in g.data : Suits(o, i)
Above(i) ==
    /\ ListFresh(i) /\ \A t \in Thread : Fresh(held[t], i)
    /\ \A h \in levels[0] : \A o \in h.data : Suits(o, i)
Deep(i) == Above(i) /\ \E l \in Level \ {0} : \E h \in levels[l] : Rests(h, l, i)
Dropped(i) ==
    \E j \in DOMAIN hist :
        hist[j].op \in purged /\ hist[j].op.kind # "put" /\ Covers(hist[j].op, i)
Sunk(i) == Dropped(i) \/ Deep(i)

OnTables(i) == InLevel0(i) \/ Sunk(i)
Frozen(i) == InImmutable(i) \/ InHeld(i) \/ OnTables(i)
Kept(i) == InMemtable(i) \/ Frozen(i)

AllKept == \A i \in DOMAIN hist : Inserted(i) => Kept(i)

(* What a flush owes is frozen once it has frozen the MemTable, and in     *)
(* tables once it has emptied the list.                                    *)
Owed ==
    \A t \in Thread : call[t] \in Flushing =>
        /\ must[t] \subseteq acked
        /\ pc[t] \in {"take"} \cup Holding => \A i \in must[t] : Frozen(i)
        /\ pc[t] \in RotateSteps \cup CompactSteps => \A i \in must[t] : OnTables(i)

(* Tables hold operations of the history.                                  *)
Known(o) == o.id \in DOMAIN hist /\ hist[o.id].op = o
LevelsKnown == \A l \in Level : \A h \in levels[l] : \A o \in h.data : Known(o)

Working == Numbered /\ FlushOK /\ CompactOK /\ Topped /\ LevelsKnown /\ AllKept /\ Owed

CoverInv ==
    /\ HistOK /\ BatchOK
    /\ opens = 0 => hist = <<>> /\ logs = <<>>
    /\ mode = "up" /\ opens = 1 /\ faults = 0 => Working

(***************************************************************************)
(* What the structures hold.                                               *)
(***************************************************************************)
(* A step that moves no version and no table.                              *)
SameStores ==
    /\ UNCHANGED <<memtable, immutable, levels>> /\ purged \subseteq purged'
    /\ \A u \in Thread : held'[u] = held[u]

LEMMA RestsStill ==
    ASSUME NEW i, hist'[i] = hist[i], \A l \in Level \ {0} : levels'[l] = levels[l],
           Above(i) => Above(i)'
    PROVE  Deep(i) => Deep(i)'
<1> SUFFICES ASSUME Deep(i) PROVE Deep(i)'
  BY Zenon
<1>1. PICK l \in Level \ {0} : \E h \in levels[l] : Rests(h, l, i)
  BY Zenon DEF Deep
<1>2. PICK h \in levels[l] : Rests(h, l, i)
  BY <1>1, Zenon
<1>3. \E o \in h.data : Covers(o, i)'
  BY <1>2, Zenon DEF Rests, Covers
<1>4. \A m \in Level \ {0} : \A g \in levels'[m] :
         m < l \/ (m = l /\ h.rank <= g.rank) => \A o \in g.data : Suits(o, i)'
  BY <1>2, Zenon DEF Rests, Suits
<1>5. Rests(h, l, i)' /\ h \in levels'[l]
  BY <1>2, <1>3, <1>4, Zenon DEF Rests
<1> QED BY <1>5, Zenon DEF Deep

LEMMA SameKeeps ==
    ASSUME SameStores, NEW i, hist'[i] = hist[i],
           \A j \in DOMAIN hist : j \in DOMAIN hist' /\ hist'[j] = hist[j]
    PROVE  /\ InMemtable(i) => InMemtable(i)'
           /\ Frozen(i) => Frozen(i)'
           /\ OnTables(i) => OnTables(i)'
<1> USE DEF SameStores, Suits, Covers, Fresh, Holds
<1>1. InMemtable(i) => InMemtable(i)'
  BY Zenon DEF InMemtable
<1>2. InImmutable(i) => InImmutable(i)'
  BY DEF InImmutable
<1>3. ListFresh(i) => ListFresh(i)'
  BY Zenon DEF ListFresh
<1>4. InHeld(i) => InHeld(i)'
  BY <1>3, Zenon DEF InHeld
<1>5. InLevel0(i) => InLevel0(i)'
  BY <1>3 DEF InLevel0, Leads
<1>6. Above(i) => Above(i)'
  BY <1>3, Zenon DEF Above
<1>7. Deep(i) => Deep(i)'
  BY <1>6, RestsStill, Zenon
<1>8. Dropped(i) => Dropped(i)'
  BY Zenon DEF Dropped
<1> QED BY <1>1, <1>2, <1>4, <1>5, <1>7, <1>8, Zenon DEF Frozen, OnTables, Sunk

LEMMA ReturnHeld ==
    ASSUME TypeInv, FlushOK, NEW t \in Thread, NEW ids, Return(t, ids), pc[t] \notin Holding
    PROVE  \A u \in Thread : held'[u] = held[u]
<1>1. held[t] = {}
  BY Zenon DEF FlushOK, FlushHand
<1> QED BY <1>1, Zenon DEF Return, TypeInv, LocalsOK

LEMMA EndCompactHeld ==
    ASSUME TypeInv, FlushOK, NEW t \in Thread, EndCompact(t), pc[t] \notin Holding
    PROVE  \A u \in Thread : held'[u] = held[u]
<1>1. CASE call[t] \in {"close", "drop"}
  BY <1>1, Zenon DEF EndCompact
<1>2. CASE call[t] \notin {"close", "drop"}
  BY <1>2, ReturnHeld, Zenon DEF EndCompact
<1> QED BY <1>1, <1>2, Zenon

Moving(t) ==
    \/ Apply(t) \/ Freeze(t) \/ (FlushTake(t) /\ immutable # <<>>) \/ FlushInstall(t)
    \/ CompactInstall(t)

LEMMA SameSteps ==
    ASSUME TypeInv, FlushOK, CompactOK, NEW t \in Thread, ThreadNext(t), ~Moving(t),
           mode' = "up", faults' = 0
    PROVE  SameStores
<1> USE DEF memory, disk, locals, ghosts
<1>1. CASE Put(t) \/ Delete(t) \/ Write(t)
  BY <1>1, Zenon DEF Put, Delete, Write, BeginWrite, SameStores
<1>2. CASE AppendLog(t) \/ SyncLog(t)
  BY <1>2, Zenon DEF AppendLog, SyncLog, SameStores
<1>3. CASE CheckSize(t)
  <2>1. pc[t] \notin Holding /\ UNCHANGED <<memtable, immutable, levels, purged>>
    BY <1>3, Zenon DEF CheckSize, Holding
  <2>2. held' = held \/ Return(t, Ids(batch[t]))
    BY <1>3, Zenon DEF CheckSize
  <2> QED BY <2>1, <2>2, ReturnHeld, Zenon DEF SameStores
<1>4. CASE Flush(t) \/ Close(t) \/ Drop(t) \/ Compact(t)
  BY <1>4, Zenon DEF Flush, Close, Drop, BeginFlush, Compact, SameStores
<1>5. CASE FlushTake(t) \/ FlushCreate(t) \/ FlushBuild(t)
  BY <1>5, Zenon DEF Moving, FlushTake, FlushCreate, FlushBuild, SameStores
<1>6. CASE RotateOpen(t) \/ RotateSwap(t) \/ RotateRemove(t)
  BY <1>6, Zenon DEF RotateOpen, RotateSwap, RotateRemove, SameStores
<1>7. CASE CompactPick(t)
  <2>1. pc[t] \notin Holding /\ UNCHANGED <<memtable, immutable, levels, purged>>
    BY <1>7, Zenon DEF CompactPick, Holding
  <2>2. held' = held \/ EndCompact(t)
    BY <1>7, Zenon DEF CompactPick
  <2> QED BY <2>1, <2>2, EndCompactHeld, Zenon DEF SameStores
<1>8. CASE CompactCreate(t)
  BY <1>8, Zenon DEF CompactCreate, SameStores
<1>9. CASE CompactMerge(t)
  <2>1. pc[t] \notin Holding /\ UNCHANGED <<memtable, immutable, levels>>
    BY <1>9, Zenon DEF CompactMerge, Holding
  <2>2. purged \subseteq purged' /\ (held' = held \/ EndCompact(t))
    BY <1>9, MergeWhole, Zenon DEF MergeTo
  <2> QED BY <2>1, <2>2, EndCompactHeld, Zenon DEF SameStores
<1>10. CASE CompactDelete(t)
  <2>1. pc[t] \notin Holding /\ UNCHANGED <<memtable, immutable, levels, purged>>
    BY <1>10, Zenon DEF CompactDelete, Holding
  <2>2. held' = held \/ EndCompact(t)
    BY <1>10, Zenon DEF CompactDelete
  <2> QED BY <2>1, <2>2, EndCompactHeld, Zenon DEF SameStores
<1>11. CASE CloseSync(t)
  <2>1. pc[t] \notin Holding /\ purged' = purged
    BY <1>11, Zenon DEF CloseSync, Holding
  <2>2. Return(t, {}) /\ UNCHANGED <<memtable, immutable, levels>>
    BY <1>11, Zenon DEF CloseSync, Vanish
  <2> QED BY <2>1, <2>2, ReturnHeld, Zenon DEF SameStores
<1>12. CASE Fail(t)
  BY <1>12, NoFail, Zenon
<1> QED BY <1>1, <1>2, <1>3, <1>4, <1>5, <1>6, <1>7, <1>8, <1>9, <1>10, <1>11, <1>12, Zenon
        DEF ThreadNext, Moving

LEMMA ToppedStep ==
    ASSUME TypeInv, TypeInv', FlushOK, CompactOK, Topped, NEW t \in Thread, ThreadNext(t),
           mode' = "up", faults' = 0
    PROVE  Topped'
<1>1. CASE ~Moving(t)
  BY <1>1, SameSteps, Zenon DEF SameStores, Topped
<1>2. CASE (FlushTake(t) /\ immutable # <<>>) \/ FlushInstall(t) \/ CompactInstall(t)
  BY <1>2, Zenon DEF FlushTake, FlushInstall, CompactInstall, Topped
<1>3. CASE Freeze(t)
  BY <1>3, Zenon DEF Freeze, Topped
<1>4. CASE Apply(t)
  <2> DEFINE p == [op |-> batch[t][applied[t] + 1], seq |-> base[t] + applied[t]]
  <2>1. memtable' = memtable \cup {p}
    BY <1>4, Zenon DEF Apply
  <2>2. \A v \in memtable' : v.seq \in Nat
    BY Zenon DEF TypeInv, MemoryOK, Version
  <2> HIDE DEF p
  <2> SUFFICES ASSUME NEW v \in memtable'
               PROVE  \E w \in memtable' :
                         /\ w.op.key = v.op.key
                         /\ \A u \in memtable' : u.op.key = v.op.key => u.seq <= w.seq
    BY Zenon DEF Topped
  <2>3. CASE \E x \in memtable : x.op.key = v.op.key
    <3>1. PICK w \in memtable :
             /\ w.op.key = v.op.key
             /\ \A u \in memtable : u.op.key = v.op.key => u.seq <= w.seq
      BY <2>3, Zenon DEF Topped
    <3>2. CASE p.op.key = v.op.key /\ w.seq <= p.seq
      BY <2>1, <2>2, <3>1, <3>2, SMTT(30)
    <3>3. CASE ~(p.op.key = v.op.key /\ w.seq <= p.seq)
      BY <2>1, <2>2, <3>1, <3>3, SMTT(30)
    <3> QED BY <3>2, <3>3, Zenon
  <2>4. CASE ~\E x \in memtable : x.op.key = v.op.key
    BY <2>1, <2>2, <2>4, SMTT(30)
  <2> QED BY <2>3, <2>4, Zenon
<1> QED BY <1>1, <1>2, <1>3, <1>4, Zenon DEF Moving

(* The MemTable grows by an operation that has not returned.               *)
LEMMA ApplyKeeps ==
    ASSUME SeqInv, TypeInv', HistOK, BatchOK, Numbered, FlushOK, NEW t \in Thread, Apply(t),
           NEW i \in DOMAIN hist
    PROVE  /\ InMemtable(i) => InMemtable(i)'
           /\ Frozen(i) => Frozen(i)'
           /\ OnTables(i) => OnTables(i)'
<1> DEFINE p == Entry(t)
<1>0. TypeInv
  BY Zenon DEF SeqInv
<1>1. /\ memtable' = memtable \cup {p} /\ UNCHANGED <<immutable, hist, levels, purged>>
      /\ p.op.id \notin acked
  BY EntryFacts, Zenon DEF Apply
<1>2. \A u \in Thread : held'[u] = held[u]
  <2>1. pc[t] \notin Holding
    BY Zenon DEF Apply, Holding
  <2>2. held' = held \/ Return(t, Ids(batch[t]))
    BY Zenon DEF Apply
  <2> QED BY <1>0, <2>1, <2>2, ReturnHeld, Zenon
<1>3. p.op.id \notin hist[i].after
  BY <1>1, Zenon DEF HistOK
<1>4. \A v \in memtable' : v.seq \in Nat
  BY Zenon DEF TypeInv, MemoryOK, Version
<1> HIDE DEF p
<1>5. FlushContents(memtable') \subseteq FlushContents(memtable) \cup {p.op}
  BY <1>1, Zenon DEF FlushContents
<1>6. Fresh(memtable, i) => Fresh(memtable, i)'
  BY <1>1, <1>3, <1>5, Zenon DEF Fresh, Suits
<1>7. Holds(memtable, i) => Holds(memtable, i)'
  <2> SUFFICES ASSUME NEW o \in FlushContents(memtable), Covers(o, i)
               PROVE  \E q \in FlushContents(memtable') : Covers(q, i)
    BY <1>1, Zenon DEF Holds, Covers
  <2>1. PICK w \in memtable :
           o = w.op /\ \A u \in memtable : u.op.key = w.op.key => u.seq <= w.seq
    BY Zenon DEF FlushContents
  <2>2. CASE p.op.key = w.op.key /\ w.seq <= p.seq
    <3>1. \A u \in memtable' : u.op.key = p.op.key => u.seq <= p.seq
      BY <1>1, <1>4, <2>1, <2>2, SMTT(30)
    <3>2. p.op \in FlushContents(memtable')
      BY <1>1, <3>1, Zenon DEF FlushContents
    <3> QED BY <1>3, <2>1, <2>2, <3>2, Zenon DEF Covers
  <2>3. CASE ~(p.op.key = w.op.key /\ w.seq <= p.seq)
    <3>1. \A u \in memtable' : u.op.key = w.op.key => u.seq <= w.seq
      BY <1>1, <1>4, <2>1, <2>3, SMTT(30)
    <3>2. o \in FlushContents(memtable')
      BY <1>1, <2>1, <3>1, Zenon DEF FlushContents
    <3> QED BY <3>2, Zenon
  <2> QED BY <2>2, <2>3, Zenon
<1>8. InMemtable(i) => InMemtable(i)'
  BY <1>6, <1>7, Zenon DEF InMemtable
<1>9. InImmutable(i) => InImmutable(i)'
  BY <1>1, <1>6, Zenon DEF InImmutable, Fresh, Holds, Suits, Covers
<1>10. ListFresh(i) => ListFresh(i)'
  BY <1>1, <1>6, Zenon DEF ListFresh, Fresh, Suits
<1>11. InHeld(i) => InHeld(i)'
  BY <1>1, <1>2, <1>10, Zenon DEF InHeld, Fresh, Holds, Suits, Covers
<1>12. InLevel0(i) => InLevel0(i)'
  BY <1>1, <1>2, <1>10, SMTT(30) DEF InLevel0, Leads, Fresh, Suits, Covers
<1>13. Above(i) => Above(i)'
  BY <1>1, <1>2, <1>10, Zenon DEF Above, Fresh, Suits
<1>14. Deep(i) => Deep(i)'
  BY <1>1, <1>13, RestsStill, Zenon
<1>15. Dropped(i) => Dropped(i)'
  BY <1>1, Zenon DEF Dropped, Covers
<1> QED BY <1>8, <1>9, <1>11, <1>12, <1>14, <1>15, Zenon DEF Frozen, OnTables, Sunk

(* The operation inserted is the newest of its key.                        *)
LEMMA ApplyHolds ==
    ASSUME SeqInv, TypeInv', HistOK, BatchOK, Numbered, Topped', NEW t \in Thread, Apply(t),
           NEW i, i = Entry(t).op.id
    PROVE  InMemtable(i)'
<1> DEFINE p == Entry(t)
<1>1. /\ memtable' = memtable \cup {p} /\ hist' = hist
      /\ p.seq = i /\ i \in Nat /\ i \in DOMAIN hist /\ hist[i].op = p.op
  BY EntryFacts, Zenon
<1>2. \A v \in memtable' : v.seq \in Nat /\ v.seq = v.op.id
  <2>1. \A v \in memtable' : v.seq \in Nat
    BY Zenon DEF TypeInv, MemoryOK, Version
  <2>2. \A v \in memtable : v.seq = v.op.id
    BY Zenon DEF Numbered, MemoryVersions
  <2> QED BY <1>1, <2>1, <2>2, Zenon
<1>3. \A j \in hist[i].after : j < i
  BY <1>1, Zenon DEF HistOK
<1> HIDE DEF p
<1>4. ASSUME NEW v \in memtable', v.op.key = p.op.key,
             \A u \in memtable' : u.op.key = v.op.key => u.seq <= v.seq
      PROVE  v.op.id \notin hist[i].after
  <2>1. i <= v.op.id /\ v.op.id \in Nat
    BY <1>1, <1>2, <1>4, Zenon
  <2> QED BY <1>1, <1>3, <2>1, SMTT(30)
<1>5. Fresh(memtable', i)
  BY <1>1, <1>4, Zenon DEF Fresh, Suits, FlushContents
<1>6. Holds(memtable', i)
  <2>1. PICK w \in memtable' :
           /\ w.op.key = p.op.key
           /\ \A u \in memtable' : u.op.key = p.op.key => u.seq <= w.seq
    BY <1>1, Zenon DEF Topped
  <2>2. w.op \in FlushContents(memtable')
    BY <2>1, Zenon DEF FlushContents
  <2>3. w.op.id \notin hist[i].after
    BY <1>4, <2>1, Zenon
  <2> QED BY <1>1, <2>1, <2>2, <2>3, Zenon DEF Holds, Covers
<1> QED BY <1>1, <1>5, <1>6, Zenon DEF InMemtable, Fresh, Holds, Suits, Covers

(* The MemTable becomes the newest of the immutable ones.                  *)
LEMMA FreezeKeeps ==
    ASSUME TypeInv, TypeInv', FlushOK, NEW t \in Thread, Freeze(t), NEW i
    PROVE  /\ InMemtable(i) => Frozen(i)'
           /\ Frozen(i) => Frozen(i)'
           /\ OnTables(i) => OnTables(i)'
<1> DEFINE n == Len(immutable)
<1>1. /\ immutable' = Append(immutable, memtable) /\ memtable' = {}
      /\ UNCHANGED <<hist, levels, purged>>
  BY Zenon DEF Freeze
<1>2. \A u \in Thread : held'[u] = held[u]
  <2>1. pc[t] \notin Holding
    BY Zenon DEF Freeze, Holding
  <2>2. held' = held \/ Return(t, Ids(batch[t]))
    BY Zenon DEF Freeze, locals
  <2> QED BY <2>1, <2>2, ReturnHeld, Zenon
<1>3. /\ n \in Nat /\ DOMAIN immutable = 1 .. n /\ DOMAIN immutable' = 1 .. n + 1
      /\ immutable'[n + 1] = memtable /\ \A m \in 1 .. n : immutable'[m] = immutable[m]
  BY <1>1 DEF TypeInv, MemoryOK
<1> HIDE DEF n
<1>4. \A m \in DOMAIN immutable' : m = n + 1 \/ (m \in DOMAIN immutable /\ m < n + 1)
  BY <1>3
<1>5. n + 1 \in DOMAIN immutable' /\ \A m \in DOMAIN immutable : m \in DOMAIN immutable'
  BY <1>3
<1>6. Fresh(memtable, i)'
  BY <1>1, Zenon DEF Fresh, FlushContents
<1>7. \A m \in DOMAIN immutable : immutable'[m] = immutable[m]
  BY <1>3, Zenon
<1>8. ListFresh(i) => ListFresh(i)'
  <2> SUFFICES ASSUME ListFresh(i), NEW m \in DOMAIN immutable' PROVE Fresh(immutable'[m], i)
    BY <1>1, <1>6, Zenon DEF ListFresh, Fresh, Suits
  <2>1. immutable'[m] = memtable \/ (m \in DOMAIN immutable /\ immutable'[m] = immutable[m])
    BY <1>3, <1>4, <1>7, Zenon
  <2> QED BY <2>1, Zenon DEF ListFresh
<1>9. InMemtable(i) => InImmutable(i)'
  <2> SUFFICES ASSUME InMemtable(i)
               PROVE  \E j \in DOMAIN immutable' :
                         /\ Holds(immutable'[j], i)
                         /\ \A m \in DOMAIN immutable' : j <= m => Fresh(immutable'[m], i)
    BY <1>1, <1>6, Zenon DEF InImmutable, Fresh, Holds, Suits, Covers
  <2>1. Holds(immutable'[n + 1], i) /\ Fresh(immutable'[n + 1], i)
    BY <1>3, Zenon DEF InMemtable
  <2>2. \A m \in DOMAIN immutable' : n + 1 <= m => m = n + 1
    BY <1>3
  <2> QED BY <1>5, <2>1, <2>2, Zenon
<1>10. InImmutable(i) => InImmutable(i)'
  <2> SUFFICES ASSUME InImmutable(i)
               PROVE  \E j \in DOMAIN immutable' :
                         /\ Holds(immutable'[j], i)
                         /\ \A m \in DOMAIN immutable' : j <= m => Fresh(immutable'[m], i)
    BY <1>1, <1>6, Zenon DEF InImmutable, Fresh, Holds, Suits, Covers
  <2>1. PICK j \in DOMAIN immutable :
           /\ Holds(immutable[j], i)
           /\ \A m \in DOMAIN immutable : j <= m => Fresh(immutable[m], i)
    BY Zenon DEF InImmutable
  <2>2. Holds(immutable'[j], i) /\ j \in DOMAIN immutable'
    BY <1>3, <1>5, <2>1, Zenon
  <2>3. Fresh(memtable, i)
    BY Zenon DEF InImmutable
  <2>4. \A m \in DOMAIN immutable' : j <= m => Fresh(immutable'[m], i)
    BY <1>3, <1>4, <2>1, <2>3, Zenon
  <2> QED BY <2>2, <2>4, Zenon
<1>11. InHeld(i) => InHeld(i)'
  BY <1>1, <1>2, <1>8, ZenonT(40) DEF InHeld, Fresh, Holds, Suits, Covers
<1>12. InLevel0(i) => InLevel0(i)'
  BY <1>1, <1>2, <1>8, SMTT(30) DEF InLevel0, Leads, Fresh, Suits, Covers
<1>13. Above(i) => Above(i)'
  BY <1>1, <1>2, <1>8, Zenon DEF Above, Fresh, Suits
<1>14. Deep(i) => Deep(i)'
  BY <1>1, <1>13, RestsStill, Zenon
<1>15. Dropped(i) => Dropped(i)'
  BY <1>1, Zenon DEF Dropped, Covers
<1> QED BY <1>9, <1>10, <1>11, <1>12, <1>14, <1>15, Zenon DEF Frozen, OnTables, Sunk

LEMMA EmptyFresh == \A i : Fresh({}, i) /\ ~Holds({}, i)
BY Zenon DEF Fresh, Holds, FlushContents

(* The oldest immutable MemTable goes into the hands of the flush.         *)
LEMMA TakeKeeps ==
    ASSUME TypeInv, TypeInv', CallsMatch, OneFlush, FlushOK, NEW t \in Thread, FlushTake(t),
           immutable # <<>>, NEW i
    PROVE  /\ InMemtable(i) => InMemtable(i)'
           /\ Frozen(i) => Frozen(i)'
           /\ OnTables(i) => OnTables(i)'
<1> DEFINE n == Len(immutable)
<1>1. /\ immutable' = Tail(immutable) /\ held' = [held EXCEPT ![t] = Head(immutable)]
      /\ UNCHANGED <<memtable, hist, levels, purged>> /\ pc[t] = "take"
  BY Zenon DEF FlushTake, ghosts
<1>2. /\ n \in Nat /\ n >= 1 /\ DOMAIN immutable = 1 .. n /\ DOMAIN immutable' = 1 .. n - 1
      /\ \A m \in 1 .. n - 1 : immutable'[m] = immutable[m + 1]
      /\ Head(immutable) = immutable[1]
  BY <1>1, SMTT(30) DEF TypeInv, MemoryOK
<1> HIDE DEF n
<1>3. /\ held'[t] = immutable[1] /\ \A u \in Thread \ {t} : held'[u] = held[u]
  BY <1>1, <1>2, Zenon DEF TypeInv, LocalsOK
<1>4. call[t] \in Flushes
  BY <1>1, InsideFlushes, Zenon
<1>5. \A u \in Thread : held[u] = {}
  BY <1>1, <1>4, OthersAway, Zenon DEF FlushOK, FlushHand, Holding
<1>6. \A m \in DOMAIN immutable' :
          m + 1 \in DOMAIN immutable /\ immutable'[m] = immutable[m + 1]
  BY <1>2
<1>7. 1 \in DOMAIN immutable
  BY <1>2
<1>8. InMemtable(i) => InMemtable(i)'
  BY <1>1, Zenon DEF InMemtable, Fresh, Holds, Suits, Covers
<1>9. ListFresh(i) => ListFresh(i)' /\ \A u \in Thread : Fresh(held'[u], i)
  <2> SUFFICES ASSUME ListFresh(i)
               PROVE  ListFresh(i)' /\ \A u \in Thread : Fresh(held'[u], i)
    BY Zenon
  <2>1. \A m \in DOMAIN immutable' : Fresh(immutable'[m], i)
    BY <1>6, Zenon DEF ListFresh
  <2>2. ListFresh(i)'
    <3>1. Fresh(memtable', i)
      BY <1>1, Zenon DEF ListFresh
    <3> QED BY <1>1, <2>1, <3>1, Zenon DEF ListFresh, Fresh, Suits
  <2>3. \A u \in Thread : Fresh(held'[u], i)
    <3>1. Fresh(held'[t], i)
      BY <1>3, <1>7, Zenon DEF ListFresh
    <3>2. \A u \in Thread \ {t} : held'[u] = {}
      BY <1>3, <1>5, Zenon
    <3> QED BY <3>1, <3>2, EmptyFresh, Zenon
  <2> QED BY <2>2, <2>3, Zenon
<1>10. ~InHeld(i)
  BY <1>5, EmptyFresh, Zenon DEF InHeld
<1>11. InImmutable(i) => InImmutable(i)' \/ InHeld(i)'
  <2> SUFFICES ASSUME InImmutable(i) PROVE InImmutable(i)' \/ InHeld(i)'
    BY Zenon
  <2>1. PICK j \in DOMAIN immutable :
           /\ Holds(immutable[j], i)
           /\ \A m \in DOMAIN immutable : j <= m => Fresh(immutable[m], i)
    BY Zenon DEF InImmutable
  <2>2. CASE j = 1
    <3>1. \A m \in DOMAIN immutable : Fresh(immutable[m], i)
      BY <1>2, <2>1, <2>2, SMTT(30)
    <3>2. ListFresh(i)' /\ Fresh(held'[t], i)
      BY <1>9, <3>1, Zenon DEF ListFresh, InImmutable
    <3>3. Holds(held'[t], i)
      BY <1>3, <2>1, <2>2, Zenon
    <3> QED BY <1>1, <3>2, <3>3, ZenonT(40) DEF InHeld, Fresh, Holds, Suits, Covers
  <2>3. CASE j # 1
    <3>1. j - 1 \in DOMAIN immutable' /\ immutable'[j - 1] = immutable[j]
      BY <1>2, <2>1, <2>3, SMTT(30)
    <3>2. \A m \in DOMAIN immutable' : j - 1 <= m => j <= m + 1
      BY <1>2, <2>1
    <3>3. \A m \in DOMAIN immutable' : j - 1 <= m => Fresh(immutable'[m], i)
      BY <1>6, <2>1, <3>2, Zenon
    <3>4. Holds(immutable'[j - 1], i)
      BY <2>1, <3>1, Zenon
    <3>5. \E k \in DOMAIN immutable' :
             /\ Holds(immutable'[k], i)
             /\ \A m \in DOMAIN immutable' : k <= m => Fresh(immutable'[m], i)
      BY <3>1, <3>3, <3>4, Zenon
    <3>6. Fresh(memtable', i)
      BY <1>1, Zenon DEF InImmutable
    <3> QED BY <1>1, <3>5, <3>6, Zenon DEF InImmutable, Fresh, Holds, Suits, Covers
  <2> QED BY <2>2, <2>3, Zenon
<1>12. InLevel0(i) => InLevel0(i)'
  <2> SUFFICES ASSUME InLevel0(i) PROVE InLevel0(i)'
    BY Zenon
  <2>1. PICK h \in levels[0] : Leads(h, i)
    BY Zenon DEF InLevel0
  <2>2. h \in levels'[0] /\ Leads(h, i)'
    BY <1>1, <2>1, Zenon DEF Leads, Suits, Covers
  <2>3. ListFresh(i)' /\ \A u \in Thread : Fresh(held[u], i)'
    BY <1>1, <1>9, Zenon DEF InLevel0, Fresh, Suits
  <2> QED BY <2>2, <2>3, Zenon DEF InLevel0
<1>13. Above(i) => Above(i)'
  BY <1>1, <1>9, Zenon DEF Above, Fresh, Suits
<1>14. Deep(i) => Deep(i)'
  BY <1>1, <1>13, RestsStill, Zenon
<1>15. Dropped(i) => Dropped(i)'
  BY <1>1, Zenon DEF Dropped, Covers
<1> QED BY <1>8, <1>10, <1>11, <1>12, <1>14, <1>15, Zenon DEF Frozen, OnTables, Sunk

(* The new table stands before the other ones of level 0.                  *)
LEMMA InstallKeeps ==
    ASSUME TypeInv, TypeInv', CallsMatch, OneFlush, FlushOK, NEW t \in Thread, FlushInstall(t),
           NEW i
    PROVE  /\ InMemtable(i) => InMemtable(i)'
           /\ Frozen(i) => Frozen(i)'
           /\ OnTables(i) => OnTables(i)'
<1> DEFINE r == Reader(t, -(rank + 1))
<1>1. /\ pc[t] = "install" /\ UNCHANGED <<memtable, immutable, hist, purged>>
      /\ held'[t] = {} /\ \A u \in Thread \ {t} : held'[u] = held[u]
  BY Zenon DEF FlushInstall, ghosts, TypeInv, LocalsOK
<1>2. levels'[0] = levels[0] \cup {r} /\ \A l \in Level \ {0} : levels'[l] = levels[l]
  BY LevelFacts, Zenon DEF FlushInstall, TypeInv, MemoryOK
<1>3. r.data = FlushContents(held[t]) /\ r.rank = -(rank + 1)
  BY <1>1, Zenon DEF FlushOK, FlushHand, Reader
<1> HIDE DEF r
<1>4. \A g \in levels[0] : ~(g.rank <= r.rank)
  <2>1. rank \in Nat /\ \A g \in levels[0] : g.rank \in Int
    BY LevelFacts DEF TypeInv, MemoryOK, Handle
  <2>2. \A g \in levels[0] : -rank <= g.rank
    BY Zenon DEF FlushOK
  <2> QED BY <1>3, <2>1, <2>2, SMTT(30)
<1>5. \A g \in levels'[0] \ {r} : ~(g.rank <= r.rank)
  BY <1>2, <1>4, Zenon
<1>6. call[t] \in Flushes
  BY <1>1, InsideFlushes, Zenon DEF Inside, Holding
<1>7. \A u \in Thread \ {t} : held[u] = {}
  BY <1>6, OthersAway, Zenon
<1>8. \A u \in Thread : Fresh(held'[u], i)
  BY <1>1, <1>7, EmptyFresh, Zenon
<1>9. ListFresh(i) => ListFresh(i)'
  BY <1>1, Zenon DEF ListFresh, Fresh, Suits
<1>10. InMemtable(i) => InMemtable(i)'
  BY <1>1, Zenon DEF InMemtable, Fresh, Holds, Suits, Covers
<1>11. InImmutable(i) => InImmutable(i)'
  BY <1>1, Zenon DEF InImmutable, Fresh, Holds, Suits, Covers
<1>12. ASSUME ListFresh(i), NEW h \in levels'[0],
              \E o \in h.data : Covers(o, i), \A o \in h.data : Suits(o, i),
              \A g \in levels'[0] \ {h} :
                  g.rank <= h.rank => \A o \in g.data : o.key # hist[i].op.key
       PROVE  InLevel0(i)'
  BY <1>1, <1>8, <1>9, <1>12, Zenon DEF InLevel0, Leads, Fresh, Suits, Covers
<1>13. InHeld(i) => InLevel0(i)'
  <2> SUFFICES ASSUME InHeld(i) PROVE InLevel0(i)'
    BY Zenon
  <2>1. Holds(held[t], i) /\ Fresh(held[t], i) /\ ListFresh(i)
    BY <1>7, EmptyFresh, Zenon DEF InHeld
  <2>2. (\E o \in r.data : Covers(o, i)) /\ \A o \in r.data : Suits(o, i)
    BY <1>3, <2>1, Zenon DEF Holds, Fresh
  <2> QED BY <1>2, <1>5, <1>12, <2>1, <2>2, Zenon
<1>14. InLevel0(i) => InLevel0(i)'
  <2> SUFFICES ASSUME InLevel0(i) PROVE InLevel0(i)'
    BY Zenon
  <2>1. ListFresh(i) /\ \A o \in r.data : Suits(o, i)
    BY <1>3, Zenon DEF InLevel0, Fresh
  <2>2. PICK h \in levels[0] : Leads(h, i)
    BY Zenon DEF InLevel0
  <2>3. CASE \E o \in r.data : o.key = hist[i].op.key
    <3>1. \E o \in r.data : Covers(o, i)
      BY <2>1, <2>3, Zenon DEF Suits, Covers
    <3> QED BY <1>2, <1>5, <1>12, <2>1, <3>1, Zenon
  <2>4. CASE ~\E o \in r.data : o.key = hist[i].op.key
    <3>1. /\ h \in levels'[0]
          /\ \A g \in levels'[0] \ {h} :
                g.rank <= h.rank => \A o \in g.data : o.key # hist[i].op.key
      BY <1>2, <2>2, <2>4, Zenon DEF Leads
    <3>2. (\E o \in h.data : Covers(o, i)) /\ \A o \in h.data : Suits(o, i)
      BY <2>2, Zenon DEF Leads
    <3> QED BY <1>12, <2>1, <3>1, <3>2, Zenon
  <2> QED BY <2>3, <2>4, Zenon
<1>15. Above(i) => Above(i)'
  <2>1. Above(i) => \A o \in r.data : Suits(o, i)
    BY <1>3, Zenon DEF Above, Fresh
  <2> QED BY <1>1, <1>2, <1>8, <1>9, <2>1, Zenon DEF Above, Fresh, Suits
<1>16. Deep(i) => Deep(i)'
  BY <1>1, <1>2, <1>15, RestsStill, Zenon
<1>17. Dropped(i) => Dropped(i)'
  BY <1>1, Zenon DEF Dropped, Covers
<1> QED BY <1>10, <1>11, <1>13, <1>14, <1>16, <1>17, Zenon DEF Frozen, OnTables, Sunk

(* What the merge wins goes one level down; what it drops is purged.       *)
LEMMA CompactKeeps ==
    ASSUME TypeInv, TypeInv', CompactOK, LevelsKnown, NEW t \in Thread, CompactInstall(t), NEW i
    PROVE  /\ InMemtable(i) => InMemtable(i)'
           /\ Frozen(i) => Frozen(i)'
           /\ OnTables(i) => OnTables(i)'
<1> DEFINE lv == task[t].level
           ins == task[t].inputs
           r == Reader(t, rank + 1)
<1>1. /\ pc[t] = "cinstall" /\ UNCHANGED <<memtable, immutable, hist, purged, held>>
      /\ levels' = [levels EXCEPT ![lv] = @ \ ins, ![lv + 1] = @ \cup {r}]
  BY Zenon DEF CompactInstall, ghosts, locals
<1>2. /\ lv \in Level /\ lv + 1 \in Level \ {0} /\ lv # lv + 1 /\ (lv # 0 => lv \in Level \ {0})
      /\ \A m \in Level \ {0} : m < lv + 1 => m < lv \/ m = lv
      /\ \A m \in Level : m < lv + 1 => m # lv + 1
      /\ \A l \in Level : lv + 1 < l \/ lv + 1 = l => lv < l
  <2>1. lv \in Level /\ lv + 1 \in Level
    BY FileTypes, Zenon
  <2> QED BY <2>1 DEF Level
<1>3. /\ levels'[lv] = levels[lv] \ ins /\ levels'[lv + 1] = levels[lv + 1] \cup {r}
      /\ \A l \in Level \ {lv, lv + 1} : levels'[l] = levels[l]
  BY <1>1, <1>2, Zenon DEF TypeInv, MemoryOK
<1>4. /\ ins \subseteq levels[lv] /\ (lv = 0 => ins = levels[0])
      /\ lv # 0 => \A g \in ins : \A h \in levels[lv] : g.rank <= h.rank
      /\ r.data = MergeOutput(MergeWinners(ins), lv + 1) /\ Losers(ins) \subseteq purged
  BY <1>1, Zenon DEF CompactOK, MergeHand, Merging, Reader
<1>5. r.rank = rank + 1 /\ rank \in Nat /\ \A g \in levels[lv + 1] : g.rank <= rank /\ g.rank \in Int
  <2>1. rank \in Nat /\ \A g \in levels[lv + 1] : g \in Handle
    BY <1>2, FileTypes, Zenon
  <2>2. \A g \in levels[lv + 1] : g.rank \in Int
    BY <2>1 DEF Handle
  <2> QED BY <1>2, <2>1, <2>2, Zenon DEF CompactOK, Reader
<1>6. \A g \in levels[lv + 1] : ~(r.rank <= g.rank)
  BY <1>5
<1> HIDE DEF r, lv, ins
<1>7. /\ \A o \in MergeWinners(ins) : \E g \in ins : o \in g.data
      /\ r.data \subseteq MergeWinners(ins)
  BY <1>4, Zenon DEF MergeOutput, MergeWinners
<1>8. ASSUME Above(i)', NEW o \in MergeWinners(ins), Covers(o, i),
             \A p \in r.data : Suits(p, i),
             \A m \in Level \ {0} : m < lv \/ m = lv
                => \A g \in levels[m] : \A p \in g.data : Suits(p, i)
      PROVE  Sunk(i)'
  <2>1. CASE o \in r.data
    <3>1. \A m \in Level \ {0} : \A g \in levels'[m] :
             m < lv + 1 => g \in levels[m] /\ (m < lv \/ m = lv)
      BY <1>2, <1>3, Zenon
    <3>2. \A m \in Level \ {0} : \A g \in levels'[m] :
             m < lv + 1 \/ (m = lv + 1 /\ r.rank <= g.rank) => \A p \in g.data : Suits(p, i)
      BY <1>3, <1>6, <1>8, <3>1, Zenon
    <3>3. PICK l \in Level \ {0} : l = lv + 1
      BY <1>2, Zenon
    <3>4. PICK h \in levels'[l] : h = r
      BY <1>3, <3>3, Zenon
    <3>5. \A m \in Level \ {0} : \A g \in levels'[m] :
             m < l \/ (m = l /\ h.rank <= g.rank) => \A p \in g.data : Suits(p, i)
      BY <3>2, <3>3, <3>4, Zenon
    <3>6. Rests(h, l, i)'
      BY <1>1, <1>8, <2>1, <3>4, <3>5, Zenon DEF Rests, Suits, Covers
    <3> QED BY <1>8, <3>6, Zenon DEF Sunk, Deep
  <2>2. CASE o \notin r.data
    <3>1. o \in purged /\ o.kind # "put"
      BY <1>4, <2>2, Zenon DEF MergeOutput, Losers
    <3>2. Known(o)
      BY <1>2, <1>4, <1>7, Zenon DEF LevelsKnown
    <3>3. PICK j \in DOMAIN hist : hist[j].op = o
      BY <3>2, Zenon DEF Known
    <3>4. hist[j].op \in purged /\ hist[j].op.kind # "put" /\ Covers(hist[j].op, i)
      BY <1>8, <3>1, <3>3, Zenon
    <3>5. Dropped(i)'
      BY <1>1, <3>4, Zenon DEF Dropped, Covers
    <3> QED BY <3>5, Zenon DEF Sunk
  <2> QED BY <2>1, <2>2, Zenon
<1>9. InMemtable(i) => InMemtable(i)'
  BY <1>1, Zenon DEF InMemtable, Fresh, Holds, Suits, Covers
<1>10. InImmutable(i) => InImmutable(i)'
  BY <1>1, Zenon DEF InImmutable, Fresh, Holds, Suits, Covers
<1>11. /\ ListFresh(i) => ListFresh(i)'
       /\ (\A u \in Thread : Fresh(held[u], i)) => \A u \in Thread : Fresh(held[u], i)'
  BY <1>1, Zenon DEF ListFresh, Fresh, Suits
<1>12. InHeld(i) => InHeld(i)'
  BY <1>1, <1>11, Zenon DEF InHeld, Fresh, Holds, Suits, Covers
<1>13. lv # 0 => levels'[0] = levels[0]
  BY <1>2, <1>3, LevelFacts, Zenon
<1>14. lv = 0 => levels'[0] = {}
  BY <1>3, <1>4, Zenon
<1>15. InLevel0(i) => OnTables(i)'
  <2> SUFFICES ASSUME InLevel0(i) PROVE OnTables(i)'
    BY Zenon
  <2>1. PICK h \in levels[0] : Leads(h, i)
    BY Zenon DEF InLevel0
  <2>2. CASE lv = 0
    <3>1. PICK o \in h.data : Covers(o, i)
      BY <2>1, Zenon DEF Leads
    <3>2. \A g \in ins : g \in Handle /\ h \in Handle
      BY <1>4, <2>2, FileTypes, LevelFacts, Zenon
    <3>3. \A g \in ins : h.rank < g.rank \/ g.rank <= h.rank
      BY <3>2 DEF Handle
    <3>4. o \in MergeWinners(ins)
      BY <1>4, <2>1, <2>2, <3>1, <3>2, SMTT(30) DEF Leads, Covers, MergeWinners, Handle
    <3>5. \A p \in MergeWinners(ins) : Suits(p, i)
      <4> SUFFICES ASSUME NEW p \in MergeWinners(ins), p.key = hist[i].op.key
                   PROVE  Suits(p, i)
        BY Zenon DEF Suits
      <4>1. PICK g \in ins : p \in g.data /\ \A f \in ins : f.rank < g.rank => \A q \in f.data : q.key # p.key
        BY Zenon DEF MergeWinners
      <4>2. ~(h.rank < g.rank)
        BY <1>4, <2>2, <3>1, <4>1, Zenon DEF Covers
      <4>3. g = h
        BY <1>4, <2>1, <2>2, <3>3, <4>1, <4>2, Zenon DEF Leads
      <4> QED BY <2>1, <4>1, <4>3, Zenon DEF Leads
    <3>6. Above(i)'
      BY <1>11, <1>14, <2>2, Zenon DEF Above, InLevel0
    <3>7. \A m \in Level \ {0} : ~(m < lv \/ m = lv)
      BY <2>2 DEF Level
    <3> QED BY <1>7, <1>8, <3>1, <3>4, <3>5, <3>6, <3>7, Zenon DEF OnTables
  <2>3. CASE lv # 0
    <3>1. h \in levels'[0] /\ Leads(h, i)'
      BY <1>1, <1>13, <2>1, <2>3, Zenon DEF Leads, Suits, Covers
    <3> QED BY <1>11, <3>1, Zenon DEF OnTables, InLevel0
  <2> QED BY <2>2, <2>3, Zenon
<1>16. Above(i) => Above(i)'
  BY <1>1, <1>11, <1>13, <1>14, Zenon DEF Above, Suits
<1>17. Dropped(i) => Dropped(i)'
  BY <1>1, Zenon DEF Dropped, Covers
<1>18. Deep(i) => Sunk(i)'
  <2> SUFFICES ASSUME Deep(i) PROVE Sunk(i)'
    BY Zenon
  <2>1. Above(i) /\ Above(i)'
    BY <1>16, Zenon DEF Deep
  <2>2. PICK l \in Level \ {0} : \E h \in levels[l] : Rests(h, l, i)
    BY Zenon DEF Deep
  <2>3. PICK h \in levels[l] : Rests(h, l, i)
    BY <2>2, Zenon
  <2>4. PICK o \in h.data : Covers(o, i)
    BY <2>3, Zenon DEF Rests
  <2>5. CASE l = lv /\ h \in ins
    <3>1. lv # 0 /\ \A g \in levels[lv] : h.rank <= g.rank
      BY <1>4, <2>5, Zenon
    <3>2. \A m \in Level \ {0} : m < lv \/ m = lv => \A g \in levels[m] : \A p \in g.data : Suits(p, i)
      BY <2>3, <2>5, <3>1, Zenon DEF Rests
    <3>3. \A p \in r.data : Suits(p, i)
      BY <1>2, <1>4, <1>7, <3>1, <3>2, Zenon
    <3>4. \A g \in ins : g \in Handle
      BY <1>2, <1>4, FileTypes, Zenon
    <3>5. \A g \in ins : ~(g.rank < h.rank)
      BY <1>4, <2>5, <3>1, <3>4, SMTT(30) DEF Handle
    <3>6. o \in MergeWinners(ins)
      BY <2>4, <2>5, <3>5, Zenon DEF MergeWinners
    <3> QED BY <1>8, <2>1, <2>4, <3>2, <3>3, <3>6, Zenon
  <2>6. CASE ~(l = lv /\ h \in ins)
    <3>1. h \in levels'[l]
      BY <1>2, <1>3, <2>6, Zenon
    <3>2. lv < l => \A p \in r.data : Suits(p, i)
      <4>1. CASE lv = 0
        BY <1>4, <1>7, <2>1, <4>1, Zenon DEF Above
      <4>2. CASE lv # 0
        BY <1>2, <1>4, <1>7, <2>3, <4>2, Zenon DEF Rests
      <4> QED BY <4>1, <4>2, Zenon
    <3>3. \A m \in Level \ {0} : \A g \in levels'[m] : g \in levels[m] \/ (m = lv + 1 /\ g = r)
      BY <1>2, <1>3, Zenon
    <3>4. \A m \in Level \ {0} : \A g \in levels'[m] :
             m < l \/ (m = l /\ h.rank <= g.rank) => \A p \in g.data : Suits(p, i)
      BY <1>2, <2>3, <3>2, <3>3, Zenon DEF Rests
    <3>5. Rests(h, l, i)'
      BY <1>1, <2>4, <3>4, Zenon DEF Rests, Suits, Covers
    <3> QED BY <2>1, <3>1, <3>5, Zenon DEF Sunk, Deep
  <2> QED BY <2>5, <2>6, Zenon
<1> QED BY <1>9, <1>10, <1>12, <1>15, <1>17, <1>18, Zenon DEF Frozen, OnTables, Sunk

(* Flushes and merges write operations of the history.                     *)
LEMMA LevelsKnownStep ==
    ASSUME TypeInv, TypeInv', Numbered, FlushOK, CompactOK, LevelsKnown,
           NEW t \in Thread, ThreadNext(t), mode' = "up", faults' = 0
    PROVE  LevelsKnown'
<1>1. \A o : Known(o) => Known(o)'
  BY HistGrows, Zenon DEF Known
<1>2. ASSUME UNCHANGED levels PROVE LevelsKnown'
  BY <1>1, <1>2, Zenon DEF LevelsKnown
<1>3. CASE ~Moving(t)
  BY <1>2, <1>3, SameSteps, Zenon DEF SameStores
<1>4. CASE Apply(t) \/ Freeze(t) \/ FlushTake(t)
  BY <1>2, <1>4, Zenon DEF Apply, Freeze, FlushTake
<1>5. CASE FlushInstall(t)
  <2>1. /\ levels'[0] = levels[0] \cup {Reader(t, -(rank + 1))}
        /\ \A l \in Level \ {0} : levels'[l] = levels[l]
    BY <1>5, LevelFacts, Zenon DEF FlushInstall, TypeInv, MemoryOK
  <2>2. Reader(t, -(rank + 1)).data = FlushContents(held[t])
    BY <1>5, Zenon DEF FlushOK, FlushHand, FlushInstall, Reader
  <2>3. \A v \in held[t] : Known(v.op)
    BY InMemoryVersions, Zenon DEF Numbered, Known
  <2>4. \A o \in FlushContents(held[t]) : Known(o)
    BY <2>3, Zenon DEF FlushContents
  <2>5. \A l \in Level : \A h \in levels'[l] : h \in levels[l] \/ h = Reader(t, -(rank + 1))
    BY <2>1, Zenon
  <2>6. \A l \in Level : \A h \in levels'[l] : \A o \in h.data : Known(o)
    BY <2>2, <2>4, <2>5, Zenon DEF LevelsKnown
  <2> QED BY <1>1, <2>6, Zenon DEF LevelsKnown
<1>6. CASE CompactInstall(t)
  <2> DEFINE lv == task[t].level
             r == Reader(t, rank + 1)
  <2>1. lv \in Level /\ lv + 1 \in Level /\ lv # lv + 1
    <3>1. lv \in Level /\ lv + 1 \in Level
      BY FileTypes, Zenon
    <3> QED BY <3>1 DEF Level
  <2>2. pc[t] = "cinstall" /\ levels' = [levels EXCEPT ![lv] = @ \ task[t].inputs, ![lv + 1] = @ \cup {r}]
    BY <1>6, Zenon DEF CompactInstall
  <2>3. \A l \in Level : \A h \in levels'[l] : h \in levels[l] \/ h = r
    <3>1. /\ levels'[lv] = levels[lv] \ task[t].inputs /\ levels'[lv + 1] = levels[lv + 1] \cup {r}
          /\ \A l \in Level \ {lv, lv + 1} : levels'[l] = levels[l]
      BY <2>1, <2>2, Zenon DEF TypeInv, MemoryOK
    <3> QED BY <3>1, Zenon
  <2>4. task[t].inputs \subseteq levels[lv] /\ r.data \subseteq MergeWinners(task[t].inputs)
    BY <2>2, Zenon DEF CompactOK, MergeHand, Merging, Reader, MergeOutput
  <2>5. \A o \in r.data : \E g \in levels[lv] : o \in g.data
    BY <2>4, Zenon DEF MergeWinners
  <2> HIDE DEF r, lv
  <2>6. \A o \in r.data : Known(o)
    BY <2>1, <2>5, Zenon DEF LevelsKnown
  <2>7. \A l \in Level : \A h \in levels'[l] : \A o \in h.data : Known(o)
    BY <2>3, <2>6, Zenon DEF LevelsKnown
  <2> QED BY <1>1, <2>7, Zenon DEF LevelsKnown
<1> QED BY <1>3, <1>4, <1>5, <1>6, Zenon DEF Moving

(* Nothing that is kept is lost, and nothing rises again.                  *)
LEMMA KeptStep ==
    ASSUME SeqInv, TypeInv', CallsMatch, OneFlush, HistOK, BatchOK, Working,
           NEW t \in Thread, ThreadNext(t), mode' = "up", faults' = 0, NEW i \in DOMAIN hist
    PROVE  /\ Kept(i) => Kept(i)'
           /\ Frozen(i) => Frozen(i)'
           /\ OnTables(i) => OnTables(i)'
<1>0. TypeInv /\ Numbered /\ FlushOK /\ CompactOK /\ Topped /\ LevelsKnown
  BY Zenon DEF SeqInv, Working
<1>1. hist'[i] = hist[i] /\ \A j \in DOMAIN hist : j \in DOMAIN hist' /\ hist'[j] = hist[j]
  BY <1>0, HistGrows, Zenon
<1>2. CASE ~Moving(t)
  BY <1>0, <1>1, <1>2, SameSteps, SameKeeps, Zenon DEF Kept
<1>3. CASE Apply(t)
  BY <1>0, <1>3, ApplyKeeps, Zenon DEF Kept
<1>4. CASE Freeze(t)
  BY <1>0, <1>4, FreezeKeeps, Zenon DEF Kept
<1>5. CASE FlushTake(t) /\ immutable # <<>>
  BY <1>0, <1>5, TakeKeeps, Zenon DEF Kept
<1>6. CASE FlushInstall(t)
  BY <1>0, <1>6, InstallKeeps, Zenon DEF Kept
<1>7. CASE CompactInstall(t)
  BY <1>0, <1>7, CompactKeeps, Zenon DEF Kept
<1> QED BY <1>2, <1>3, <1>4, <1>5, <1>6, <1>7, Zenon DEF Moving

LEMMA AllKeptStep ==
    ASSUME SeqInv, TypeInv', CallsMatch, OneFlush, HistOK, BatchOK, Working,
           NEW t \in Thread, ThreadNext(t), mode' = "up", faults' = 0
    PROVE  AllKept'
<1>0. TypeInv /\ Numbered /\ FlushOK /\ CompactOK /\ Topped /\ AllKept
  BY Zenon DEF SeqInv, Working
<1> SUFFICES ASSUME NEW i, Inserted(i)' PROVE Kept(i)'
  BY Zenon DEF AllKept
<1>1. CASE Inserted(i)
  <2>1. i \in DOMAIN hist
    BY <1>0, <1>1, InsertedIssued, Zenon
  <2> QED BY <1>0, <1>1, <2>1, KeptStep, Zenon DEF AllKept
<1>2. CASE Apply(t) /\ i = Entry(t).op.id
  <2>1. Topped'
    BY <1>0, ToppedStep, Zenon
  <2> QED BY <1>0, <1>2, <2>1, ApplyHolds, Zenon DEF Kept
<1> QED BY <1>0, <1>1, <1>2, InsertedStep, Zenon

(***************************************************************************)
(* What a flush owes.                                                      *)
(***************************************************************************)
FlushBegins(t) ==
    /\ must'[t] = acked /\ acked' = acked
    /\ pc'[t] = "freeze" \/ (pc'[t] = "take" /\ memtable = {})

FlushGoesOn(t) ==
    /\ must'[t] = must[t] /\ call[t] \in Flushing
    /\ \/ Freeze(t) /\ pc'[t] = "take"
       \/ pc[t] = "take" /\ immutable = <<>> /\ pc'[t] = "rotate"
       \/ pc[t] \in {"take"} \cup Holding /\ pc'[t] \in {"take"} \cup Holding
       \/ pc[t] \in RotateSteps \cup CompactSteps /\ pc'[t] \in RotateSteps \cup CompactSteps
       \/ pc'[t] = "closing"

LEMMA EndCompactOwes ==
    ASSUME TypeInv, NEW t \in Thread, EndCompact(t), call'[t] \in Flushing
    PROVE  FlushGoesOn(t)
<1>1. CASE call[t] \in {"close", "drop"}
  BY <1>1, ZenonT(40) DEF EndCompact, Goto, FlushGoesOn, Flushing, TypeInv, LocalsOK
<1>2. CASE call[t] \notin {"close", "drop"}
  BY <1>2, SMTT(30) DEF EndCompact, Return, Flushing, TypeInv, LocalsOK
<1> QED BY <1>1, <1>2, Zenon

LEMMA FlushOwes ==
    ASSUME TypeInv, CallsMatch, FlushOK, CompactOK, NEW t \in Thread, ThreadNext(t),
           mode' = "up", faults' = 0, call'[t] \in Flushing
    PROVE  FlushBegins(t) \/ FlushGoesOn(t)
<1> USE DEF locals, ghosts, Goto, TypeInv, LocalsOK
<1>0. "none" \notin Flushing /\ Writing \cap Flushing = {} /\ "compact" \notin Flushing
  BY Zenon DEF Flushing, Writing
<1>1. CASE Put(t) \/ Delete(t) \/ Write(t)
  <2>1. PICK c \in Writing : call' = [call EXCEPT ![t] = c]
    BY <1>1, ZenonT(40) DEF Put, Delete, Write, BeginWrite, Writing
  <2> QED BY <1>0, <2>1, Zenon
<1>2. CASE AppendLog(t) \/ SyncLog(t)
  BY <1>0, <1>2, Zenon DEF AppendLog, SyncLog, CallsMatch
<1>3. CASE Apply(t) \/ CheckSize(t)
  <2>1. call[t] \in Writing
    BY <1>3, ZenonT(40) DEF Apply, CheckSize, CallsMatch
  <2>2. call'[t] = "none" \/ call'[t] = call[t]
    BY <1>3, SMTT(30) DEF Apply, CheckSize, Return
  <2> QED BY <1>0, <2>1, <2>2, Zenon
<1>4. CASE Freeze(t)
  <2>1. CASE call[t] \in Flushing
    BY <1>4, <2>1, Zenon DEF Freeze, FlushGoesOn
  <2>2. CASE call[t] \notin Flushing
    BY <1>0, <1>4, <2>2, SMTT(30) DEF Freeze, Return
  <2> QED BY <2>1, <2>2, Zenon
<1>5. CASE Flush(t) \/ Close(t) \/ Drop(t)
  BY <1>5, Zenon DEF Flush, Close, Drop, BeginFlush, FlushBegins
<1>6. CASE Compact(t)
  BY <1>0, <1>6, Zenon DEF Compact
<1>7. CASE FlushTake(t)
  BY <1>7, Zenon DEF FlushTake, FlushGoesOn, Holding
<1>8. CASE FlushCreate(t) \/ FlushBuild(t) \/ FlushInstall(t)
  <2>1. UNCHANGED <<must, call>> /\ pc[t] \in Holding
    BY <1>8, ZenonT(40) DEF FlushCreate, FlushBuild, FlushInstall, Holding
  <2>2. pc'[t] \in {"take"} \cup Holding
    BY <1>8, ZenonT(40) DEF FlushCreate, FlushBuild, FlushInstall, Holding
  <2> QED BY <2>1, <2>2, ZenonT(40) DEF FlushGoesOn
<1>9. CASE RotateOpen(t) \/ RotateSwap(t) \/ RotateRemove(t)
  BY <1>9, ZenonT(40) DEF RotateOpen, RotateSwap, RotateRemove, FlushGoesOn, RotateSteps, CompactSteps
<1>10. CASE CompactCreate(t) \/ CompactInstall(t)
  BY <1>10, Zenon DEF CompactCreate, CompactInstall, FlushGoesOn, CompactSteps
<1>11. CASE CompactPick(t)
  <2>1. CASE EndCompact(t)
    BY <2>1, EndCompactOwes, Zenon
  <2>2. CASE ~EndCompact(t)
    BY <1>11, <2>2, Zenon DEF CompactPick, FlushGoesOn, CompactSteps
  <2> QED BY <2>1, <2>2, Zenon
<1>12. CASE CompactMerge(t)
  <2>1. CASE EndCompact(t)
    BY <2>1, EndCompactOwes, Zenon
  <2>2. CASE ~EndCompact(t)
    <3>1. pc[t] = "cmerge" /\ pc'[t] = "cinstall" /\ UNCHANGED <<must, call>>
      BY <1>12, <2>2, MergeWhole, Zenon DEF CompactMerge, MergeTo
    <3> QED BY <3>1, Zenon DEF FlushGoesOn, CompactSteps
  <2> QED BY <2>1, <2>2, Zenon
<1>13. CASE CompactDelete(t)
  <2>1. CASE EndCompact(t)
    BY <2>1, EndCompactOwes, Zenon
  <2>2. CASE ~EndCompact(t)
    BY <1>13, <2>2, Zenon DEF CompactDelete, FlushGoesOn, CompactSteps
  <2> QED BY <2>1, <2>2, Zenon
<1>14. CASE CloseSync(t)
  BY <1>0, <1>14, SMTT(30) DEF CloseSync, Return, Vanish
<1>15. CASE Fail(t)
  BY <1>15, NoFail, ZenonT(40)
<1> QED BY <1>1, <1>2, <1>3, <1>4, <1>5, <1>6, <1>7, <1>8, <1>9, <1>10, <1>11, <1>12, <1>13,
           <1>14, <1>15, ZenonT(40) DEF ThreadNext

(* A step of t leaves what the other calls owe alone.                      *)
LEMMA OthersOwe ==
    ASSUME TypeInv, NEW t \in Thread, ThreadNext(t), mode' = "up"
    PROVE  /\ acked \subseteq acked'
           /\ \A u \in Thread \ {t} : pc'[u] = pc[u] /\ call'[u] = call[u] /\ must'[u] = must[u]
<1> DEFINE G == /\ acked \subseteq acked'
                /\ \A u \in Thread \ {t} :
                      pc'[u] = pc[u] /\ call'[u] = call[u] /\ must'[u] = must[u]
<1> USE DEF locals, ghosts, Goto, TypeInv, LocalsOK
<1>1. ASSUME NEW ids, Return(t, ids)
      PROVE  G
  BY <1>1, Zenon DEF Return
<1>2. ASSUME EndCompact(t)
      PROVE  G
  BY <1>1, <1>2, ZenonT(40) DEF EndCompact
<1>3. CASE Put(t) \/ Delete(t) \/ Write(t)
  BY <1>3, ZenonT(40) DEF Put, Delete, Write, BeginWrite
<1>4. CASE AppendLog(t) \/ SyncLog(t)
  BY <1>4, Zenon DEF AppendLog, SyncLog
<1>5. CASE Apply(t) \/ CheckSize(t) \/ Freeze(t)
  BY <1>1, <1>5, Zenon DEF Apply, CheckSize, Freeze
<1>6. CASE Flush(t) \/ Close(t) \/ Drop(t) \/ Compact(t)
  BY <1>6, ZenonT(40) DEF Flush, Close, Drop, BeginFlush, Compact
<1>7. CASE FlushTake(t) \/ FlushCreate(t) \/ FlushBuild(t) \/ FlushInstall(t)
  BY <1>7, ZenonT(40) DEF FlushTake, FlushCreate, FlushBuild, FlushInstall
<1>8. CASE RotateOpen(t) \/ RotateSwap(t) \/ RotateRemove(t)
  BY <1>8, Zenon DEF RotateOpen, RotateSwap, RotateRemove
<1>9. CASE CompactPick(t) \/ CompactDelete(t)
  BY <1>2, <1>9, ZenonT(40) DEF CompactPick, CompactDelete
<1>10. CASE CompactCreate(t) \/ CompactInstall(t)
  BY <1>10, ZenonT(40) DEF CompactCreate, CompactInstall
<1>11. CASE CompactMerge(t)
  BY <1>2, <1>11, ZenonT(40) DEF CompactMerge, MergeTo
<1>12. CASE CloseSync(t)
  BY <1>1, <1>12, ZenonT(40) DEF CloseSync, Vanish
<1>13. CASE Fail(t)
  BY <1>1, <1>13, ZenonT(40) DEF Fail
<1> QED BY <1>3, <1>4, <1>5, <1>6, <1>7, <1>8, <1>9, <1>10, <1>11, <1>12, <1>13, Zenon DEF ThreadNext

LEMMA OwedStep ==
    ASSUME SeqInv, TypeInv', CallsMatch, OneFlush, HistOK, BatchOK, Working,
           NEW t \in Thread, ThreadNext(t), mode' = "up", faults' = 0
    PROVE  Owed'
<1>0. TypeInv /\ FlushOK /\ CompactOK /\ AllKept /\ Owed
  BY Zenon DEF SeqInv, Working
<1>1. \A i \in acked : /\ i \in DOMAIN hist /\ Kept(i)
                       /\ Frozen(i) => Frozen(i)'
                       /\ OnTables(i) => OnTables(i)'
  BY <1>0, KeptStep, Zenon DEF AllKept, Inserted, HistOK
<1> SUFFICES ASSUME NEW u \in Thread, call'[u] \in Flushing
             PROVE  /\ must'[u] \subseteq acked'
                    /\ pc'[u] \in {"take"} \cup Holding => \A i \in must'[u] : Frozen(i)'
                    /\ pc'[u] \in RotateSteps \cup CompactSteps => \A i \in must'[u] : OnTables(i)'
  BY Zenon DEF Owed
<1>2. acked \subseteq acked'
  BY <1>0, OthersOwe, Zenon
<1>3. CASE u # t
  BY <1>0, <1>1, <1>3, OthersOwe, Zenon DEF Owed
<1>4. CASE u = t
  <2>0. \A s \in {"freeze", "take", "closing"} \cup Holding : s \notin RotateSteps \cup CompactSteps
    BY Zenon DEF Holding, RotateSteps, CompactSteps
  <2>1. CASE FlushBegins(t)
    <3>1. \A i \in acked : memtable = {} => Frozen(i)
      BY <1>1, EmptyFresh, Zenon DEF Kept, InMemtable
    <3> QED BY <1>1, <1>4, <2>0, <2>1, <3>1, Zenon DEF FlushBegins, Holding
  <2>2. CASE FlushGoesOn(t)
    <3>1. must[t] \subseteq acked /\ must'[t] = must[t] /\ call[t] \in Flushing
      BY <1>0, <2>2, Zenon DEF Owed, FlushGoesOn
    <3>2. CASE Freeze(t) /\ pc'[t] = "take"
      <4>1. \A i \in must[t] : Frozen(i)'
        BY <1>0, <1>1, <3>1, <3>2, FreezeKeeps, Zenon DEF Kept
      <4> QED BY <1>2, <1>4, <2>0, <3>1, <3>2, <4>1, Zenon
    <3>3. CASE pc[t] = "take" /\ immutable = <<>> /\ pc'[t] = "rotate"
      <4>1. call[t] \in Flushes
        BY <3>1, Zenon DEF Flushes
      <4>2. \A w \in Thread : held[w] = {}
        BY <1>0, <3>3, <4>1, OthersAway, Zenon DEF FlushOK, FlushHand, Holding
      <4>3. \A i \in must[t] : Frozen(i)
        BY <1>0, <3>1, <3>3, Zenon DEF Owed
      <4>4. DOMAIN immutable = {}
        BY <3>3
      <4>5. \A i \in must[t] : OnTables(i)
        BY <4>2, <4>3, <4>4, EmptyFresh, Zenon DEF Frozen, InImmutable, InHeld
      <4> QED BY <1>1, <1>2, <1>4, <3>1, <3>3, <4>5, Zenon DEF Holding
    <3>4. CASE pc[t] \in {"take"} \cup Holding /\ pc'[t] \in {"take"} \cup Holding
      <4>1. \A i \in must[t] : Frozen(i)
        BY <1>0, <3>1, <3>4, Zenon DEF Owed
      <4> QED BY <1>1, <1>2, <1>4, <2>0, <3>1, <3>4, <4>1, Zenon
    <3>5. CASE pc[t] \in RotateSteps \cup CompactSteps /\ pc'[t] \in RotateSteps \cup CompactSteps
      <4>1. \A i \in must[t] : OnTables(i)
        BY <1>0, <3>1, <3>5, Zenon DEF Owed
      <4> QED BY <1>1, <1>2, <1>4, <2>0, <3>1, <3>5, <4>1, Zenon
    <3>6. CASE pc'[t] = "closing"
      BY <1>2, <1>4, <3>1, <3>6, Zenon DEF Holding, RotateSteps, CompactSteps
    <3> QED BY <2>2, <3>2, <3>3, <3>4, <3>5, <3>6, Zenon DEF FlushGoesOn
  <2> QED BY <1>0, <1>4, <2>1, <2>2, FlushOwes, Zenon
<1> QED BY <1>3, <1>4, Zenon

LEMMA WorkingStep ==
    ASSUME SeqInv, TypeInv', CallsMatch, OneFlush, HistOK, BatchOK, Working,
           NEW t \in Thread, ThreadNext(t), mode' = "up", faults' = 0
    PROVE  Working'
<1>1. TypeInv /\ Numbered /\ FlushOK /\ CompactOK /\ Topped /\ LevelsKnown
  BY Zenon DEF SeqInv, Working
<1>2. Numbered'
  BY <1>1, NumberedStep, Zenon
<1>3. FlushOK' /\ CompactOK'
  BY <1>1, HandsStep, Zenon
<1>4. Topped' /\ LevelsKnown'
  BY <1>1, ToppedStep, LevelsKnownStep, Zenon
<1>5. AllKept' /\ Owed'
  BY AllKeptStep, OwedStep, Zenon
<1> QED BY <1>2, <1>3, <1>4, <1>5, Zenon DEF Working

(***************************************************************************)
(* The invariant.                                                          *)
(***************************************************************************)
LEMMA SpillWorking ==
    ASSUME TypeInv, Working,
           UNCHANGED <<sequence, memtable, immutable, levels, rank, files, pc, call, batch, base,
                       applied, held, num, task, must, hist, acked, purged, opens>>
    PROVE  Working'
<1>1. Numbered'
  BY DEF Working, Numbered, MemoryVersions
<1>2. FlushOK' /\ CompactOK'
  <2>1. Still
    BY Zenon DEF Still
  <2> QED BY <2>1, StillKeeps, Zenon DEF Working
<1>3. Topped' /\ LevelsKnown'
  BY Zenon DEF Working, Topped, LevelsKnown, Known
<1>4. SameStores
  BY Zenon DEF SameStores
<1>5. \A i : (Kept(i) => Kept(i)') /\ (Frozen(i) => Frozen(i)') /\ (OnTables(i) => OnTables(i)')
  BY <1>4, SameKeeps, Zenon DEF Kept
<1>6. AllKept'
  BY <1>5, Zenon DEF Working, AllKept, Inserted
<1>7. Owed'
  BY <1>5, Zenon DEF Working, Owed
<1> QED BY <1>1, <1>2, <1>3, <1>6, <1>7, Zenon DEF Working

(* The first session starts with nothing.                                  *)
LEMMA FirstOpen ==
    ASSUME SeqInv, CallInv, FileInv, BatchOK, Open, opens = 0, hist = <<>>, logs = <<>>
    PROVE  Working'
<1>1. /\ memtable' = {} /\ sequence' = 0 /\ hist' = <<>>
      /\ UNCHANGED <<immutable, pc, held, batch, call>>
  <2>1. \A n : Entries(n) = <<>>
    BY DEF Entries
  <2>2. PICK n : sequence' = Len(Entries(n)) /\ memtable' = Replay(Entries(n))
    BY Zenon DEF Open
  <2>3. sequence' = 0 /\ memtable' = {}
    BY <2>1, <2>2, SMTT(30) DEF Replay
  <2> QED BY <2>3, Zenon DEF Open, locals
<1>2. \A l \in Level : levels'[l] = {}
  BY Zenon DEF Open, FileInv, LoadedTables
<1>3. mode = "down"
  BY Zenon DEF Open
<1>4. immutable = <<>> /\ \A t \in Thread : pc[t] = "idle" /\ held[t] = {}
  BY <1>3, Zenon DEF SeqInv, DownEmpty
<1>5. \A t \in Thread : DOMAIN batch[t] = {}
  BY DEF BatchOK
<1>6. Numbered'
  <2>1. MemoryVersions' = {}
    BY <1>1, <1>4, SMTT(30) DEF MemoryVersions
  <2> QED BY <1>1, <1>5, <2>1, ZenonT(40) DEF Numbered
<1>7. FlushOK' /\ CompactOK'
  BY <1>1, <1>2, <1>4, LevelFacts, Zenon DEF FlushOK, FlushHand, CompactOK, MergeHand, Building, Merging
<1>8. Topped' /\ AllKept' /\ LevelsKnown'
  <2>1. Topped' /\ AllKept'
    BY <1>1 DEF Topped, AllKept
  <2> QED BY <1>2, <2>1, Zenon DEF LevelsKnown
<1>9. Owed'
  <2>1. \A t \in Thread : call'[t] \notin Flushing
    BY <1>1, <1>4, Zenon DEF CallInv, CallsMatch, Flushing
  <2> QED BY <2>1, Zenon DEF Owed
<1> QED BY <1>6, <1>7, <1>8, <1>9, Zenon DEF Working

LEMMA CoverStep ==
    ASSUME OneFlusher, SeqInv, SeqInv', CallInv, FileInv, CoverInv, [Next]_vars
    PROVE  CoverInv'
<1>0. /\ TypeInv /\ TypeInv' /\ DownEmpty /\ HistOK /\ BatchOK /\ CallsMatch /\ OneFlush
      /\ opens \in Nat /\ faults \in Nat
  BY OneFlushHolds, Zenon DEF SeqInv, CoverInv, CallInv, TypeInv, GhostsOK
<1>1. HistOK' /\ BatchOK'
  BY <1>0, HistStep, Zenon
<1>2. (opens' = 0 => hist' = <<>> /\ logs' = <<>>)
      /\ (mode' = "up" /\ opens' = 1 /\ faults' = 0 => Working')
  <2>1. ASSUME NEW t \in Thread, ThreadNext(t)
        PROVE  /\ opens' = 0 => hist' = <<>> /\ logs' = <<>>
               /\ mode' = "up" /\ opens' = 1 /\ faults' = 0 => Working'
    <3>1. mode = "up" /\ opens' = opens /\ opens # 0
      BY <1>0, <2>1, ThreadUp, SameSession, Zenon DEF FileInv
    <3>2. faults' = 0 => faults = 0
      BY <1>0, <2>1, FaultsGrow, SMTT(30)
    <3> QED BY <1>0, <2>1, <3>1, <3>2, WorkingStep, Zenon DEF CoverInv
  <2>2. CASE Open
    <3>1. opens' = opens + 1
      BY <2>2, Zenon DEF Open
    <3>2. opens' # 0 /\ (opens' = 1 => opens = 0)
      BY <1>0, <3>1, SMTT(30)
    <3>3. opens' = 1 => Working'
      BY <1>0, <2>2, <3>2, FirstOpen, Zenon DEF CoverInv
    <3> QED BY <3>2, <3>3, Zenon
  <2>3. CASE Crash
    <3>1. mode = "up" /\ mode' = "down" /\ opens' = opens
      BY <2>3, Zenon DEF Crash, Vanish, ghosts
    <3> QED BY <3>1, Zenon DEF FileInv
  <2>4. CASE Spill
    <3>1. mode = "up" /\ opens' = opens /\ faults' = faults /\ mode' = mode
      BY <2>4, Zenon DEF Spill, ghosts
    <3>2. Working => Working'
      BY <1>0, <2>4, SpillWorking, Zenon DEF Spill, locals, ghosts
    <3> QED BY <3>1, <3>2, Zenon DEF FileInv, CoverInv
  <2>5. CASE UNCHANGED vars
    <3>1. UNCHANGED <<mode, opens, faults, hist, logs>>
      BY <2>5, Zenon DEF vars, disk, ghosts
    <3>2. Working => Working'
      BY <1>0, <2>5, SpillWorking, Zenon DEF vars, memory, disk, locals, ghosts
    <3> QED BY <3>1, <3>2, Zenon DEF CoverInv
  <2> QED BY <2>1, <2>2, <2>3, <2>4, <2>5, Zenon DEF Next, Rest
<1> QED BY <1>1, <1>2, Zenon DEF CoverInv

LEMMA CoverInvariant == OneFlusher => (Spec => []CoverInv)
<1> SUFFICES ASSUME OneFlusher PROVE Spec => []CoverInv
  BY Zenon
<1>1. Init => CoverInv
  BY DEF Init, CoverInv, HistOK, BatchOK
<1>2. SeqInv /\ SeqInv' /\ CallInv /\ FileInv /\ CoverInv /\ [Next]_vars => CoverInv'
  BY CoverStep, Zenon
<1> QED BY <1>1, <1>2, SeqInvariant, CallInvariant, FileInvariant, PTL DEF Spec

(* What a structure holds is in memory.                                    *)
LEMMA KeptInMemory ==
    ASSUME NEW i, Kept(i)
    PROVE  Covered(i, {v.op : v \in MemoryVersions} \cup LevelOps)
<1>1. ASSUME NEW mem, mem \subseteq MemoryVersions, Holds(mem, i)
      PROVE  Covered(i, {v.op : v \in MemoryVersions} \cup LevelOps)
  BY <1>1, Zenon DEF Holds, FlushContents, Covered
<1>2. CASE InMemtable(i)
  BY <1>1, <1>2, Zenon DEF InMemtable, MemoryVersions
<1>3. CASE InImmutable(i)
  BY <1>1, <1>3, Zenon DEF InImmutable, MemoryVersions
<1>4. CASE InHeld(i)
  BY <1>1, <1>4, ZenonT(40) DEF InHeld, MemoryVersions
<1>5. CASE InLevel0(i)
  BY <1>5, LevelFacts, SMTT(30) DEF InLevel0, Leads, LevelOps, Covered
<1>6. CASE Deep(i)
  <2>1. PICK l \in Level \ {0} : \E h \in levels[l] : Rests(h, l, i)
    BY <1>6, Zenon DEF Deep
  <2> QED BY <2>1, SMTT(30) DEF Rests, LevelOps, Covered
<1>7. CASE Dropped(i)
  BY <1>7, Zenon DEF Dropped, Covered
<1> QED BY <1>2, <1>3, <1>4, <1>5, <1>6, <1>7, Zenon DEF Kept, Frozen, OnTables, Sunk

(* No acknowledged write disappears from a running database in its first   *)
(* session without I/O errors, for every number of concurrent writers and  *)
(* whenever MemTables are frozen, flushed and compacted (lib.rs:366, 756,  *)
(* 858, 941), as long as flushes and compactions do not overlap.           *)
THEOREM WritesStayInMemory ==
    OneFlusher => (Spec => [](opens <= 1 /\ faults = 0 => InMemory))
<1> SUFFICES ASSUME OneFlusher PROVE Spec => [](opens <= 1 /\ faults = 0 => InMemory)
  BY Zenon
<1>1. CoverInv /\ FileInv => (opens <= 1 /\ faults = 0 => InMemory)
  <2> SUFFICES ASSUME CoverInv, FileInv, opens <= 1, faults = 0, mode = "up", NEW i \in acked
               PROVE  Covered(i, {v.op : v \in MemoryVersions} \cup LevelOps)
    BY Zenon DEF InMemory
  <2>1. opens = 1
    BY DEF FileInv, TypeInv, GhostsOK
  <2>2. Kept(i)
    BY <2>1, Zenon DEF CoverInv, Working, AllKept, Inserted, HistOK
  <2> QED BY <2>2, KeptInMemory, Zenon
<1> QED BY <1>1, CoverInvariant, FileInvariant, PTL

(* When a flush has emptied the immutable list, everything acknowledged    *)
(* before it was called is in finished SSTables (lib.rs:858): in the first *)
(* session, without I/O errors, whatever is written and frozen meanwhile.  *)
THEOREM FlushReachesDisk ==
    OneFlusher => (Spec => [](opens <= 1 /\ faults = 0 => FlushedOnDisk))
<1> SUFFICES ASSUME OneFlusher PROVE Spec => [](opens <= 1 /\ faults = 0 => FlushedOnDisk)
  BY Zenon
<1>1. CoverInv /\ FileInv /\ CallInv => (opens <= 1 /\ faults = 0 => FlushedOnDisk)
  <2> SUFFICES ASSUME CoverInv, FileInv, CallInv, opens <= 1, faults = 0, NEW t \in Thread,
                      call[t] \in Flushing, pc[t] \in RotateSteps \cup CompactSteps,
                      NEW i \in must[t]
               PROVE  Covered(i, TableOps)
    BY Zenon DEF FlushedOnDisk
  <2>1. mode = "up"
    BY Zenon DEF FileInv, DownEmpty, RotateSteps, CompactSteps, TypeInv, MemoryOK
  <2>2. opens = 1
    BY <2>1 DEF FileInv, TypeInv, GhostsOK
  <2>3. OnTables(i)
    BY <2>1, <2>2, Zenon DEF CoverInv, Working, Owed
  <2>4. \A l \in Level : \A h \in levels[l] : h.data \subseteq TableOps
    <3> SUFFICES ASSUME NEW l \in Level, NEW h \in levels[l], NEW o \in h.data
                 PROVE  o \in TableOps
      BY Zenon
    <3>1. h.file \in DOMAIN files /\ files[h.file] = [gen |-> h.gen, done |-> TRUE, data |-> h.data]
      BY <2>1, Zenon DEF FileInv, Session, OnDisk
    <3>2. files[h.file].done /\ files[h.file].data = h.data
      BY <3>1
    <3> QED BY <3>1, <3>2, Zenon DEF TableOps
  <2>5. CASE InLevel0(i)
    BY <2>4, <2>5, LevelFacts, Zenon DEF InLevel0, Leads, Covered
  <2>6. CASE Sunk(i)
    BY <2>4, <2>6, Zenon DEF Sunk, Deep, Rests, Dropped, Covered
  <2> QED BY <2>3, <2>5, <2>6, Zenon DEF OnTables
<1> QED BY <1>1, CoverInvariant, FileInvariant, CallInvariant, PTL
=============================================================================
