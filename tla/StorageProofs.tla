---------------------------- MODULE StorageProofs ----------------------------
(***************************************************************************)
(* Proofs about two parts that stand on their own: the manifest, for every *)
(* set of files and every bound, and the block cache, for any number of    *)
(* threads, keys, blocks and any capacity.                                 *)
(***************************************************************************)
EXTENDS BlockReads, Manifest, FiniteSetTheorems, SequenceTheorems, TLAPS

LEMMA NoneIsList == ASSUME NEW S PROVE <<>> \in Seq(S)
OBVIOUS

LEMMA NextNat == ASSUME NEW n \in Nat PROVE n + 1 \in Nat
OBVIOUS

(***************************************************************************)
(* The block cache.                                                        *)
(***************************************************************************)

(* A thread holds a victim only between the pop and the removal, and only  *)
(* one; the places of the queue are told apart by their stamps, which the  *)
(* clock has already passed.                                               *)
VictimsHeld ==
    \A t \in Threads : /\ victim[t] # {} => cpc[t] = "remove"
                       /\ \A k, l \in victim[t] : k = l

StampsUnique ==
    /\ \A p \in queue : p.stamp <= clock
    /\ \A p, q \in queue : p.stamp = q.stamp => p = q

CacheInv == CTypeOK /\ VictimsHeld /\ StampsUnique /\ CachedQueued

(* CTypeOK is inductive by itself: every step of lru.rs keeps the types.   *)
LEMMA TypeStep == ASSUME CTypeOK, [CNext]_cvars PROVE CTypeOK'
<1> USE CacheAssumption DEF CTypeOK
<1>1. ASSUME NEW t \in Threads, CBegin(t) PROVE CTypeOK'
  <2>1. ASSUME NEW k \in CacheKey, Get(t, k) PROVE CTypeOK'
    BY <2>1 DEF Get, Begin, CReturn, Move, CStep, Stats, shared
  <2>2. ASSUME NEW k \in CacheKey, NEW b \in Block, Insert(t, k, b) PROVE CTypeOK'
    BY <2>2 DEF Insert, Begin, CReturn, Move, CStep, shared
  <2>3. CASE Clear(t)
    BY <2>3 DEF Clear, Begin, clocals
  <2>4. CASE ResetStats(t)
    BY <2>4 DEF ResetStats, Begin, shared, clocals, Stats, NoStats
  <2> QED BY <1>1, <2>1, <2>2, <2>3, <2>4, Zenon DEF CBegin
<1>2. ASSUME NEW t \in Threads, CContinue(t) PROVE CTypeOK'
  <2>1. CASE GetLookup(t)
    BY <2>1 DEF GetLookup, Move, CStep, Held, Entry, shared
  <2>2. CASE GetTouch(t)
    BY <2>2 DEF GetTouch, Move, CStep, PushBack, Place, Front, Places, clocals
  <2>3. CASE GetHit(t)
    BY <2>3 DEF GetHit, CReturn, Move, CStep, Stats, shared
  <2>4. CASE GetMiss(t)
    BY <2>4 DEF GetMiss, CReturn, Move, CStep, Stats, shared
  <2>5. CASE InsertRoom(t)
    BY <2>5, Zenon DEF InsertRoom, Move, CStep, shared, clocals
  <2>6. CASE EvictPop(t)
    BY <2>6 DEF EvictPop, Move, CStep, Front, Place
  <2>7. CASE EvictRemove(t)
    BY <2>7 DEF EvictRemove, Move, CStep, Held, Entry
  <2>8. CASE EvictStat(t)
    BY <2>8 DEF EvictStat, Move, CStep, Stats, shared, clocals
  <2>9. CASE InsertStore(t)
    BY <2>9 DEF InsertStore, Move, CStep, PushBack, Held, Places, Entry, Place, clocals
  <2>10. CASE InsertStat(t)
    BY <2>10 DEF InsertStat, CReturn, Move, CStep, Stats, shared
  <2> QED BY <1>2, <2>1, <2>2, <2>3, <2>4, <2>5, <2>6, <2>7, <2>8, <2>9, <2>10, Zenon DEF CContinue
<1>3. CASE UNCHANGED cvars
  BY <1>3, Zenon DEF cvars, shared, clocals
<1> QED BY <1>1, <1>2, <1>3, Zenon DEF CNext, CRest

(* VictimsHeld and StampsUnique: pops and pushes are the only steps that   *)
(* matter.                                                                 *)
LEMMA QueueStep ==
    ASSUME CTypeOK, VictimsHeld, StampsUnique, [CNext]_cvars
    PROVE  VictimsHeld' /\ StampsUnique'
<1> USE DEF CTypeOK, VictimsHeld, StampsUnique
<1>1. ASSUME NEW t \in Threads, CBegin(t) PROVE VictimsHeld' /\ StampsUnique'
  <2>1. ASSUME NEW k \in CacheKey, Get(t, k) PROVE VictimsHeld' /\ StampsUnique'
    BY <2>1 DEF Get, Begin, At, CReturn, Move, shared
  <2>2. ASSUME NEW k \in CacheKey, NEW b \in Block, Insert(t, k, b)
        PROVE VictimsHeld' /\ StampsUnique'
    BY <2>2 DEF Insert, Begin, At, CReturn, Move, shared
  <2>3. CASE Clear(t)
    BY <2>3, Zenon DEF Clear, Begin, clocals
  <2>4. CASE ResetStats(t)
    BY <2>4, Zenon DEF ResetStats, Begin, shared, clocals
  <2> QED BY <1>1, <2>1, <2>2, <2>3, <2>4, Zenon DEF CBegin
<1>2. ASSUME NEW t \in Threads, CContinue(t) PROVE VictimsHeld' /\ StampsUnique'
  <2>1. CASE GetLookup(t)
    BY <2>1 DEF GetLookup, At, Move, shared
  <2>2. CASE GetTouch(t)
    BY <2>2 DEF GetTouch, At, Move, PushBack, Place, clocals
  <2>3. CASE GetHit(t)
    BY <2>3 DEF GetHit, At, CReturn, Move, shared
  <2>4. CASE GetMiss(t)
    BY <2>4 DEF GetMiss, At, CReturn, Move, shared
  <2>5. CASE InsertRoom(t)
    BY <2>5 DEF InsertRoom, At, Move, shared, clocals
  <2>6. CASE EvictPop(t)
    <3>1. \A p, q \in Front(queue) : p = q
      BY DEF Front, Place
    <3> QED BY <2>6, <3>1 DEF EvictPop, At, Move, Front, Place
  <2>7. CASE EvictRemove(t)
    BY <2>7 DEF EvictRemove, At, Move
  <2>8. CASE EvictStat(t)
    BY <2>8 DEF EvictStat, At, Move, shared, clocals
  <2>9. CASE InsertStore(t)
    BY <2>9 DEF InsertStore, At, Move, PushBack, Place, clocals
  <2>10. CASE InsertStat(t)
    BY <2>10 DEF InsertStat, At, CReturn, Move, shared
  <2> QED BY <1>2, <2>1, <2>2, <2>3, <2>4, <2>5, <2>6, <2>7, <2>8, <2>9, <2>10, Zenon DEF CContinue
<1>3. CASE UNCHANGED cvars
  BY <1>3, Zenon DEF cvars, shared, clocals
<1> QED BY <1>1, <1>2, <1>3, Zenon DEF CNext, CRest

(* CachedQueued: a step that takes a key off the queue hands it to a       *)
(* victim, and a victim is let go only when its entry is removed.          *)
LEMMA QueuedStep ==
    ASSUME CTypeOK, VictimsHeld, StampsUnique, CachedQueued, [CNext]_cvars
    PROVE  CachedQueued'
<1> USE DEF CTypeOK, VictimsHeld, CachedQueued, Places
<1>1. ASSUME NEW t \in Threads, CBegin(t) PROVE CachedQueued'
  <2>1. ASSUME NEW k \in CacheKey, Get(t, k) PROVE CachedQueued'
    BY <2>1 DEF Get, Begin, At, CReturn, Move, shared
  <2>2. ASSUME NEW k \in CacheKey, NEW b \in Block, Insert(t, k, b) PROVE CachedQueued'
    BY <2>2 DEF Insert, Begin, At, CReturn, Move, shared
  <2>3. CASE Clear(t)
    BY <2>3, Zenon DEF Clear
  <2>4. CASE ResetStats(t)
    BY <2>4, Zenon DEF ResetStats, shared, clocals
  <2> QED BY <1>1, <2>1, <2>2, <2>3, <2>4, Zenon DEF CBegin
<1>2. ASSUME NEW t \in Threads, CContinue(t) PROVE CachedQueued'
  <2>1. CASE GetLookup(t)
    BY <2>1, Zenon DEF GetLookup, shared
  <2>2. CASE GetTouch(t)
    <3>1. PICK k \in ckey[t] : PushBack(queue \ Front(Places(k)), k)
      BY <2>2, Zenon DEF GetTouch
    <3>2. \A p \in queue : p.key # k => p \in queue'
      BY <3>1, Zenon DEF PushBack, Front
    <3>3. [key |-> k, stamp |-> clock + 1] \in queue'
      BY <3>1, Zenon DEF PushBack
    <3>4. cache' = cache /\ victim' = victim
      BY <2>2, Zenon DEF GetTouch, clocals
    <3> QED BY <3>2, <3>3, <3>4
  <2>3. CASE GetHit(t)
    BY <2>3, Zenon DEF GetHit, At, CReturn, shared
  <2>4. CASE GetMiss(t)
    BY <2>4, Zenon DEF GetMiss, At, CReturn, shared
  <2>5. CASE InsertRoom(t)
    BY <2>5, Zenon DEF InsertRoom, shared, clocals
  <2>6. CASE EvictPop(t)
    <3>1. \A p \in queue : p \in queue' \/ p.key \in victim'[t]
      BY <2>6 DEF EvictPop
    <3>2. \A u \in Threads : victim[u] \subseteq victim'[u]
      BY <2>6 DEF EvictPop, At
    <3>3. cache' = cache
      BY <2>6, Zenon DEF EvictPop
    <3> QED BY <3>1, <3>2, <3>3
  <2>7. CASE EvictRemove(t)
    <3>1. PICK k \in victim[t] : cache' = cache \ Held(k)
      BY <2>7, Zenon DEF EvictRemove
    <3>2. queue' = queue /\ victim' = [victim EXCEPT ![t] = {}]
      BY <2>7, Zenon DEF EvictRemove
    <3>3. \A e \in cache' : e \in cache /\ e.key # k
      BY <3>1, Zenon DEF Held
    <3> QED BY <3>1, <3>2, <3>3
  <2>8. CASE EvictStat(t)
    BY <2>8, Zenon DEF EvictStat, shared, clocals
  <2>9. CASE InsertStore(t)
    <3>1. PICK k \in ckey[t], b \in cval[t] :
              /\ cache' = (cache \ Held(k)) \cup {[key |-> k, block |-> b]}
              /\ PushBack(queue, k) \/ PushBack(queue \ Places(k), k)
      BY <2>9, Zenon DEF InsertStore
    <3>2. \A p \in queue : p.key # k => p \in queue'
      BY <3>1, Zenon DEF PushBack
    <3>3. [key |-> k, stamp |-> clock + 1] \in queue'
      BY <3>1, Zenon DEF PushBack
    <3>4. \A e \in cache' : e \in cache \/ e.key = k
      BY <3>1
    <3>5. victim' = victim
      BY <2>9, Zenon DEF InsertStore, clocals
    <3> QED BY <3>2, <3>3, <3>4, <3>5
  <2>10. CASE InsertStat(t)
    BY <2>10, Zenon DEF InsertStat, At, CReturn, shared
  <2> QED BY <1>2, <2>1, <2>2, <2>3, <2>4, <2>5, <2>6, <2>7, <2>8, <2>9, <2>10, Zenon DEF CContinue
<1>3. CASE UNCHANGED cvars
  BY <1>3, Zenon DEF cvars, shared, clocals
<1> QED BY <1>1, <1>2, <1>3, Zenon DEF CNext, CRest

(* The inductive invariant of the cache.                                   *)
LEMMA CacheInvariant == CSpec => []CacheInv
<1>1. CInit => CacheInv
  BY DEF CInit, CacheInv, CTypeOK, VictimsHeld, StampsUnique, CachedQueued, Stats, NoStats, CStep
<1>2. CacheInv /\ [CNext]_cvars => CacheInv'
  BY TypeStep, QueueStep, QueuedStep, Zenon DEF CacheInv
<1> QED BY <1>1, <1>2, PTL DEF CSpec

(* Whatever threads do to the cache, its state has the types of lru.rs.    *)
THEOREM CacheTypeCorrect == CSpec => []CTypeOK
<1>1. CacheInv => CTypeOK
  BY Zenon DEF CacheInv
<1> QED BY <1>1, CacheInvariant, PTL

(* Every cached block stays evictable: the key of a block in the map is in *)
(* the LRU queue, or in the hands of an evict_one that will remove it.     *)
THEOREM CachedBlocksEvictable == CSpec => []CachedQueued
<1>1. CacheInv => CachedQueued
  BY Zenon DEF CacheInv
<1> QED BY <1>1, CacheInvariant, PTL

(***************************************************************************)
(* The statistics.                                                         *)
(***************************************************************************)

(* The set of threads in a lookup is finite, and a step of one thread adds *)
(* or removes that thread at most.                                         *)
LEMMA ThreadCounts ==
    ASSUME NEW S, S \subseteq Threads
    PROVE  /\ IsFiniteSet(S) /\ Cardinality(S) \in Nat /\ Cardinality(Threads) \in Nat
           /\ Cardinality(S) <= Cardinality(Threads)
           /\ \A t \in Threads \ S : Cardinality(S \cup {t}) = Cardinality(S) + 1
           /\ \A t \in S : Cardinality(S \ {t}) = Cardinality(S) - 1
<1>1. IsFiniteSet(Threads)
  BY ThreadsAssumption, Zenon
<1>2. IsFiniteSet(S) /\ Cardinality(S) <= Cardinality(Threads)
  BY <1>1, FS_Subset, Zenon
<1>3. Cardinality(S) \in Nat /\ Cardinality(Threads) \in Nat
  BY <1>1, <1>2, FS_CardinalityType, Zenon
<1>4. \A t \in Threads \ S : Cardinality(S \cup {t}) = Cardinality(S) + 1
  BY <1>2, FS_AddElement, Zenon
<1>5. \A t \in S : Cardinality(S \ {t}) = Cardinality(S) - 1
  BY <1>2, FS_RemoveElement, Zenon
<1> QED BY <1>2, <1>3, <1>4, <1>5, Zenon

LEMMA StatsStep == ASSUME CTypeOK, StatsBounded, [CNext]_cvars PROVE StatsBounded'
<1> DEFINE N == Cardinality(Threads)
           L == Cardinality(Looking)
<1>0. /\ Looking \subseteq Threads /\ Looking' \subseteq Threads
      /\ L \in Nat /\ N \in Nat /\ L' \in Nat /\ L' <= N
      /\ \A t \in Threads \ Looking : Cardinality(Looking \cup {t}) = L + 1
      /\ \A t \in Looking : Cardinality(Looking \ {t}) = L - 1
  <2>1. Looking \subseteq Threads /\ Looking' \subseteq Threads
    BY Zenon DEF Looking
  <2> QED BY <2>1, ThreadCounts, Zenon
<1>a. /\ stats.hits \in Nat /\ stats.misses \in Nat /\ stats.lookups \in Nat
      /\ stats.hits + stats.misses + L <= stats.lookups + N
  BY Zenon DEF CTypeOK, Stats, StatsBounded
<1>b. ASSUME Looking' = Looking, stats'.hits = stats.hits, stats'.misses = stats.misses,
             stats'.lookups \in {stats.lookups, stats.lookups + 1}
      PROVE  StatsBounded'
  <2>1. L' = L
    BY <1>b, Zenon
  <2> QED BY <1>0, <1>a, <1>b, <2>1 DEF StatsBounded
<1>1. ASSUME NEW t \in Threads, CBegin(t) PROVE StatsBounded'
  <2>1. ASSUME NEW k \in CacheKey, Get(t, k) PROVE StatsBounded'
    <3>0. /\ stats'.hits = stats.hits /\ stats'.misses = stats.misses
          /\ stats'.lookups = stats.lookups + 1 /\ cpc[t] = "idle"
      BY <2>1, Zenon DEF Get, Begin, At, CTypeOK, Stats
    <3>1. CASE Capacity = 0
      <4>1. cpc' = [cpc EXCEPT ![t] = "idle"]
        BY <2>1, <3>1, Zenon DEF Get, CReturn, Move
      <4>2. Looking' = Looking
        BY <3>0, <4>1, Zenon DEF CTypeOK, Looking
      <4> QED BY <1>b, <3>0, <4>2, Zenon
    <3>2. CASE Capacity # 0
      <4>1. cpc' = [cpc EXCEPT ![t] = "lookup"]
        BY <2>1, <3>2, Zenon DEF Get, Move
      <4>2. Looking' = Looking \cup {t} /\ t \notin Looking
        BY <3>0, <4>1, Zenon DEF CTypeOK, Looking
      <4>3. L' = L + 1
        BY <1>0, <4>2, Zenon
      <4> QED BY <1>0, <1>a, <3>0, <4>3 DEF StatsBounded
    <3> QED BY <3>1, <3>2, Zenon
  <2>2. ASSUME NEW k \in CacheKey, NEW b \in Block, Insert(t, k, b) PROVE StatsBounded'
    <3>1. /\ stats' = stats /\ cpc[t] = "idle"
          /\ cpc' = [cpc EXCEPT ![t] = "idle"] \/ cpc' = [cpc EXCEPT ![t] = "room"]
      BY <2>2, Zenon DEF Insert, Begin, At, CReturn, Move
    <3>2. Looking' = Looking
      BY <3>1, Zenon DEF CTypeOK, Looking
    <3> QED BY <1>b, <3>1, <3>2, Zenon
  <2>3. CASE Clear(t)
    <3>1. stats' = stats /\ cpc' = cpc
      BY <2>3, Zenon DEF Clear
    <3>2. Looking' = Looking
      BY <3>1, Zenon DEF Looking
    <3> QED BY <1>b, <3>1, <3>2, Zenon
  <2>4. CASE ResetStats(t)
    <3>1. stats'.hits = 0 /\ stats'.misses = 0 /\ stats'.lookups = 0
      BY <2>4, Zenon DEF ResetStats, NoStats
    <3> QED BY <1>0, <3>1 DEF StatsBounded
  <2> QED BY <1>1, <2>1, <2>2, <2>3, <2>4, Zenon DEF CBegin
<1>2. ASSUME NEW t \in Threads, CContinue(t) PROVE StatsBounded'
  <2>1. CASE GetLookup(t) \/ GetTouch(t)
    <3>1. /\ stats' = stats /\ cpc[t] \in {"lookup", "touch"}
          /\ \E s \in {"miss", "touch", "hit"} : cpc' = [cpc EXCEPT ![t] = s]
      BY <2>1, Zenon DEF GetLookup, GetTouch, At, Move
    <3>2. Looking' = Looking
      BY <3>1, Zenon DEF CTypeOK, Looking
    <3> QED BY <1>b, <3>1, <3>2, Zenon
  <2>2. CASE GetHit(t) \/ GetMiss(t)
    <3>1. /\ cpc[t] \in {"hit", "miss"} /\ cpc' = [cpc EXCEPT ![t] = "idle"]
          /\ stats'.lookups = stats.lookups
          /\ stats'.hits + stats'.misses = stats.hits + stats.misses + 1
      BY <2>2 DEF GetHit, GetMiss, At, CReturn, Move, CTypeOK, Stats
    <3>2. Looking' = Looking \ {t} /\ t \in Looking
      BY <3>1, Zenon DEF CTypeOK, Looking
    <3>3. L' = L - 1
      BY <1>0, <3>2, Zenon
    <3> QED BY <1>0, <1>a, <3>1, <3>3 DEF StatsBounded
  <2>3. CASE InsertRoom(t) \/ EvictPop(t) \/ EvictRemove(t) \/ EvictStat(t) \/ InsertStore(t)
             \/ InsertStat(t)
    <3>1. /\ cpc[t] \in {"room", "pop", "remove", "evicted", "store", "inserted"}
          /\ \E s \in {"room", "pop", "remove", "evicted", "store", "inserted", "idle"} :
                cpc' = [cpc EXCEPT ![t] = s]
      BY <2>3, Zenon DEF InsertRoom, EvictPop, EvictRemove, EvictStat, InsertStore, InsertStat, At, CReturn,
                  Move
    <3>2. stats'.hits = stats.hits /\ stats'.misses = stats.misses /\ stats'.lookups = stats.lookups
      BY <2>3, Zenon DEF InsertRoom, EvictPop, EvictRemove, EvictStat, InsertStore, InsertStat, CTypeOK,
                  Stats
    <3>3. Looking' = Looking
      BY <3>1, Zenon DEF CTypeOK, Looking
    <3> QED BY <1>b, <3>2, <3>3, Zenon
  <2> QED BY <1>2, <2>1, <2>2, <2>3, Zenon DEF CContinue
<1>3. CASE UNCHANGED cvars
  <2>1. stats' = stats /\ Looking' = Looking
    BY <1>3, Zenon DEF cvars, Looking
  <2> QED BY <1>b, <2>1, Zenon
<1> QED BY <1>1, <1>2, <1>3, Zenon DEF CNext, CRest

(* "cache hit rate" (lru.rs:46): with any number of threads, hits and      *)
(* misses exceed lookups by no more than the threads that were in a lookup *)
(* when the statistics were reset.                                         *)
THEOREM StatisticsBounded == CSpec => []StatsBounded
<1>1. CInit => StatsBounded
  <2> SUFFICES ASSUME CInit PROVE StatsBounded
    BY Zenon
  <2>1. Looking = {} /\ stats.hits = 0 /\ stats.misses = 0 /\ stats.lookups = 0
    BY Zenon DEF CInit, Looking, NoStats
  <2> QED BY <2>1, ThreadCounts, FS_EmptySet DEF StatsBounded
<1>2. CTypeOK /\ StatsBounded /\ [CNext]_cvars => StatsBounded'
  BY StatsStep, Zenon
<1> QED BY <1>1, <1>2, CacheTypeCorrect, PTL DEF CSpec

(***************************************************************************)
(* The capacity.                                                           *)
(***************************************************************************)

(* The map has one entry for each key, and an insert on its way holds one  *)
(* key and one block, which fits the cache.                                *)
OneEach == \A e, f \in cache : e.key = f.key => e = f

InsertSteps == {"room", "pop", "remove", "evicted", "store"}
InsertsFit ==
    \A t \in Threads : cpc[t] \in InsertSteps =>
        /\ \A b \in cval[t] : SizeOf[b] <= Capacity
        /\ cval[t] # {} /\ \A b, c \in cval[t] : b = c
        /\ \A k, l \in ckey[t] : k = l

(* With blocks of at most m bytes: the threads that have found room and    *)
(* are about to store add at most m each (OverBy), except that the last    *)
(* of them to find room saw that its own block fits, and that one whose    *)
(* key is cached will take the size of the old block off.                  *)
Storers == {t \in Threads : cpc[t] = "store"}
OverBy(m) == Cardinality(Storers) * m
Bound(m) == Capacity + (Cardinality(Threads) - 1) * m

AllFit(m) == size + OverBy(m) <= Bound(m)

LastFits(m) ==
    \E t \in Storers : \E b \in cval[t] : size + SizeOf[b] + OverBy(m) - m <= Bound(m)

ReplaceFits(m) ==
    \E u \in Storers, e \in cache :
        /\ e.key \in ckey[u]
        /\ size - SizeOf[e.block] + OverBy(m) <= Bound(m)
        /\ size + OverBy(m) - m <= Bound(m)

LastReplaceFits(m) ==
    \E t, u \in Storers : \E b \in cval[t], e \in cache :
        /\ t # u /\ e.key \in ckey[u]
        /\ size - SizeOf[e.block] + SizeOf[b] + OverBy(m) - m <= Bound(m)
        /\ size + SizeOf[b] + OverBy(m) - 2 * m <= Bound(m)

Fits(m) == AllFit(m) \/ LastFits(m) \/ ReplaceFits(m) \/ LastReplaceFits(m)

Largest == {m \in Nat : \E b \in Block : m = SizeOf[b] /\ \A c \in Block : SizeOf[c] <= m}
SizesFit == \A m \in Largest : Fits(m)

SizeInv == CTypeOK /\ OneEach /\ InsertsFit /\ SizesFit

LEMMA OneEachStep == ASSUME CTypeOK, OneEach, [CNext]_cvars PROVE OneEach'
<1>1. CASE cache' \subseteq cache
  BY <1>1, Zenon DEF OneEach
<1>2. ASSUME NEW t \in Threads, InsertStore(t) PROVE OneEach'
  <2>1. PICK k \in ckey[t], b \in cval[t] :
            cache' = (cache \ Held(k)) \cup {[key |-> k, block |-> b]}
    BY <1>2, Zenon DEF InsertStore
  <2> QED BY <2>1 DEF OneEach, Held
<1>3. ASSUME NEW t \in Threads, CBegin(t) PROVE cache' \subseteq cache
  BY <1>3, Zenon DEF CBegin, Get, Insert, Clear, ResetStats, shared
<1>4. ASSUME NEW t \in Threads, CContinue(t), ~InsertStore(t) PROVE cache' \subseteq cache
  BY <1>4, Zenon DEF CContinue, GetLookup, GetTouch, GetHit, GetMiss, InsertRoom, EvictPop, EvictRemove,
              EvictStat, InsertStat, shared
<1>5. CASE UNCHANGED cvars
  BY <1>1, <1>5, Zenon DEF cvars, shared
<1> QED BY <1>1, <1>2, <1>3, <1>4, <1>5, Zenon DEF CNext, CRest

LEMMA InsertsFitStep == ASSUME CTypeOK, InsertsFit, [CNext]_cvars PROVE InsertsFit'
<1> USE CacheAssumption DEF CTypeOK, InsertsFit, InsertSteps
<1>1. ASSUME NEW t \in Threads, CBegin(t) PROVE InsertsFit'
  <2>1. ASSUME NEW k \in CacheKey, Get(t, k) PROVE InsertsFit'
    BY <2>1 DEF Get, Begin, At, CReturn, Move
  <2>2. ASSUME NEW k \in CacheKey, NEW b \in Block, Insert(t, k, b) PROVE InsertsFit'
    BY <2>2, SMTT(30) DEF Insert, Begin, At, CReturn, Move
  <2>3. CASE Clear(t) \/ ResetStats(t)
    BY <2>3, Zenon DEF Clear, ResetStats, clocals
  <2> QED BY <1>1, <2>1, <2>2, <2>3, Zenon DEF CBegin
<1>2. ASSUME NEW t \in Threads, CContinue(t) PROVE InsertsFit'
  <2>1. CASE GetLookup(t) \/ GetTouch(t)
    BY <2>1 DEF GetLookup, GetTouch, At, Move, clocals
  <2>2. CASE GetHit(t) \/ GetMiss(t) \/ InsertStat(t)
    BY <2>2 DEF GetHit, GetMiss, InsertStat, At, CReturn, Move
  <2>3. CASE InsertRoom(t) \/ EvictPop(t) \/ EvictRemove(t) \/ EvictStat(t) \/ InsertStore(t)
    BY <2>3 DEF InsertRoom, EvictPop, EvictRemove, EvictStat, InsertStore, At, Move, clocals
  <2> QED BY <1>2, <2>1, <2>2, <2>3, Zenon DEF CContinue
<1>3. CASE UNCHANGED cvars
  BY <1>3, Zenon DEF cvars, clocals
<1> QED BY <1>1, <1>2, <1>3, Zenon DEF CNext, CRest

LEMMA BlockSizes ==
    ASSUME NEW m \in Largest
    PROVE  /\ m \in Nat /\ m > 0
           /\ \A b \in Block : SizeOf[b] \in Nat /\ SizeOf[b] > 0 /\ SizeOf[b] <= m
BY CacheAssumption DEF Largest

LEMMA Products ==
    ASSUME NEW m \in Nat, NEW n \in Nat, NEW l \in Nat, n <= l
    PROVE  n * m \in Nat /\ n * m <= l * m /\ (n + 1) * m = n * m + m /\ (n - 1) * m = n * m - m
OBVIOUS

(* The count of storing threads, in bytes.                                 *)
LEMMA StorerCounts ==
    ASSUME NEW m \in Nat
    PROVE  /\ OverBy(m) \in Nat /\ OverBy(m)' \in Nat
           /\ OverBy(m) <= Cardinality(Threads) * m /\ OverBy(m)' <= Cardinality(Threads) * m
           /\ Bound(m) = Capacity + Cardinality(Threads) * m - m /\ Bound(m)' = Bound(m)
           /\ Cardinality(Threads) * m \in Nat /\ Cardinality(Threads) * m >= m
<1>1. Storers \subseteq Threads /\ Storers' \subseteq Threads
  BY Zenon DEF Storers
<1>2. /\ Cardinality(Storers) \in Nat /\ Cardinality(Storers)' \in Nat
      /\ Cardinality(Storers) <= Cardinality(Threads) /\ Cardinality(Storers)' <= Cardinality(Threads)
      /\ Cardinality(Threads) \in Nat
  BY <1>1, ThreadCounts, Zenon
<1>3. Cardinality(Threads) >= 1
  <2>1. Cardinality(Threads) # 0
    BY ThreadsAssumption, FS_EmptySet, Zenon
  <2> QED BY <1>2, <2>1
<1>4. /\ OverBy(m) \in Nat /\ OverBy(m) <= Cardinality(Threads) * m
      /\ OverBy(m)' \in Nat /\ OverBy(m)' <= Cardinality(Threads) * m
  BY <1>2, Products, Zenon DEF OverBy
<1>5. /\ Cardinality(Threads) * m \in Nat /\ Cardinality(Threads) * m >= m
      /\ (Cardinality(Threads) - 1) * m = Cardinality(Threads) * m - m
  <2>1. 1 * m = m
    OBVIOUS
  <2> QED BY <1>2, <1>3, <2>1, Products
<1>6. Bound(m) = Capacity + Cardinality(Threads) * m - m /\ Bound(m)' = Bound(m)
  BY <1>5, CacheAssumption, Zenon DEF Bound
<1> QED BY <1>4, <1>5, <1>6, Zenon

(* A step that stores nothing, evicts nothing and finds no room.           *)
LEMMA FitsKept ==
    ASSUME NEW m, Fits(m), Storers' = Storers, cache' = cache, size' = size,
           \A t \in Storers : cval'[t] = cval[t] /\ ckey'[t] = ckey[t]
    PROVE  Fits(m)'
<1>1. OverBy(m)' = OverBy(m) /\ Bound(m)' = Bound(m)
  BY Zenon DEF OverBy, Bound
<1>2. AllFit(m) => AllFit(m)'
  BY <1>1, Zenon DEF AllFit
<1>3. LastFits(m) => LastFits(m)'
  BY <1>1, Zenon DEF LastFits
<1>4. ReplaceFits(m) => ReplaceFits(m)'
  BY <1>1, Zenon DEF ReplaceFits
<1>5. LastReplaceFits(m) => LastReplaceFits(m)'
  BY <1>1 DEF LastReplaceFits
<1> QED BY <1>2, <1>3, <1>4, <1>5, Zenon DEF Fits

(* A thread finds room: what it saw of the size leaves room for its block. *)
LEMMA FitsEntry ==
    ASSUME NEW m \in Largest, CTypeOK, CTypeOK', NEW t \in Threads, At(t, "room"),
           NEW b \in cval[t], NEW seen \in SeenSizes, ~(seen + SizeOf[b] > Capacity),
           Move(t, "store"), UNCHANGED <<shared, clocals>>
    PROVE  Fits(m)'
<1>0. /\ size \in Int /\ b \in Block /\ Capacity \in Nat
      /\ m \in Nat /\ \A c \in Block : SizeOf[c] \in Nat /\ SizeOf[c] <= m
  BY BlockSizes, CacheAssumption, Zenon DEF CTypeOK
<1>1. /\ OverBy(m)' <= Cardinality(Threads) * m /\ OverBy(m)' \in Nat
      /\ Bound(m)' = Capacity + Cardinality(Threads) * m - m
      /\ Cardinality(Threads) * m \in Nat
  BY <1>0, StorerCounts, Zenon
<1>2. Storers' = Storers \cup {t} /\ t \notin Storers
  BY Zenon DEF Storers, Move, At, CTypeOK
<1>3. size' = size /\ cache' = cache /\ cval' = cval /\ ckey' = ckey
  BY Zenon DEF shared, clocals
<1>4. CASE seen = size
  <2>1. size' + SizeOf[b] + OverBy(m)' - m <= Bound(m)'
    BY <1>0, <1>1, <1>3, <1>4
  <2>2. LastFits(m)'
    BY <1>2, <1>3, <2>1, Zenon DEF LastFits
  <2> QED BY <2>2, Zenon DEF Fits
<1>5. CASE seen # size
  <2>1. PICK e \in cache : e.key \in Storing /\ seen = size - SizeOf[e.block]
    BY <1>5, Zenon DEF SeenSizes
  <2>2. PICK u \in Storers : e.key \in ckey[u]
    BY <2>1, Zenon DEF Storing, Storers, At
  <2>3. e.block \in Block
    BY Zenon DEF CTypeOK, Entry
  <2>4. /\ size' - SizeOf[e.block] + SizeOf[b] + OverBy(m)' - m <= Bound(m)'
        /\ size' + SizeOf[b] + OverBy(m)' - 2 * m <= Bound(m)'
    BY <1>0, <1>1, <1>3, <2>1, <2>3
  <2>5. LastReplaceFits(m)'
    BY <1>2, <1>3, <2>2, <2>4 DEF LastReplaceFits
  <2> QED BY <2>5, Zenon DEF Fits
<1> QED BY <1>4, <1>5, Zenon

(* An eviction takes the size of a cached block off.                       *)
LEMMA FitsEvict ==
    ASSUME NEW m \in Largest, CTypeOK, OneEach, Fits(m), NEW e \in cache,
           cache' = cache \ Held(e.key), size' = size - SizeOf[e.block],
           Storers' = Storers, cval' = cval, ckey' = ckey
    PROVE  Fits(m)'
<1>0. /\ size \in Int /\ m \in Nat /\ Bound(m) \in Int /\ OverBy(m) \in Nat
      /\ \A c \in Block : SizeOf[c] \in Nat /\ SizeOf[c] <= m
      /\ \A f \in cache : f.block \in Block
  BY BlockSizes, StorerCounts, CacheAssumption DEF CTypeOK, Entry
<1>1. OverBy(m)' = OverBy(m) /\ Bound(m)' = Bound(m) /\ size' <= size
  BY <1>0 DEF OverBy, Bound
<1>2. \A f \in cache : f # e => f \in cache'
  BY Zenon DEF OneEach, Held
<1>3. CASE AllFit(m)
  BY <1>0, <1>1, <1>3 DEF AllFit, Fits
<1>4. CASE LastFits(m)
  <2>a. PICK t \in Storers : \E b \in cval[t] : size + SizeOf[b] + OverBy(m) - m <= Bound(m)
    BY <1>4, Zenon DEF LastFits
  <2>1. PICK b \in cval[t] : size + SizeOf[b] + OverBy(m) - m <= Bound(m)
    BY <2>a, Zenon
  <2>2. b \in Block
    BY Zenon DEF CTypeOK, Storers
  <2>3. size' + SizeOf[b] + OverBy(m)' - m <= Bound(m)'
    BY <1>0, <1>1, <2>1, <2>2
  <2> QED BY <2>1, <2>3, Zenon DEF LastFits, Fits
<1>5. CASE ReplaceFits(m)
  <2>1. PICK u \in Storers, f \in cache :
            /\ f.key \in ckey[u]
            /\ size - SizeOf[f.block] + OverBy(m) <= Bound(m)
            /\ size + OverBy(m) - m <= Bound(m)
    BY <1>5, Zenon DEF ReplaceFits
  <2>2. CASE f = e
    <3>1. AllFit(m)'
      BY <1>1, <2>1, <2>2, Zenon DEF AllFit
    <3> QED BY <3>1, Zenon DEF Fits
  <2>3. CASE f # e
    <3>1. /\ size' - SizeOf[f.block] + OverBy(m)' <= Bound(m)'
          /\ size' + OverBy(m)' - m <= Bound(m)'
      BY <1>0, <1>1, <2>1
    <3> QED BY <1>2, <2>1, <2>3, <3>1, Zenon DEF ReplaceFits, Fits
  <2> QED BY <2>2, <2>3, Zenon
<1>6. CASE LastReplaceFits(m)
  <2>a. PICK t \in Storers, u \in Storers : \E b \in cval[t], f \in cache :
            /\ t # u /\ f.key \in ckey[u]
            /\ size - SizeOf[f.block] + SizeOf[b] + OverBy(m) - m <= Bound(m)
            /\ size + SizeOf[b] + OverBy(m) - 2 * m <= Bound(m)
    BY <1>6, Zenon DEF LastReplaceFits
  <2>1. PICK b \in cval[t], f \in cache :
            /\ t # u /\ f.key \in ckey[u]
            /\ size - SizeOf[f.block] + SizeOf[b] + OverBy(m) - m <= Bound(m)
            /\ size + SizeOf[b] + OverBy(m) - 2 * m <= Bound(m)
    BY <2>a, Zenon
  <2>2. b \in Block
    BY Zenon DEF CTypeOK, Storers
  <2>3. CASE f = e
    <3>1. size' + SizeOf[b] + OverBy(m)' - m <= Bound(m)'
      BY <1>0, <1>1, <2>1, <2>2, <2>3, Zenon
    <3> QED BY <2>1, <3>1, Zenon DEF LastFits, Fits
  <2>4. CASE f # e
    <3>1. /\ size' - SizeOf[f.block] + SizeOf[b] + OverBy(m)' - m <= Bound(m)'
          /\ size' + SizeOf[b] + OverBy(m)' - 2 * m <= Bound(m)'
      BY <1>0, <1>1, <2>1, <2>2
    <3> QED BY <1>2, <2>1, <2>4, <3>1 DEF LastReplaceFits, Fits
  <2> QED BY <2>3, <2>4, Zenon
<1> QED BY <1>3, <1>4, <1>5, <1>6, Zenon DEF Fits

(* A store adds the size of one block of its thread, less that of the      *)
(* block it replaces.                                                      *)
LEMMA FitsStore ==
    ASSUME NEW m \in Largest, CTypeOK, OneEach, InsertsFit, Fits(m), NEW t \in Threads, InsertStore(t)
    PROVE  Fits(m)'
<1>1. PICK k \in ckey[t], b \in cval[t] :
          /\ cache' = (cache \ Held(k)) \cup {[key |-> k, block |-> b]}
          /\ \/ Held(k) = {} /\ size' = size + SizeOf[b]
             \/ \E e \in Held(k) : size' = size - SizeOf[e.block] + SizeOf[b]
  BY Zenon DEF InsertStore
<1>0. /\ size \in Int /\ m \in Nat /\ Bound(m) \in Int /\ OverBy(m) \in Nat
      /\ \A c \in Block : SizeOf[c] \in Nat /\ SizeOf[c] <= m
      /\ \A f \in cache : f.block \in Block
      /\ \A u \in Threads : cval[u] \subseteq Block
  BY BlockSizes, StorerCounts, CacheAssumption DEF CTypeOK, Entry
<1>2. /\ t \in Storers /\ Storers' = Storers \ {t} /\ cval' = cval /\ ckey' = ckey
      /\ \A c \in cval[t] : c = b
      /\ \A l \in ckey[t] : l = k
  BY Zenon DEF InsertStore, Storers, Move, At, CTypeOK, clocals, InsertsFit, InsertSteps
<1>3. OverBy(m)' = OverBy(m) - m /\ Bound(m)' = Bound(m)
  <2>1. Cardinality(Storers') = Cardinality(Storers) - 1 /\ Cardinality(Storers) \in Nat
    BY <1>2, ThreadCounts, Zenon DEF Storers
  <2>2. (Cardinality(Storers) - 1) * m = Cardinality(Storers) * m - m
    BY <1>0, <2>1, Products
  <2> QED BY <2>1, <2>2, Zenon DEF OverBy, Bound
<1>4. /\ \A f \in cache : f.key # k => f \in cache'
      /\ \A f \in cache : f.key = k => size' = size - SizeOf[f.block] + SizeOf[b]
      /\ size' \in Int /\ size' <= size + SizeOf[b]
      /\ b \in Block
  <2>1. b \in Block
    BY <1>0, Zenon
  <2>2. \A f \in cache : f.key # k => f \in cache'
    BY <1>1, Zenon DEF Held
  <2>3. \A f \in cache : f.key = k => size' = size - SizeOf[f.block] + SizeOf[b]
    BY <1>1, Zenon DEF OneEach, Held
  <2>4. size' \in Int /\ size' <= size + SizeOf[b]
    <3>1. CASE Held(k) = {}
      BY <1>0, <1>1, <2>1, <3>1
    <3>2. CASE Held(k) # {}
      <4>1. PICK f \in cache : f.key = k
        BY <3>2, Zenon DEF Held
      <4> QED BY <1>0, <2>1, <2>3, <4>1
    <3> QED BY <3>1, <3>2, Zenon
  <2> QED BY <2>1, <2>2, <2>3, <2>4, Zenon
<1>5. CASE AllFit(m)
  <2>1. AllFit(m)'
    BY <1>0, <1>3, <1>4, <1>5 DEF AllFit
  <2> QED BY <2>1, Zenon DEF Fits
<1>6. CASE LastFits(m)
  <2>1. PICK t0 \in Storers : \E c \in cval[t0] : size + SizeOf[c] + OverBy(m) - m <= Bound(m)
    BY <1>6, Zenon DEF LastFits
  <2>2. PICK c \in cval[t0] : size + SizeOf[c] + OverBy(m) - m <= Bound(m)
    BY <2>1, Zenon
  <2>3. c \in Block
    BY <1>0, Zenon DEF Storers
  <2>4. CASE t0 = t
    <3>1. AllFit(m)'
      BY <1>0, <1>2, <1>3, <1>4, <2>2, <2>4 DEF AllFit
    <3> QED BY <3>1, Zenon DEF Fits
  <2>5. CASE t0 # t
    <3>1. size' + SizeOf[c] + OverBy(m)' - m <= Bound(m)'
      BY <1>0, <1>3, <1>4, <2>2, <2>3
    <3> QED BY <1>2, <2>2, <2>5, <3>1, Zenon DEF LastFits, Fits
  <2> QED BY <2>4, <2>5, Zenon
<1>7. CASE ReplaceFits(m)
  <2>1. PICK u \in Storers, f \in cache :
            /\ f.key \in ckey[u]
            /\ size - SizeOf[f.block] + OverBy(m) <= Bound(m)
            /\ size + OverBy(m) - m <= Bound(m)
    BY <1>7, Zenon DEF ReplaceFits
  <2>2. CASE f.key = k
    <3>1. AllFit(m)'
      BY <1>0, <1>3, <1>4, <2>1, <2>2 DEF AllFit
    <3> QED BY <3>1, Zenon DEF Fits
  <2>3. CASE f.key # k
    <3>1. u \in Storers' /\ f \in cache'
      BY <1>2, <1>4, <2>1, <2>3, Zenon
    <3>2. /\ size' - SizeOf[f.block] + OverBy(m)' <= Bound(m)'
          /\ size' + OverBy(m)' - m <= Bound(m)'
      BY <1>0, <1>3, <1>4, <2>1
    <3> QED BY <1>2, <2>1, <3>1, <3>2, Zenon DEF ReplaceFits, Fits
  <2> QED BY <2>2, <2>3, Zenon
<1>8. CASE LastReplaceFits(m)
  <2>1. PICK t0 \in Storers, u \in Storers : \E c \in cval[t0], f \in cache :
            /\ t0 # u /\ f.key \in ckey[u]
            /\ size - SizeOf[f.block] + SizeOf[c] + OverBy(m) - m <= Bound(m)
            /\ size + SizeOf[c] + OverBy(m) - 2 * m <= Bound(m)
    BY <1>8, Zenon DEF LastReplaceFits
  <2>2. PICK c \in cval[t0], f \in cache :
            /\ t0 # u /\ f.key \in ckey[u]
            /\ size - SizeOf[f.block] + SizeOf[c] + OverBy(m) - m <= Bound(m)
            /\ size + SizeOf[c] + OverBy(m) - 2 * m <= Bound(m)
    BY <2>1, Zenon
  <2>3. c \in Block /\ f.block \in Block
    BY <1>0, Zenon DEF Storers
  <2>4. CASE f.key = k /\ t0 = t
    <3>1. AllFit(m)'
      BY <1>0, <1>2, <1>3, <1>4, <2>2, <2>3, <2>4, Zenon DEF AllFit
    <3> QED BY <3>1, Zenon DEF Fits
  <2>5. CASE f.key = k /\ t0 # t
    <3>1. size' + SizeOf[c] + OverBy(m)' - m <= Bound(m)'
      BY <1>0, <1>3, <1>4, <2>2, <2>3, <2>5
    <3> QED BY <1>2, <2>2, <2>5, <3>1, Zenon DEF LastFits, Fits
  <2>6. CASE f.key # k
    <3>1. u \in Storers' /\ f \in cache'
      BY <1>2, <1>4, <2>2, <2>6, Zenon
    <3>2. CASE t0 = t
      <4>1. /\ size' - SizeOf[f.block] + OverBy(m)' <= Bound(m)'
            /\ size' + OverBy(m)' - m <= Bound(m)'
        <5>1. /\ SizeOf[c] = SizeOf[b] /\ SizeOf[b] \in Nat /\ SizeOf[f.block] \in Nat
              /\ SizeOf[b] <= m
          BY <1>0, <1>2, <1>4, <2>2, <2>3, <3>2, Zenon
        <5>2. /\ size \in Int /\ m \in Nat /\ Bound(m) \in Int /\ OverBy(m) \in Nat
              /\ size' \in Int /\ size' <= size + SizeOf[b]
          BY <1>0, <1>4, Zenon
        <5>3. /\ size - SizeOf[f.block] + SizeOf[c] + OverBy(m) - m <= Bound(m)
              /\ size + SizeOf[c] + OverBy(m) - 2 * m <= Bound(m)
          BY <2>2, Zenon
        <5> QED BY <1>3, <5>1, <5>2, <5>3
      <4> QED BY <1>2, <2>2, <3>1, <4>1, Zenon DEF ReplaceFits, Fits
    <3>3. CASE t0 # t
      <4>1. /\ size' - SizeOf[f.block] + SizeOf[c] + OverBy(m)' - m <= Bound(m)'
            /\ size' + SizeOf[c] + OverBy(m)' - 2 * m <= Bound(m)'
        BY <1>0, <1>3, <1>4, <2>2, <2>3
      <4> QED BY <1>2, <2>2, <3>1, <3>3, <4>1, Zenon DEF LastReplaceFits, Fits
    <3> QED BY <3>2, <3>3, Zenon
  <2> QED BY <2>4, <2>5, <2>6, Zenon
<1> QED BY <1>5, <1>6, <1>7, <1>8, Zenon DEF Fits

(* An emptied cache has room for every block on its way.                   *)
LEMMA FitsClear ==
    ASSUME NEW m \in Largest, CTypeOK, InsertsFit, size' = 0, Storers' = Storers, cval' = cval
    PROVE  Fits(m)'
<1>0. /\ m \in Nat /\ Capacity \in Nat /\ OverBy(m)' \in Nat /\ Cardinality(Threads) * m \in Nat
      /\ OverBy(m)' <= Cardinality(Threads) * m /\ Cardinality(Threads) * m >= m
      /\ Bound(m)' = Capacity + Cardinality(Threads) * m - m
      /\ \A c \in Block : SizeOf[c] \in Nat /\ SizeOf[c] <= m
  BY BlockSizes, StorerCounts, CacheAssumption, Zenon
<1>1. CASE Storers = {}
  <2>1. OverBy(m)' = 0
    BY <1>0, <1>1, FS_EmptySet DEF OverBy
  <2>2. AllFit(m)'
    BY <1>0, <2>1 DEF AllFit
  <2> QED BY <2>2, Zenon DEF Fits
<1>2. CASE Storers # {}
  <2>1. PICK t \in Storers : TRUE
    BY <1>2, Zenon
  <2>2. PICK b \in cval[t] : TRUE
    BY <2>1, Zenon DEF InsertsFit, InsertSteps, Storers
  <2>3. b \in Block /\ SizeOf[b] <= Capacity
    BY Zenon DEF InsertsFit, InsertSteps, Storers, CTypeOK
  <2>4. size' + SizeOf[b] + OverBy(m)' - m <= Bound(m)'
    BY <1>0, <2>3
  <2> QED BY <2>4, Zenon DEF LastFits, Fits
<1> QED BY <1>1, <1>2, Zenon

LEMMA SizesFitStep ==
    ASSUME CTypeOK, CTypeOK', OneEach, InsertsFit, SizesFit, [CNext]_cvars PROVE SizesFit'
<1> SUFFICES ASSUME NEW m \in Largest PROVE Fits(m)'
  BY Zenon DEF SizesFit, Largest
<1>0. Fits(m)
  BY Zenon DEF SizesFit
<1>1. ASSUME NEW t \in Threads, CBegin(t) PROVE Fits(m)'
  <2>1. CASE Clear(t)
    <3>1. size' = 0 /\ Storers' = Storers /\ cval' = cval
      BY <2>1, Zenon DEF Clear, Storers, clocals
    <3> QED BY <3>1, FitsClear, Zenon
  <2>2. CASE ~Clear(t)
    <3>1. /\ cpc[t] = "idle" /\ UNCHANGED shared
          /\ \A u \in Threads \ {t} : cpc'[u] = cpc[u] /\ cval'[u] = cval[u] /\ ckey'[u] = ckey[u]
          /\ cpc'[t] # "store"
      BY <1>1, <2>2 DEF CBegin, Get, Insert, ResetStats, Begin, At, CReturn, Move, clocals, CTypeOK
    <3>2. Storers' = Storers /\ t \notin Storers
      BY <3>1, Zenon DEF Storers
    <3> QED BY <1>0, <3>1, <3>2, FitsKept, Zenon DEF shared, Storers
  <2> QED BY <2>1, <2>2, Zenon
<1>2. ASSUME NEW t \in Threads, CContinue(t) PROVE Fits(m)'
  <2>1. CASE GetLookup(t) \/ GetTouch(t) \/ GetHit(t) \/ GetMiss(t) \/ InsertStat(t)
    <3>1. /\ cpc[t] # "store" /\ cache' = cache /\ size' = size
          /\ \A u \in Threads \ {t} : cpc'[u] = cpc[u] /\ cval'[u] = cval[u] /\ ckey'[u] = ckey[u]
          /\ cpc'[t] # "store"
      BY <2>1, Zenon DEF GetLookup, GetTouch, GetHit, GetMiss, InsertStat, At, CReturn, Move, clocals, shared,
                  CTypeOK
    <3>2. Storers' = Storers /\ t \notin Storers
      BY <3>1, Zenon DEF Storers
    <3> QED BY <1>0, <3>1, <3>2, FitsKept, Zenon DEF Storers
  <2>2. CASE EvictPop(t) \/ EvictStat(t)
    <3>1. /\ cpc[t] # "store" /\ cache' = cache /\ size' = size /\ cval' = cval /\ ckey' = ckey
          /\ \A u \in Threads \ {t} : cpc'[u] = cpc[u]
          /\ cpc'[t] # "store"
      BY <2>2, Zenon DEF EvictPop, EvictStat, At, Move, clocals, shared, CTypeOK
    <3>2. Storers' = Storers
      BY <3>1, Zenon DEF Storers
    <3> QED BY <1>0, <3>1, <3>2, FitsKept, Zenon
  <2>3. CASE InsertRoom(t)
    <3>1. PICK b \in cval[t], seen \in SeenSizes :
              Move(t, IF seen + SizeOf[b] > Capacity THEN "pop" ELSE "store")
      BY <2>3, Zenon DEF InsertRoom
    <3>2. At(t, "room") /\ UNCHANGED <<shared, clocals>>
      BY <2>3, Zenon DEF InsertRoom
    <3>3. CASE seen + SizeOf[b] > Capacity
      <4>1. Storers' = Storers
        BY <3>1, <3>2, <3>3, Zenon DEF Storers, Move, At, CTypeOK
      <4> QED BY <1>0, <3>2, <4>1, FitsKept, Zenon DEF shared, clocals
    <3>4. CASE ~(seen + SizeOf[b] > Capacity)
      <4>1. Move(t, "store")
        BY <3>1, <3>4, Zenon
      <4> QED BY <3>2, <3>4, <4>1, FitsEntry, Zenon
    <3> QED BY <3>3, <3>4, Zenon
  <2>4. CASE EvictRemove(t)
    <3>1. PICK k \in victim[t] :
              /\ cache' = cache \ Held(k)
              /\ IF Held(k) = {} THEN Move(t, "room") /\ UNCHANGED size
                 ELSE Move(t, "evicted") /\ \E e \in Held(k) : size' = size - SizeOf[e.block]
      BY <2>4, Zenon DEF EvictRemove
    <3>2. cval' = cval /\ ckey' = ckey
      BY <2>4, Zenon DEF EvictRemove
    <3>3. Storers' = Storers
      BY <2>4, Zenon DEF EvictRemove, Storers, Move, At, CTypeOK
    <3>4. CASE Held(k) = {}
      BY <1>0, <3>1, <3>2, <3>3, <3>4, FitsKept, Zenon
    <3>5. CASE Held(k) # {}
      <4>1. PICK e \in Held(k) : size' = size - SizeOf[e.block]
        BY <3>1, <3>5, Zenon
      <4>2. e \in cache /\ e.key = k
        BY Zenon DEF Held
      <4> QED BY <1>0, <3>1, <3>2, <3>3, <4>1, <4>2, FitsEvict, Zenon
    <3> QED BY <3>4, <3>5, Zenon
  <2>5. CASE InsertStore(t)
    BY <1>0, <2>5, FitsStore, Zenon
  <2> QED BY <1>2, <2>1, <2>2, <2>3, <2>4, <2>5, Zenon DEF CContinue
<1>3. CASE UNCHANGED cvars
  <2>1. Storers' = Storers
    BY <1>3, Zenon DEF cvars, Storers
  <2> QED BY <1>0, <1>3, <2>1, FitsKept, Zenon DEF cvars, shared, clocals
<1> QED BY <1>1, <1>2, <1>3, Zenon DEF CNext, CRest

LEMMA SizeInvariant == CSpec => []SizeInv
<1>1. CInit => SizeInv
  <2> SUFFICES ASSUME CInit PROVE SizeInv
    BY Zenon
  <2>1. CTypeOK /\ OneEach /\ InsertsFit
    BY DEF CInit, CTypeOK, OneEach, InsertsFit, InsertSteps, Stats, NoStats, CStep
  <2>2. ASSUME NEW m \in Largest PROVE Fits(m)
    <3>1. Storers = {} /\ size = 0
      BY Zenon DEF CInit, Storers
    <3>2. OverBy(m) = 0
      BY <3>1, BlockSizes, FS_EmptySet DEF OverBy
    <3>3. AllFit(m)
      BY <3>1, <3>2, BlockSizes, StorerCounts, CacheAssumption DEF AllFit
    <3> QED BY <3>3, Zenon DEF Fits
  <2> QED BY <2>1, <2>2, Zenon DEF SizeInv, SizesFit
<1>2. SizeInv /\ [CNext]_cvars => SizeInv'
  BY TypeStep, OneEachStep, InsertsFitStep, SizesFitStep, Zenon DEF SizeInv
<1> QED BY <1>1, <1>2, PTL DEF CSpec

LEMMA SizeInvBounded == ASSUME SizeInv PROVE SizeBounded
<1> SUFFICES ASSUME NEW x \in Block, \A c \in Block : SizeOf[c] <= SizeOf[x]
             PROVE  size <= Capacity + (Cardinality(Threads) - 1) * SizeOf[x]
  BY Zenon DEF SizeBounded
<1> DEFINE m == SizeOf[x]
<1>1. m \in Largest /\ Fits(m)
  BY CacheAssumption, Zenon DEF Largest, SizeInv, SizesFit
<1> HIDE DEF m
<1>0. /\ size \in Int /\ m \in Nat /\ Bound(m) \in Int /\ OverBy(m) \in Nat
      /\ \A c \in Block : SizeOf[c] \in Nat
      /\ \A u \in Threads : cval[u] \subseteq Block
  BY <1>1, BlockSizes, StorerCounts, CacheAssumption DEF SizeInv, CTypeOK
<1>a. ASSUME NEW t \in Storers PROVE OverBy(m) >= m
  <2>1. Cardinality(Storers) \in Nat /\ Cardinality(Storers) # 0
    BY ThreadCounts, FS_EmptySet, Zenon DEF Storers
  <2>2. 1 * m = m /\ 1 * m <= Cardinality(Storers) * m
    BY <1>0, <2>1, Products
  <2> QED BY <2>2, Zenon DEF OverBy
<1>b. ASSUME NEW t \in Storers, NEW u \in Storers, t # u PROVE OverBy(m) >= 2 * m
  <2>1. Cardinality(Storers) \in Nat /\ Cardinality(Storers \ {t}) = Cardinality(Storers) - 1
    BY ThreadCounts, Zenon DEF Storers
  <2>2. Cardinality(Storers \ {t}) \in Nat /\ Cardinality(Storers \ {t}) # 0
    BY <1>b, ThreadCounts, FS_EmptySet DEF Storers
  <2>3. 2 * m <= Cardinality(Storers) * m
    BY <1>0, <2>1, <2>2, Products
  <2> QED BY <2>3, Zenon DEF OverBy
<1>2. size <= Bound(m)
  <2>1. CASE AllFit(m)
    BY <1>0, <2>1 DEF AllFit
  <2>2. CASE LastFits(m)
    BY <1>0, <1>a, <2>2 DEF LastFits, Storers
  <2>3. CASE ReplaceFits(m)
    BY <1>0, <1>a, <2>3 DEF ReplaceFits
  <2>4. CASE LastReplaceFits(m)
    BY <1>0, <1>b, <2>4 DEF LastReplaceFits, Storers
  <2> QED BY <1>1, <2>1, <2>2, <2>3, <2>4, Zenon DEF Fits
<1> QED BY <1>2, Zenon DEF Bound, m

(* The capacity is overrun by at most one block for each thread but one,   *)
(* for any number of threads and blocks of any sizes, although the size is *)
(* read without a lock (lru.rs:178) and in the middle of a replacement.    *)
THEOREM CapacityBounded == CSpec => []SizeBounded
<1>1. SizeInv => SizeBounded
  BY SizeInvBounded, Zenon
<1> QED BY <1>1, SizeInvariant, PTL

(***************************************************************************)
(* The size is the size of what is cached.  Bytes(S) has one element for   *)
(* every byte of the entries S.                                            *)
(***************************************************************************)
EntryBytes(e) == {e} \X (1 .. SizeOf[e.block])
Bytes(S) == UNION {EntryBytes(e) : e \in S}

ExactInv ==
    /\ CTypeOK /\ OneEach
    /\ IsFiniteSet(Bytes(cache)) /\ size = Cardinality(Bytes(cache))

LEMMA EntryCounts ==
    ASSUME NEW e \in Entry
    PROVE  /\ SizeOf[e.block] \in Nat
           /\ IsFiniteSet(EntryBytes(e)) /\ Cardinality(EntryBytes(e)) = SizeOf[e.block]
<1> DEFINE n == SizeOf[e.block]
<1>1. n \in Nat
  BY CacheAssumption, Zenon DEF Entry
<1> HIDE DEF n
<1>2. IsFiniteSet(1 .. n) /\ Cardinality(1 .. n) = n
  BY <1>1, FS_Interval
<1>3. IsFiniteSet({e}) /\ Cardinality({e}) = 1
  BY FS_Singleton, Zenon
<1>4. IsFiniteSet({e} \X (1 .. n)) /\ Cardinality({e} \X (1 .. n)) = 1 * Cardinality(1 .. n)
  BY <1>2, <1>3, FS_Product, Zenon
<1> QED BY <1>1, <1>2, <1>4 DEF EntryBytes, n

LEMMA ByteOf ==
    ASSUME NEW S, NEW x
    PROVE  x \in Bytes(S) <=> \E e \in S : x \in EntryBytes(e)
BY Zenon DEF Bytes

LEMMA OwnBytes ==
    ASSUME NEW d, NEW e, NEW x \in EntryBytes(d), x \in EntryBytes(e)
    PROVE  d = e
BY Zenon DEF EntryBytes

LEMMA BytesAdded ==
    ASSUME NEW S, IsFiniteSet(Bytes(S)), NEW e \in Entry, e \notin S
    PROVE  /\ IsFiniteSet(Bytes(S \cup {e}))
           /\ Cardinality(Bytes(S \cup {e})) = Cardinality(Bytes(S)) + SizeOf[e.block]
<1>1. Bytes(S \cup {e}) = Bytes(S) \cup EntryBytes(e)
  <2>1. ASSUME NEW x PROVE x \in Bytes(S \cup {e}) <=> x \in Bytes(S) \/ x \in EntryBytes(e)
    <3>1. /\ x \in Bytes(S) <=> \E d \in S : x \in EntryBytes(d)
          /\ x \in Bytes(S \cup {e}) <=> \E d \in S \cup {e} : x \in EntryBytes(d)
      BY ByteOf, Zenon
    <3> QED BY <3>1, Zenon
  <2> QED BY <2>1, Zenon
<1>2. Bytes(S) \cap EntryBytes(e) = {}
  <2>1. ASSUME NEW x \in EntryBytes(e), x \in Bytes(S) PROVE FALSE
    <3>1. PICK d \in S : x \in EntryBytes(d)
      BY <2>1, ByteOf, Zenon
    <3>2. d = e
      BY <3>1, OwnBytes, Zenon
    <3> QED BY <3>2, Zenon
  <2> QED BY <2>1, Zenon
<1>3. IsFiniteSet(EntryBytes(e)) /\ Cardinality(EntryBytes(e)) = SizeOf[e.block]
  BY EntryCounts, Zenon
<1>4. /\ IsFiniteSet(Bytes(S) \cup EntryBytes(e))
      /\ Cardinality(Bytes(S) \cup EntryBytes(e))
           = Cardinality(Bytes(S)) + Cardinality(EntryBytes(e)) - Cardinality({})
  BY <1>2, <1>3, FS_Union
<1>5. Cardinality(Bytes(S)) \in Nat /\ Cardinality(EntryBytes(e)) \in Nat
  BY <1>3, FS_CardinalityType, Zenon
<1>6. Cardinality({}) = 0
  BY FS_EmptySet, Zenon
<1>7. Cardinality(Bytes(S) \cup EntryBytes(e)) = Cardinality(Bytes(S)) + SizeOf[e.block]
  BY <1>3, <1>4, <1>5, <1>6
<1> QED BY <1>1, <1>4, <1>7, Zenon

LEMMA BytesRemoved ==
    ASSUME NEW S, IsFiniteSet(Bytes(S)), NEW e \in Entry, e \in S
    PROVE  /\ IsFiniteSet(Bytes(S \ {e}))
           /\ Cardinality(Bytes(S \ {e})) = Cardinality(Bytes(S)) - SizeOf[e.block]
<1>1. Bytes(S \ {e}) = Bytes(S) \ EntryBytes(e)
  <2>1. ASSUME NEW x PROVE x \in Bytes(S \ {e}) <=> x \in Bytes(S) /\ x \notin EntryBytes(e)
    <3>1. /\ x \in Bytes(S) <=> \E d \in S : x \in EntryBytes(d)
          /\ x \in Bytes(S \ {e}) <=> \E d \in S \ {e} : x \in EntryBytes(d)
      BY ByteOf, Zenon
    <3>2. \A d : x \in EntryBytes(d) /\ x \in EntryBytes(e) => d = e
      BY OwnBytes, Zenon
    <3> QED BY <3>1, <3>2, Zenon
  <2> QED BY <2>1, Zenon
<1>2. Bytes(S) \cap EntryBytes(e) = EntryBytes(e)
  BY ByteOf, Zenon
<1>3. Cardinality(EntryBytes(e)) = SizeOf[e.block]
  BY EntryCounts, Zenon
<1>4. /\ IsFiniteSet(Bytes(S) \ EntryBytes(e))
      /\ Cardinality(Bytes(S) \ EntryBytes(e)) =
            Cardinality(Bytes(S)) - Cardinality(Bytes(S) \cap EntryBytes(e))
  BY FS_Difference, Zenon
<1> QED BY <1>1, <1>2, <1>3, <1>4, Zenon

LEMMA HeldOne ==
    ASSUME OneEach, NEW k, NEW e \in Held(k)
    PROVE  Held(k) = {e} /\ e \in cache
BY Zenon DEF OneEach, Held

LEMMA ExactEvict ==
    ASSUME ExactInv, NEW t \in Threads, EvictRemove(t)
    PROVE  IsFiniteSet(Bytes(cache')) /\ size' = Cardinality(Bytes(cache'))
<1>1. PICK k \in victim[t] :
          /\ cache' = cache \ Held(k)
          /\ IF Held(k) = {} THEN size' = size
             ELSE \E e \in Held(k) : size' = size - SizeOf[e.block]
  BY Zenon DEF EvictRemove
<1>2. CASE Held(k) = {}
  <2>1. cache' = cache /\ size' = size
    BY <1>1, <1>2, Zenon
  <2> QED BY <2>1, Zenon DEF ExactInv
<1>3. CASE Held(k) # {}
  <2>1. PICK e \in Held(k) : size' = size - SizeOf[e.block]
    BY <1>1, <1>3, Zenon
  <2>2. Held(k) = {e} /\ e \in cache
    BY HeldOne, Zenon DEF ExactInv
  <2>3. e \in Entry
    BY <2>2, Zenon DEF ExactInv, CTypeOK
  <2>4. cache' = cache \ {e}
    BY <1>1, <2>2, Zenon
  <2> QED BY <2>1, <2>2, <2>3, <2>4, BytesRemoved, Zenon DEF ExactInv
<1> QED BY <1>2, <1>3, Zenon

LEMMA ExactStore ==
    ASSUME ExactInv, NEW t \in Threads, InsertStore(t)
    PROVE  IsFiniteSet(Bytes(cache')) /\ size' = Cardinality(Bytes(cache'))
<1>1. PICK k \in ckey[t], b \in cval[t] :
          /\ cache' = (cache \ Held(k)) \cup {[key |-> k, block |-> b]}
          /\ \/ Held(k) = {} /\ size' = size + SizeOf[b]
             \/ \E e \in Held(k) : size' = size - SizeOf[e.block] + SizeOf[b]
  BY Zenon DEF InsertStore
<1>2. k \in CacheKey /\ b \in Block
  BY Zenon DEF ExactInv, CTypeOK
<1> DEFINE n == [key |-> k, block |-> b]
           rest == cache \ Held(k)
<1>3. n \in Entry /\ n.block = b /\ n \notin rest /\ cache' = rest \cup {n}
  BY <1>1, <1>2, Zenon DEF Entry, Held
<1> HIDE DEF n, rest
<1>4. SizeOf[b] \in Nat /\ SizeOf[n.block] = SizeOf[b]
  BY <1>2, <1>3, CacheAssumption, Zenon
<1>5. /\ IsFiniteSet(Bytes(rest))
      /\ size' = Cardinality(Bytes(rest)) + SizeOf[b]
  <2>1. CASE Held(k) = {} /\ size' = size + SizeOf[b]
    <3>1. rest = cache
      BY <2>1, Zenon DEF rest
    <3> QED BY <2>1, <3>1, Zenon DEF ExactInv
  <2>2. ASSUME NEW e \in Held(k), size' = size - SizeOf[e.block] + SizeOf[b]
        PROVE  IsFiniteSet(Bytes(rest)) /\ size' = Cardinality(Bytes(rest)) + SizeOf[b]
    <3>1. Held(k) = {e} /\ e \in cache
      BY HeldOne, Zenon DEF ExactInv
    <3>2. e \in Entry
      BY <3>1, Zenon DEF ExactInv, CTypeOK
    <3>3. rest = cache \ {e}
      BY <3>1, Zenon DEF rest
    <3> QED BY <2>2, <3>1, <3>2, <3>3, BytesRemoved, Zenon DEF ExactInv
  <2> QED BY <1>1, <2>1, <2>2, Zenon
<1>6. IsFiniteSet(Bytes(rest \cup {n}))
      /\ Cardinality(Bytes(rest \cup {n})) = Cardinality(Bytes(rest)) + SizeOf[n.block]
  BY <1>3, <1>5, BytesAdded, Zenon
<1> QED BY <1>3, <1>4, <1>5, <1>6, Zenon

LEMMA ExactStep == ASSUME ExactInv, [CNext]_cvars PROVE ExactInv'
<1>1. CTypeOK' /\ OneEach'
  BY TypeStep, OneEachStep, Zenon DEF ExactInv
<1>2. CASE cache' = cache /\ size' = size
  BY <1>1, <1>2, Zenon DEF ExactInv
<1>3. ASSUME NEW t \in Threads, CBegin(t) PROVE ExactInv'
  <2>1. CASE Clear(t)
    <3>1. cache' = {} /\ size' = 0
      BY <2>1, Zenon DEF Clear
    <3>2. Bytes({}) = {}
      BY Zenon DEF Bytes
    <3> QED BY <1>1, <3>1, <3>2, FS_EmptySet, Zenon DEF ExactInv
  <2>2. CASE ~Clear(t)
    <3>1. UNCHANGED shared
      BY <1>3, <2>2, Zenon DEF CBegin, Get, Insert, ResetStats
    <3> QED BY <1>2, <3>1, Zenon DEF shared
  <2> QED BY <2>1, <2>2, Zenon
<1>4. ASSUME NEW t \in Threads, CContinue(t) PROVE ExactInv'
  <2>1. CASE EvictRemove(t)
    BY <1>1, <2>1, ExactEvict, Zenon DEF ExactInv
  <2>2. CASE InsertStore(t)
    BY <1>1, <2>2, ExactStore, Zenon DEF ExactInv
  <2>3. CASE ~EvictRemove(t) /\ ~InsertStore(t)
    <3>1. cache' = cache /\ size' = size
      BY <1>4, <2>3, Zenon DEF CContinue, GetLookup, GetTouch, GetHit, GetMiss, InsertRoom, EvictPop,
                        EvictStat, InsertStat, shared
    <3> QED BY <1>2, <3>1, Zenon
  <2> QED BY <2>1, <2>2, <2>3, Zenon
<1>5. CASE UNCHANGED cvars
  BY <1>2, <1>5, Zenon DEF cvars, shared
<1> QED BY <1>3, <1>4, <1>5, Zenon DEF CNext, CRest

(* current_size is the sum of the sizes of the blocks in the map after     *)
(* every critical section, whatever the threads' inserts, replacements,    *)
(* evictions and clears interleave (lru.rs:164-275): the counter neither   *)
(* drifts nor goes below zero.                                             *)
THEOREM SizeIsExact == CSpec => []SizeExact
<1>1. CInit => ExactInv
  <2> SUFFICES ASSUME CInit PROVE ExactInv
    BY Zenon
  <2>1. CTypeOK /\ OneEach
    BY DEF CInit, CTypeOK, OneEach, Stats, NoStats, CStep
  <2>2. cache = {} /\ size = 0
    BY Zenon DEF CInit
  <2>3. Bytes({}) = {}
    BY Zenon DEF Bytes
  <2> QED BY <2>1, <2>2, <2>3, FS_EmptySet, Zenon DEF ExactInv
<1>2. ExactInv /\ [CNext]_cvars => ExactInv'
  BY ExactStep, Zenon
<1>3. ExactInv => SizeExact
  BY Zenon DEF ExactInv, SizeExact, CachedBytes, Bytes, EntryBytes
<1> QED BY <1>1, <1>2, <1>3, PTL DEF CSpec

(***************************************************************************)
(* Reads through the cache (module BlockReads).                            *)
(***************************************************************************)

(* The two cases in which read_exact at a shared offset cannot be fooled:  *)
(* the blocks of the file differ in size, or one thread reads the table.   *)
SizesTell ==
    \A i, j \in DOMAIN Layout : SizeOf[Layout[i]] = SizeOf[Layout[j]] => Layout[i] = Layout[j]
OneReader == \A t, u \in Threads : t = u

LookSteps == {"lookup", "touch", "hit", "miss"}

(* The cache call of a thread is the one its read is waiting for, for the  *)
(* block it wants; what has been found or read is that block.              *)
ReadsMatch ==
    \A t \in Threads :
        /\ cpc[t] # "idle" =>
              \/ rpc[t] = "cache" /\ cpc[t] \in LookSteps
              \/ rpc[t] = "inserting" /\ cpc[t] \in InsertSteps \cup {"inserted"}
        /\ rpc[t] \in {"cache", "inserting"} =>
              ckey[t] \subseteq {rblock[t]} /\ cval[t] \subseteq {Layout[rblock[t]]}
        /\ rpc[t] \in {"insert", "inserting", "done"} => result[t] \subseteq {Layout[rblock[t]]}

(* A single reader finds the offset where its seek left it.                *)
ReaderAlone ==
    OneReader => \A t \in Threads :
        /\ rpc[t] = "read" => offset = rblock[t]
        /\ rpc[t] \in {"insert", "inserting", "done"} => result[t] # {}

ReadInv == RTypeOK /\ CacheCoherent /\ ReadsMatch /\ ReaderAlone

LEMMA ReadInit == RInit => ReadInv
<1> SUFFICES ASSUME RInit PROVE ReadInv
  BY Zenon
<1>1. CTypeOK
  BY DEF RInit, CInit, CTypeOK, Stats, NoStats, CStep
<1>2. RTypeOK
  BY <1>1, LayoutAssumption, Zenon DEF RInit, RTypeOK
<1> QED BY <1>2, Zenon DEF ReadInv, RInit, CInit, CacheCoherent, ReadsMatch, ReaderAlone

(* Every step of a reader is a step of the cache, or leaves it alone.      *)
LEMMA ReadIsCacheStep ==
    ASSUME RTypeOK, [RNext]_<<cvars, rvars>> PROVE [CNext]_cvars
<1>1. ASSUME NEW t \in Threads, ReadBlock(t) PROVE CNext
  BY <1>1, Zenon DEF ReadBlock, CNext, CBegin
<1>2. ASSUME NEW t \in Threads, InsertBlock(t) PROVE CNext
  <2>1. PICK b \in result[t] : Insert(t, rblock[t], b)
    BY <1>2, Zenon DEF InsertBlock
  <2>2. b \in Block /\ rblock[t] \in CacheKey
    BY Zenon DEF RTypeOK
  <2> QED BY <2>1, <2>2, Zenon DEF CNext, CBegin
<1>3. ASSUME NEW t \in Threads, ClearCache(t) \/ CContinue(t) PROVE CNext
  BY <1>3, Zenon DEF ClearCache, CNext, CBegin
<1>4. ASSUME NEW t \in Threads,
             CacheAnswer(t) \/ SeekBlock(t) \/ ReadData(t) \/ InsertDone(t) \/ Done(t)
      PROVE  UNCHANGED cvars
  BY <1>4, Zenon DEF CacheAnswer, SeekBlock, ReadData, InsertDone, Done
<1> QED BY <1>1, <1>2, <1>3, <1>4, Zenon DEF RNext, RRest

LEMMA ReadTypeStep == ASSUME RTypeOK, [RNext]_<<cvars, rvars>> PROVE RTypeOK'
<1>0. CTypeOK'
  BY ReadIsCacheStep, TypeStep, Zenon DEF RTypeOK
<1> USE LayoutAssumption DEF RTypeOK, rvars
<1>1. ASSUME NEW t \in Threads, ReadBlock(t) PROVE RTypeOK'
  BY <1>0, <1>1, Zenon DEF ReadBlock, Step
<1>2. ASSUME NEW t \in Threads, CacheAnswer(t) PROVE RTypeOK'
  BY <1>0, <1>2, Zenon DEF CacheAnswer, Step, CTypeOK
<1>3. ASSUME NEW t \in Threads, SeekBlock(t) PROVE RTypeOK'
  BY <1>0, <1>3, Zenon DEF SeekBlock, Step
<1>4. ASSUME NEW t \in Threads, ReadData(t) PROVE RTypeOK'
  BY <1>0, <1>4 DEF ReadData, Whole, Step
<1>5. ASSUME NEW t \in Threads, InsertBlock(t) \/ InsertDone(t) \/ Done(t) PROVE RTypeOK'
  BY <1>0, <1>5, Zenon DEF InsertBlock, InsertDone, Done, Step
<1>6. ASSUME NEW t \in Threads, ClearCache(t) \/ (CContinue(t) /\ UNCHANGED rvars) PROVE RTypeOK'
  BY <1>0, <1>6, Zenon DEF ClearCache
<1>7. CASE RRest \/ UNCHANGED <<cvars, rvars>>
  BY <1>0, <1>7, Zenon DEF RRest
<1> QED BY <1>1, <1>2, <1>3, <1>4, <1>5, <1>6, <1>7, Zenon DEF RNext

(* A thread's own step of the cache, seen from its read.                   *)
LEMMA ContinueMatches ==
    ASSUME ReadInv, NEW t \in Threads, CContinue(t), UNCHANGED rvars
    PROVE  CacheCoherent' /\ ReadsMatch' /\ ReaderAlone'
<1>0. RTypeOK /\ CTypeOK /\ CacheCoherent /\ ReadsMatch /\ ReaderAlone
  BY Zenon DEF ReadInv, RTypeOK
<1>1. ReaderAlone'
  BY <1>0, Zenon DEF ReaderAlone, rvars
<1>2. ASSUME /\ \A u \in Threads \ {t} : cpc'[u] = cpc[u] /\ ckey'[u] = ckey[u] /\ cval'[u] = cval[u],
             /\ ckey'[t] \subseteq ckey[t] /\ cval'[t] \subseteq {Layout[rblock[t]]},
             /\ cpc'[t] # "idle" => \/ cpc[t] \in LookSteps /\ cpc'[t] \in LookSteps
                                    \/ /\ cpc[t] \in InsertSteps \cup {"inserted"}
                                       /\ cpc'[t] \in InsertSteps \cup {"inserted"},
             cpc[t] # "idle"
      PROVE  ReadsMatch'
  BY <1>0, <1>2 DEF ReadsMatch, rvars, LookSteps, InsertSteps
<1>3. cval[t] \subseteq {Layout[rblock[t]]} /\ ckey[t] \subseteq {rblock[t]} /\ cpc[t] # "idle"
  <2>1. cpc[t] # "idle"
    BY Zenon DEF CContinue, GetLookup, GetTouch, GetHit, GetMiss, InsertRoom, EvictPop, EvictRemove,
           EvictStat, InsertStore, InsertStat, At
  <2> QED BY <1>0, <2>1, Zenon DEF ReadsMatch
<1> USE DEF At, Move, clocals, CTypeOK, LookSteps, InsertSteps
<1>4. CASE GetLookup(t)
  <2>1. /\ cache' = cache
        /\ \E k \in ckey[t] : cval' = [cval EXCEPT ![t] = {e.block : e \in Held(k)}]
    BY <1>4, Zenon DEF GetLookup, shared
  <2>2. CacheCoherent'
    BY <1>0, <2>1, Zenon DEF CacheCoherent
  <2>3. cval'[t] \subseteq {Layout[rblock[t]]}
    BY <1>0, <1>3, <2>1 DEF CacheCoherent, Held
  <2>4. ReadsMatch'
    BY <1>0, <1>2, <1>3, <1>4, <2>3, Zenon DEF GetLookup
  <2> QED BY <1>1, <2>2, <2>4, Zenon
<1>5. CASE GetTouch(t) \/ InsertRoom(t) \/ EvictPop(t) \/ EvictStat(t)
  <2>1. CacheCoherent'
    BY <1>0, <1>5, Zenon DEF CacheCoherent, GetTouch, InsertRoom, EvictPop, EvictStat, shared
  <2>2. ReadsMatch'
    BY <1>0, <1>2, <1>3, <1>5, Zenon DEF GetTouch, InsertRoom, EvictPop, EvictStat
  <2> QED BY <1>1, <2>1, <2>2, Zenon
<1>6. CASE GetHit(t) \/ GetMiss(t) \/ InsertStat(t)
  <2>1. CacheCoherent'
    BY <1>0, <1>6, Zenon DEF CacheCoherent, GetHit, GetMiss, InsertStat, shared
  <2>2. ReadsMatch'
    BY <1>0, <1>2, <1>3, <1>6, Zenon DEF GetHit, GetMiss, InsertStat, CReturn
  <2> QED BY <1>1, <2>1, <2>2, Zenon
<1>7. CASE EvictRemove(t)
  <2>1. CacheCoherent'
    BY <1>0, <1>7, Zenon DEF CacheCoherent, EvictRemove
  <2>2. ReadsMatch'
    BY <1>0, <1>2, <1>3, <1>7, Zenon DEF EvictRemove
  <2> QED BY <1>1, <2>1, <2>2, Zenon
<1>8. CASE InsertStore(t)
  <2>1. PICK k \in ckey[t], b \in cval[t] :
            cache' = (cache \ Held(k)) \cup {[key |-> k, block |-> b]}
    BY <1>8, Zenon DEF InsertStore
  <2>2. CacheCoherent'
    <3>1. k = rblock[t] /\ b = Layout[rblock[t]]
      BY <1>3, <2>1, Zenon
    <3>2. [key |-> k, block |-> b].key = k /\ [key |-> k, block |-> b].block = b
      BY Zenon
    <3> QED BY <1>0, <2>1, <3>1, <3>2, Zenon DEF CacheCoherent
  <2>3. ReadsMatch'
    BY <1>0, <1>2, <1>3, <1>8, Zenon DEF InsertStore
  <2> QED BY <1>1, <2>2, <2>3, Zenon
<1> QED BY <1>4, <1>5, <1>6, <1>7, <1>8, Zenon DEF CContinue

(* The steps of read_block_cached itself.                                  *)
LEMMA ReadStep ==
    ASSUME SizesTell \/ OneReader, ReadInv, [RNext]_<<cvars, rvars>> PROVE ReadInv'
<1>0. RTypeOK' /\ RTypeOK /\ CTypeOK /\ CacheCoherent /\ ReadsMatch /\ ReaderAlone
  BY ReadTypeStep, Zenon DEF ReadInv, RTypeOK
<1> USE DEF Step, At, CacheCoherent
<1>1. ASSUME NEW t \in Threads, ReadBlock(t) PROVE ReadInv'
  <2>1. PICK k \in CacheKey : Get(t, k) /\ rblock' = [rblock EXCEPT ![t] = k]
    BY <1>1, Zenon DEF ReadBlock
  <2>2. /\ cache' = cache /\ rpc'[t] = "cache" /\ rblock'[t] = k /\ cpc[t] = "idle"
        /\ ckey'[t] \subseteq {k} /\ cval'[t] = {} /\ cpc'[t] \in {"idle", "lookup"}
        /\ \A u \in Threads \ {t} : /\ rpc'[u] = rpc[u] /\ rblock'[u] = rblock[u]
                                    /\ result'[u] = result[u] /\ cpc'[u] = cpc[u]
                                    /\ ckey'[u] = ckey[u] /\ cval'[u] = cval[u]
        /\ offset' = offset
    BY <1>0, <1>1, <2>1 DEF ReadBlock, Get, Begin, CReturn, Move, shared, RTypeOK, CTypeOK
  <2>3. ReadsMatch'
    BY <1>0, <2>2, ZenonT(40) DEF ReadsMatch, LookSteps, InsertSteps
  <2>4. ReaderAlone'
    BY <1>0, <2>2, Zenon DEF ReaderAlone
  <2> QED BY <1>0, <2>2, <2>3, <2>4, Zenon DEF ReadInv
<1>2. ASSUME NEW t \in Threads, CacheAnswer(t) PROVE ReadInv'
  <2>1. /\ UNCHANGED <<cache, cpc, ckey, cval, offset, rblock>> /\ rpc[t] = "cache"
        /\ cpc[t] = "idle"
        /\ result'[t] = cval[t] /\ rpc'[t] = IF cval[t] = {} THEN "seek" ELSE "done"
        /\ \A u \in Threads \ {t} : rpc'[u] = rpc[u] /\ result'[u] = result[u]
    BY <1>0, <1>2, Zenon DEF CacheAnswer, cvars, shared, clocals, RTypeOK
  <2>2. ReadsMatch'
    BY <1>0, <2>1 DEF ReadsMatch, LookSteps, InsertSteps
  <2>3. ReaderAlone'
    BY <1>0, <2>1, Zenon DEF ReaderAlone
  <2> QED BY <1>0, <2>1, <2>2, <2>3, Zenon DEF ReadInv
<1>3. ASSUME NEW t \in Threads, SeekBlock(t) PROVE ReadInv'
  <2>1. /\ UNCHANGED <<cache, cpc, ckey, cval, result, rblock>> /\ rpc[t] = "seek"
        /\ offset' = rblock[t] /\ rpc'[t] = "read"
        /\ \A u \in Threads \ {t} : rpc'[u] = rpc[u]
    BY <1>0, <1>3, Zenon DEF SeekBlock, cvars, shared, clocals, RTypeOK
  <2>2. ReadsMatch'
    BY <1>0, <2>1, Zenon DEF ReadsMatch, LookSteps, InsertSteps
  <2>3. ReaderAlone'
    BY <1>0, <2>1, Zenon DEF ReaderAlone, OneReader
  <2> QED BY <1>0, <2>1, <2>2, <2>3, Zenon DEF ReadInv
<1>4. ASSUME NEW t \in Threads, ReadData(t) PROVE ReadInv'
  <2>1. /\ UNCHANGED <<cache, cpc, ckey, cval, rblock>> /\ rpc[t] = "read"
        /\ result'[t] = IF Whole(t) THEN {Layout[offset]} ELSE {}
        /\ rpc'[t] = IF Whole(t) THEN "insert" ELSE "done"
        /\ \A u \in Threads \ {t} : rpc'[u] = rpc[u] /\ result'[u] = result[u]
    BY <1>0, <1>4, Zenon DEF ReadData, cvars, shared, clocals, RTypeOK
  <2>2. rblock[t] \in DOMAIN Layout
    BY <1>0, LayoutAssumption, Zenon DEF RTypeOK
  <2>3. OneReader => offset = rblock[t] /\ Whole(t)
    BY <1>0, <2>1, <2>2, Zenon DEF ReaderAlone, Whole
  <2>4. Whole(t) => Layout[offset] = Layout[rblock[t]]
    BY <2>2, <2>3, Zenon DEF SizesTell, Whole
  <2>5. ReadsMatch'
    BY <1>0, <2>1, <2>4 DEF ReadsMatch, LookSteps, InsertSteps
  <2>6. ReaderAlone'
    BY <1>0, <2>1, <2>3, Zenon DEF ReaderAlone, OneReader
  <2> QED BY <1>0, <2>1, <2>5, <2>6, Zenon DEF ReadInv
<1>5. ASSUME NEW t \in Threads, InsertBlock(t) PROVE ReadInv'
  <2>1. PICK b \in result[t] : Insert(t, rblock[t], b)
    BY <1>5, Zenon DEF InsertBlock
  <2>2. /\ UNCHANGED <<cache, offset, rblock, result>> /\ rpc[t] = "insert" /\ cpc[t] = "idle"
        /\ ckey'[t] \subseteq {rblock[t]} /\ cval'[t] \subseteq {b} /\ cpc'[t] \in {"idle", "room"}
        /\ rpc'[t] = "inserting"
        /\ \A u \in Threads \ {t} : /\ rpc'[u] = rpc[u] /\ cpc'[u] = cpc[u]
                                    /\ ckey'[u] = ckey[u] /\ cval'[u] = cval[u]
    <3>1. UNCHANGED <<offset, rblock, result>> /\ rpc[t] = "insert" /\ Step(t, "inserting")
      BY <1>5, Zenon DEF InsertBlock
    <3>2. UNCHANGED cache /\ cpc[t] = "idle"
      BY <2>1, Zenon DEF Insert, Begin, At, shared
    <3>3. \/ /\ cpc' = [cpc EXCEPT ![t] = "idle"] /\ cval' = [cval EXCEPT ![t] = {}]
             /\ ckey' = [ckey EXCEPT ![t] = {}]
          \/ /\ cpc' = [cpc EXCEPT ![t] = "room"] /\ cval' = [cval EXCEPT ![t] = {b}]
             /\ ckey' = [ckey EXCEPT ![t] = {rblock[t]}]
      BY <2>1, Zenon DEF Insert, CReturn, Move
    <3>4. /\ DOMAIN cpc = Threads /\ DOMAIN ckey = Threads /\ DOMAIN cval = Threads
          /\ DOMAIN rpc = Threads
      BY <1>0, Zenon DEF RTypeOK, CTypeOK
    <3>5. rpc'[t] = "inserting" /\ \A u \in Threads \ {t} : rpc'[u] = rpc[u]
      BY <3>1, <3>4, Zenon DEF Step
    <3>6. /\ ckey'[t] \subseteq {rblock[t]} /\ cval'[t] \subseteq {b} /\ cpc'[t] \in {"idle", "room"}
          /\ \A u \in Threads \ {t} : cpc'[u] = cpc[u] /\ ckey'[u] = ckey[u] /\ cval'[u] = cval[u]
      BY <3>3, <3>4, Zenon
    <3> QED BY <3>1, <3>2, <3>5, <3>6, Zenon
  <2>3. ReadsMatch'
    BY <1>0, <2>2 DEF ReadsMatch, LookSteps, InsertSteps
  <2>4. ReaderAlone'
    BY <1>0, <2>2, Zenon DEF ReaderAlone
  <2> QED BY <1>0, <2>2, <2>3, <2>4, Zenon DEF ReadInv
<1>6. ASSUME NEW t \in Threads, InsertDone(t) PROVE ReadInv'
  <2>1. /\ UNCHANGED <<cache, cpc, ckey, cval, offset, rblock, result>> /\ rpc[t] = "inserting"
        /\ cpc[t] = "idle" /\ rpc'[t] = "done"
        /\ \A u \in Threads \ {t} : rpc'[u] = rpc[u]
    BY <1>0, <1>6, Zenon DEF InsertDone, cvars, shared, clocals, RTypeOK
  <2>2. ReadsMatch'
    BY <1>0, <2>1 DEF ReadsMatch, LookSteps, InsertSteps
  <2>3. ReaderAlone'
    BY <1>0, <2>1, Zenon DEF ReaderAlone
  <2> QED BY <1>0, <2>1, <2>2, <2>3, Zenon DEF ReadInv
<1>7. ASSUME NEW t \in Threads, Done(t) PROVE ReadInv'
  <2>1. /\ UNCHANGED <<cache, cpc, ckey, cval, offset, rblock>> /\ rpc[t] = "done" /\ rpc'[t] = "idle"
        /\ \A u \in Threads \ {t} : rpc'[u] = rpc[u] /\ result'[u] = result[u]
    BY <1>0, <1>7, Zenon DEF Done, cvars, shared, clocals, RTypeOK
  <2>2. ReadsMatch'
    BY <1>0, <2>1 DEF ReadsMatch, LookSteps, InsertSteps
  <2>3. ReaderAlone'
    BY <1>0, <2>1, Zenon DEF ReaderAlone
  <2> QED BY <1>0, <2>1, <2>2, <2>3, Zenon DEF ReadInv
<1>8. ASSUME NEW t \in Threads, ClearCache(t) PROVE ReadInv'
  <2>1. cache' = {} /\ UNCHANGED <<cpc, ckey, cval, rvars>>
    BY <1>8, Zenon DEF ClearCache, Clear, clocals
  <2> QED BY <1>0, <2>1, Zenon DEF ReadInv, ReadsMatch, ReaderAlone, rvars
<1>9. ASSUME NEW t \in Threads, CContinue(t), UNCHANGED rvars PROVE ReadInv'
  BY <1>0, <1>9, ContinueMatches, Zenon DEF ReadInv
<1>10. CASE RRest \/ UNCHANGED <<cvars, rvars>>
  <2>1. UNCHANGED <<cache, cpc, ckey, cval, rvars>>
    BY <1>10, Zenon DEF RRest, cvars, shared, clocals
  <2> QED BY <1>0, <2>1, Zenon DEF ReadInv, ReadsMatch, ReaderAlone, rvars
<1> QED BY <1>1, <1>2, <1>3, <1>4, <1>5, <1>6, <1>7, <1>8, <1>9, <1>10, Zenon DEF RNext

LEMMA ReadInvariant == SizesTell \/ OneReader => (RSpec => []ReadInv)
<1> SUFFICES ASSUME SizesTell \/ OneReader PROVE RSpec => []ReadInv
  BY Zenon
<1>1. ReadInv /\ [RNext]_<<cvars, rvars>> => ReadInv'
  BY ReadStep, Zenon
<1> QED BY <1>1, ReadInit, PTL DEF RSpec

(* A cached read returns the block it asked for or an error, for every     *)
(* number of threads and blocks, as long as the blocks of a table differ   *)
(* in size or one thread reads it (reader.rs:325, 334: the offset is       *)
(* shared).                                                                *)
THEOREM CachedReadsCorrect == SizesTell \/ OneReader => (RSpec => []ReadCorrect)
<1> SUFFICES ASSUME SizesTell \/ OneReader PROVE RSpec => []ReadCorrect
  BY Zenon
<1>1. ReadInv => ReadCorrect
  BY Zenon DEF ReadInv, ReadsMatch, ReadCorrect
<1> QED BY <1>1, ReadInvariant, PTL

(* Under the same condition the cache holds no block under the key of      *)
(* another (reader.rs:346), whatever reads, evictions and clears overlap.  *)
THEOREM CacheHoldsOwnBlocks == SizesTell \/ OneReader => (RSpec => []CacheCoherent)
<1> SUFFICES ASSUME SizesTell \/ OneReader PROVE RSpec => []CacheCoherent
  BY Zenon
<1>1. ReadInv => CacheCoherent
  BY Zenon DEF ReadInv
<1> QED BY <1>1, ReadInvariant, PTL

(* A thread that reads a table alone gets the block, whatever is evicted   *)
(* or cleared meanwhile.                                                   *)
THEOREM LoneReadsSucceed == OneReader => (RSpec => []ReadSucceeds)
<1> SUFFICES ASSUME OneReader PROVE RSpec => []ReadSucceeds
  BY Zenon
<1>1. ReadInv => ReadSucceeds
  BY Zenon DEF ReadInv, ReaderAlone, ReadSucceeds
<1> QED BY <1>1, ReadInvariant, PTL

(***************************************************************************)
(* The manifest: the version in memory and the one in the file agree, an   *)
(* uncut manifest can be read back, and the version set implements         *)
(* VersionHistory.                                                         *)
(***************************************************************************)

(* The text of an edit that reaches the file is what recovery applies      *)
(* last.                                                                   *)
LEMMA ReplayEdit ==
    ASSUME NEW m \in Seq(Token), NEW e \in Edit
    PROVE  Replay(Append(m, e)) = Applied(Replay(m), e)
<1> DEFINE p == Append(m, e)
<1>1. DOMAIN p = DOMAIN m \cup {Len(m) + 1} /\ DOMAIN m = 1 .. Len(m) /\ Len(m) \in Nat
  OBVIOUS
<1>2. p[Len(m) + 1] = e /\ \A i \in DOMAIN m : p[i] = m[i]
  OBVIOUS
<1>3. \A i \in DOMAIN m : i \in Int /\ i < Len(m) + 1
  BY <1>1
<1>4. ASSUME NEW s \in Slot PROVE s \in Replay(p) <=> s \in Applied(Replay(m), e)
  <2>1. CASE e = AddFile(s)
    <3>1. s \in Replay(p)
      BY <1>1, <1>2, <1>3, <2>1 DEF Replay
    <3> QED BY <3>1, <2>1 DEF Applied, AddFile
  <2>2. CASE e = DeleteFile(s)
    <3>1. e # AddFile(s)
      BY <2>2 DEF AddFile, DeleteFile
    <3>2. s \notin Replay(p)
      BY <1>1, <1>2, <1>3, <2>2, <3>1 DEF Replay
    <3> QED BY <3>2, <2>2 DEF Applied, DeleteFile
  <2>3. CASE e # AddFile(s) /\ e # DeleteFile(s)
    <3>1. s \in Replay(p) <=> s \in Replay(m)
      BY <1>1, <1>2, <1>3, <2>3 DEF Replay
    <3>2. e.slot # s
      BY <2>3 DEF Edit, AddFile, DeleteFile
    <3> QED BY <3>1, <3>2 DEF Applied
  <2> QED BY <2>1, <2>2, <2>3
<1>5. Replay(p) \subseteq Slot /\ Applied(Replay(m), e) \subseteq Slot
  BY DEF Replay, Applied, Edit
<1> QED BY <1>4, <1>5, Zenon

(* A newline or a torn text changes nothing that recovery applies.         *)
LEMMA ReplayOther ==
    ASSUME NEW m \in Seq(Token), NEW x \in {Torn, Newline}
    PROVE  Replay(Append(m, x)) = Replay(m)
<1> DEFINE p == Append(m, x)
<1>1. DOMAIN p = DOMAIN m \cup {Len(m) + 1} /\ DOMAIN m = 1 .. Len(m) /\ Len(m) \in Nat
  BY DEF Token
<1>2. p[Len(m) + 1] = x /\ \A i \in DOMAIN m : p[i] = m[i]
  BY DEF Token
<1>3. \A i \in DOMAIN m : i \in Int /\ i < Len(m) + 1
  BY <1>1
<1>4. \A s \in Slot : x # AddFile(s) /\ x # DeleteFile(s)
  BY DEF Torn, Newline, AddFile, DeleteFile
<1> QED BY <1>1, <1>2, <1>3, <1>4 DEF Replay

(* The type invariant, with what holds while no VersionSet exists.         *)
TypeInv == MTypeOK /\ (~up => ~failed /\ current = {} /\ batch = <<>>)

LEMMA Replayed == ASSUME NEW m PROVE Replay(m) \subseteq Slot
BY DEF Replay

LEMMA HeadTail ==
    ASSUME NEW b \in Seq(Edit), b # <<>>
    PROVE  Head(b) \in Edit /\ Tail(b) \in Seq(Edit) /\ (Len(b) # 1 => Tail(b) # <<>>)
<1>1. Len(b) \in Nat /\ Len(b) # 0
  OBVIOUS
<1>2. Head(b) \in Edit /\ Tail(b) \in Seq(Edit) /\ Len(Tail(b)) = Len(b) - 1
  BY <1>1
<1>3. Len(b) # 1 => Len(Tail(b)) # 0
  BY <1>1, <1>2
<1>4. Len(<<>>) = 0
  OBVIOUS
<1> QED BY <1>2, <1>3, <1>4, Zenon

LEMMA JoinEdits ==
    ASSUME NEW a \in Seq(Edit), NEW d \in Seq(Edit), Len(a) = 1
    PROVE  a \o d \in Seq(Edit) /\ a \o d # <<>>
<1>1. a \o d \in Seq(Edit)
  BY ConcatProperties
<1>2. Len(a \o d) = 1 + Len(d) /\ Len(d) \in Nat
  BY ConcatProperties
<1>3. Len(<<>>) = 0
  OBVIOUS
<1> QED BY <1>1, <1>2, <1>3

LEMMA TypeInit == MInit => TypeInv
<1> SUFFICES ASSUME MInit PROVE TypeInv
  OBVIOUS
<1>1. up \in BOOLEAN /\ failed \in BOOLEAN /\ cut \in BOOLEAN /\ ~up /\ ~failed
  BY Zenon DEF MInit
<1>2. current = {} /\ batch = <<>> /\ stage = "idle" /\ manifest = <<>>
  BY Zenon DEF MInit
<1>3. batch \in Seq(Edit) /\ manifest \in Seq(Token) /\ current \subseteq Slot
  BY <1>2, NoneIsList, Zenon
<1>4. {installs, opens, faults} \subseteq Nat
  BY DEF MInit
<1> QED BY <1>1, <1>2, <1>3, <1>4, Zenon DEF TypeInv, MTypeOK

LEMMA VersionTypeStep == TypeInv /\ [MNext]_mvars => TypeInv'
<1> SUFFICES ASSUME TypeInv, [MNext]_mvars PROVE TypeInv'
  OBVIOUS
<1> USE DEF TypeInv, MTypeOK
<1>1. CASE New
  <2>1. opens' \in Nat
    BY <1>1, NextNat, Zenon DEF New
  <2> QED BY <1>1, <2>1, Replayed, Zenon DEF New
<1>2. CASE NewFails
  BY <1>2 DEF NewFails
<1>3. CASE Install
  <2>1. PICK out \in Slot, n \in 1 .. MaxInputs : \E ins \in [1 .. n -> Slot \ {out}] :
           /\ \A i, j \in 1 .. n : ins[i] = ins[j] => i = j
           /\ batch' = <<AddFile(out)>> \o [i \in 1 .. n |-> DeleteFile(ins[i])]
    BY <1>3, Zenon DEF Install
  <2>2. PICK ins \in [1 .. n -> Slot \ {out}] :
           batch' = <<AddFile(out)>> \o [i \in 1 .. n |-> DeleteFile(ins[i])]
    BY <2>1, Zenon
  <2>3. n \in Nat
    BY ManifestAssumption
  <2>4. [i \in 1 .. n |-> DeleteFile(ins[i])] \in Seq(Edit)
    <3>1. \A i \in 1 .. n : DeleteFile(ins[i]) \in Edit
      BY DEF DeleteFile, Edit
    <3> QED BY <2>3, <3>1
  <2>5. <<AddFile(out)>> \in Seq(Edit) /\ Len(<<AddFile(out)>>) = 1
    BY DEF AddFile, Edit
  <2>6. batch' \in Seq(Edit) /\ batch' # <<>>
    BY <2>2, <2>4, <2>5, JoinEdits
  <2> QED BY <1>3, <2>6 DEF Install
<1>4. CASE ApplyEdit
  <2>1. Applied(current, Head(batch)) \subseteq Slot
    BY <1>4, HeadTail, Zenon DEF ApplyEdit, Applied, Edit
  <2> QED BY <1>4, <2>1 DEF ApplyEdit
<1>5. CASE WriteJson
  <2>1. Append(manifest, Head(batch)) \in Seq(Token)
    BY <1>5, HeadTail DEF WriteJson, Token
  <2> QED BY <1>5, <2>1 DEF WriteJson
<1>6. CASE WriteNewline
  <2>1. Append(manifest, Newline) \in Seq(Token)
    BY DEF Token
  <2> QED BY <1>6, <2>1, HeadTail DEF WriteNewline
<1>7. CASE WriteFails
  <2>1. Append(manifest, Torn) \in Seq(Token)
    BY DEF Token
  <2>2. manifest' \in Seq(Token)
    BY <1>7, <2>1, Zenon DEF WriteFails
  <2>3. cut' \in BOOLEAN /\ failed' \in BOOLEAN /\ up' = up /\ current' = current
    BY <1>7, Zenon DEF WriteFails
  <2>4. batch' = <<>> /\ batch' \in Seq(Edit) /\ stage' = "idle"
    BY <1>7 DEF WriteFails
  <2>5. {installs', opens', faults'} \subseteq Nat
    BY <1>7 DEF WriteFails
  <2>6. up
    BY <1>7 DEF WriteFails
  <2> QED BY <2>2, <2>3, <2>4, <2>5, <2>6, Zenon
<1>8. CASE Halt
  <2>1. cut' \in BOOLEAN /\ failed' = FALSE /\ up' = FALSE /\ current' = {} /\ stage' = "idle"
    BY <1>8, Zenon DEF Halt
  <2>2. batch' = <<>> /\ batch' \in Seq(Edit) /\ manifest' \in Seq(Token)
    BY <1>8 DEF Halt
  <2>3. {installs', opens', faults'} \subseteq Nat
    BY <1>8 DEF Halt
  <2> QED BY <2>1, <2>2, <2>3, Zenon
<1>9. CASE MRest \/ UNCHANGED mvars
  BY <1>9 DEF MRest, mvars
<1> QED BY <1>1, <1>2, <1>3, <1>4, <1>5, <1>6, <1>7, <1>8, <1>9 DEF MNext

(* Only well-formed states are reachable.                                  *)
THEOREM ManifestTypes == MSpec => []MTypeOK
<1>1. MSpec => []TypeInv
  BY TypeInit, VersionTypeStep, PTL DEF MSpec
<1>2. TypeInv => MTypeOK
  BY DEF TypeInv
<1> QED BY <1>1, <1>2, PTL
-----------------------------------------------------------------------------
(* The agreement of memory and file at every step of log_edit.             *)
Agree ==
    up /\ ~failed =>
        IF stage = "json"
        THEN current = Applied(Replay(manifest), Head(batch))
        ELSE current = Replay(manifest)

LEMMA AgreeStep == TypeInv /\ TypeInv' /\ Agree /\ [MNext]_mvars => Agree'
<1> SUFFICES ASSUME TypeInv, TypeInv', Agree, [MNext]_mvars PROVE Agree'
  OBVIOUS
<1>1. CASE New
  <2>1. stage' = "idle" /\ manifest' = manifest /\ current' = Replay(manifest)
    BY <1>1 DEF New, TypeInv, MTypeOK
  <2> QED BY <2>1 DEF Agree
<1>2. CASE NewFails
  BY <1>2 DEF NewFails, Agree
<1>3. CASE Install
  BY <1>3 DEF Install, Agree
<1>4. CASE ApplyEdit
  BY <1>4 DEF ApplyEdit, Agree
<1>5. CASE WriteJson
  <2>1. manifest' = Append(manifest, Head(batch)) /\ current' = current /\ stage = "json"
        /\ stage' = "newline" /\ up' = up /\ failed' = failed
    BY <1>5 DEF WriteJson
  <2>2. Head(batch) \in Edit /\ manifest \in Seq(Token)
    BY <2>1, HeadTail DEF TypeInv, MTypeOK
  <2>3. Replay(manifest') = Applied(Replay(manifest), Head(batch))
    BY <2>1, <2>2, ReplayEdit
  <2> QED BY <2>1, <2>3 DEF Agree
<1>6. CASE WriteNewline
  <2>1. manifest' = Append(manifest, Newline) /\ current' = current /\ stage = "newline"
        /\ stage' # "json" /\ up' = up /\ failed' = failed
    BY <1>6 DEF WriteNewline
  <2>2. Replay(manifest') = Replay(manifest)
    BY <2>1, ReplayOther DEF TypeInv, MTypeOK
  <2> QED BY <2>1, <2>2 DEF Agree
<1>7. CASE WriteFails
  BY <1>7, Zenon DEF WriteFails, Agree
<1>8. CASE Halt
  BY <1>8, Zenon DEF Halt, Agree
<1>9. CASE MRest \/ UNCHANGED mvars
  BY <1>9, Zenon DEF MRest, mvars, Agree
<1> QED BY <1>1, <1>2, <1>3, <1>4, <1>5, <1>6, <1>7, <1>8, <1>9, SMTT(30) DEF MNext

(* An uncut file parses, and it ends with a newline except while log_edit  *)
(* is between its two writes.                                              *)
Ended(m) == \A i \in DOMAIN m : i = Len(m) => m[i] = Newline
WholeText == ~cut => Parses(manifest) /\ (stage # "newline" => Ended(manifest))

LEMMA AppendText ==
    ASSUME NEW m \in Seq(Token), NEW e \in Edit, Parses(m), Ended(m)
    PROVE  Parses(Append(m, e))
<1> DEFINE p == Append(m, e)
<1>1. DOMAIN p = DOMAIN m \cup {Len(m) + 1} /\ DOMAIN m = 1 .. Len(m) /\ Len(m) \in Nat
  BY DEF Token
<1>2. Len(p) = Len(m) + 1 /\ p[Len(m) + 1] = e /\ \A i \in DOMAIN m : p[i] = m[i]
  BY DEF Token
<1>3. e # Torn
  BY DEF Edit, Torn
<1>4. ASSUME NEW i \in DOMAIN m PROVE p[i] # Torn /\ (p[i] # Newline /\ i < Len(p) => p[i + 1] = Newline)
  BY <1>1, <1>2, <1>4 DEF Parses, Ended
<1> QED BY <1>1, <1>2, <1>3, <1>4 DEF Parses

LEMMA AppendNewline ==
    ASSUME NEW m \in Seq(Token), Parses(m)
    PROVE  Parses(Append(m, Newline)) /\ Ended(Append(m, Newline))
<1> DEFINE p == Append(m, Newline)
<1>1. DOMAIN p = DOMAIN m \cup {Len(m) + 1} /\ DOMAIN m = 1 .. Len(m) /\ Len(m) \in Nat
  BY DEF Token
<1>2. Len(p) = Len(m) + 1 /\ p[Len(m) + 1] = Newline /\ \A i \in DOMAIN m : p[i] = m[i]
  BY DEF Token
<1>3. Newline # Torn
  BY DEF Newline, Torn
<1>4. ASSUME NEW i \in DOMAIN m PROVE p[i] # Torn /\ (p[i] # Newline /\ i < Len(p) => p[i + 1] = Newline)
  <2>1. CASE i = Len(m)
    BY <1>1, <1>2, <2>1, SMTT(30) DEF Parses
  <2>2. CASE i # Len(m)
    BY <1>1, <1>2, <2>2, SMTT(30) DEF Parses
  <2> QED BY <2>1, <2>2
<1>5. Parses(p)
  BY <1>1, <1>2, <1>3, <1>4 DEF Parses
<1> QED BY <1>1, <1>2, <1>5 DEF Ended

LEMMA WholeStep == TypeInv /\ WholeText /\ [MNext]_mvars => WholeText'
<1> SUFFICES ASSUME TypeInv, WholeText, [MNext]_mvars PROVE WholeText'
  OBVIOUS
<1>1. CASE New \/ NewFails \/ Install \/ ApplyEdit \/ MRest \/ UNCHANGED mvars
  <2>1. \/ cut' = cut /\ manifest' = manifest /\ stage # "newline"
        \/ UNCHANGED <<cut, manifest, stage>>
    BY <1>1, Zenon DEF New, NewFails, Install, ApplyEdit, MRest, mvars
  <2> QED BY <2>1 DEF WholeText
<1>5. CASE WriteJson
  <2>1. manifest' = Append(manifest, Head(batch)) /\ stage = "json" /\ stage' = "newline" /\ cut' = cut
    BY <1>5 DEF WriteJson
  <2>2. Head(batch) \in Edit /\ manifest \in Seq(Token)
    BY <2>1, HeadTail DEF TypeInv, MTypeOK
  <2> QED BY <2>1, <2>2, AppendText DEF WholeText
<1>6. CASE WriteNewline
  <2>1. manifest' = Append(manifest, Newline) /\ cut' = cut
    BY <1>6 DEF WriteNewline
  <2>2. manifest \in Seq(Token)
    BY DEF TypeInv, MTypeOK
  <2> QED BY <2>1, <2>2, AppendNewline DEF WholeText
<1>7. CASE WriteFails
  <2>1. ~cut' => ~cut /\ stage # "newline" /\ manifest' = manifest
    BY <1>7, Zenon DEF WriteFails
  <2> QED BY <2>1 DEF WholeText
<1>8. CASE Halt
  <2>1. ~cut' => ~cut /\ stage # "newline" /\ manifest' = manifest
    BY <1>8, Zenon DEF Halt
  <2> QED BY <2>1 DEF WholeText
<1> QED BY <1>1, <1>5, <1>6, <1>7, <1>8 DEF MNext

(* A manifest none of whose lines was cut can be read back.                *)
THEOREM UncutManifest == MSpec => []UncutReopens
<1>1. MInit => TypeInv /\ WholeText
  <2>1. MInit => DOMAIN manifest = {}
    BY DEF MInit
  <2> QED BY <2>1, TypeInit DEF WholeText, Parses, Ended
<1>2. (TypeInv /\ WholeText) /\ [MNext]_mvars => (TypeInv /\ WholeText)'
  BY VersionTypeStep, WholeStep
<1>3. TypeInv /\ WholeText => UncutReopens
  BY DEF WholeText, UncutReopens
<1> QED BY <1>1, <1>2, <1>3, PTL DEF MSpec

(* Between two edits of a session without a failed write a restart would   *)
(* recover the version in memory, or, behind a line cut short, none.       *)
THEOREM MemoryAndFile == MSpec => []MemoryMatchesFile
<1> DEFINE Both == TypeInv /\ Agree /\ WholeText
<1>1. MInit => Both
  <2>1. MInit => DOMAIN manifest = {} /\ ~up
    BY DEF MInit
  <2> QED BY <2>1, TypeInit DEF Agree, WholeText, Parses, Ended
<1>2. Both /\ [MNext]_mvars => Both'
  BY VersionTypeStep, AgreeStep, WholeStep
<1>3. Both => MemoryMatchesFile
  BY DEF Agree, WholeText, MemoryMatchesFile, Recovered
<1> QED BY <1>1, <1>2, <1>3, PTL DEF MSpec
-----------------------------------------------------------------------------
(* The file added last is the one of the last AddFile whose text reached   *)
(* the file.                                                               *)
LEMMA AddedEdit ==
    ASSUME NEW m \in Seq(Token), NEW e \in Edit
    PROVE  LastAdded(Append(m, e)) = IF e.kind = "add" THEN {e.slot} ELSE LastAdded(m)
<1> DEFINE p == Append(m, e)
<1>1. DOMAIN p = DOMAIN m \cup {Len(m) + 1} /\ DOMAIN m = 1 .. Len(m) /\ Len(m) \in Nat
  OBVIOUS
<1>2. p[Len(m) + 1] = e /\ \A i \in DOMAIN m : p[i] = m[i]
  OBVIOUS
<1>3. \A i \in DOMAIN m : i \in Int /\ i < Len(m) + 1
  BY <1>1
<1>4. CASE e.kind = "add"
  <2>1. e = AddFile(e.slot) /\ e.slot \in Slot /\ \A s \in Slot : e = AddFile(s) => s = e.slot
    BY <1>4 DEF Edit, AddFile
  <2> QED BY <1>1, <1>2, <1>3, <1>4, <2>1 DEF LastAdded
<1>5. CASE e.kind # "add"
  <2>1. \A s \in Slot : e # AddFile(s)
    BY <1>5 DEF AddFile
  <2> QED BY <1>1, <1>2, <1>3, <1>5, <2>1 DEF LastAdded
<1> QED BY <1>4, <1>5

LEMMA AddedOther ==
    ASSUME NEW m \in Seq(Token), NEW x \in {Torn, Newline}
    PROVE  LastAdded(Append(m, x)) = LastAdded(m)
<1> DEFINE p == Append(m, x)
<1>1. DOMAIN p = DOMAIN m \cup {Len(m) + 1} /\ DOMAIN m = 1 .. Len(m) /\ Len(m) \in Nat
  BY DEF Token
<1>2. p[Len(m) + 1] = x /\ \A i \in DOMAIN m : p[i] = m[i]
  BY DEF Token
<1>3. \A i \in DOMAIN m : i \in Int /\ i < Len(m) + 1
  BY <1>1
<1>4. x.kind # "add" /\ \A s \in Slot : x # AddFile(s)
  BY DEF Torn, Newline, AddFile
<1> QED BY <1>1, <1>2, <1>3, <1>4 DEF LastAdded

(* Behind the first edit under way there are only deletions, and none of   *)
(* those still to be written is of the file added last, or of the one the  *)
(* first edit adds.                                                        *)
OutputFirst ==
    /\ \A i \in DOMAIN batch : i > 1 => batch[i].kind = "delete"
    /\ IF stage \in {"apply", "json"} /\ Head(batch).kind = "add"
       THEN \A i \in DOMAIN batch : i > 1 => batch[i].slot # Head(batch).slot
       ELSE \A i \in DOMAIN batch :
               i > 1 \/ stage # "newline" => batch[i].slot \notin LastAdded(manifest)
    /\ OutputListed

LEMMA OutputFirstStep == TypeInv /\ OutputFirst /\ [MNext]_mvars => OutputFirst'
<1> SUFFICES ASSUME TypeInv, OutputFirst, [MNext]_mvars PROVE OutputFirst'
  OBVIOUS
<1>t. manifest \in Seq(Token) /\ batch \in Seq(Edit)
  BY DEF TypeInv, MTypeOK
<1>1. CASE New
  <2>1. batch' = <<>> /\ manifest' = manifest
    BY <1>1 DEF New, TypeInv
  <2> QED BY <2>1 DEF OutputFirst, OutputListed
<1>2. CASE NewFails \/ MRest \/ UNCHANGED mvars
  BY <1>2, Zenon DEF NewFails, MRest, mvars, OutputFirst, OutputListed
<1>3. CASE Install
  <2>1. PICK out \in Slot, n \in 1 .. MaxInputs : \E ins \in [1 .. n -> Slot \ {out}] :
           /\ \A i, j \in 1 .. n : ins[i] = ins[j] => i = j
           /\ batch' = <<AddFile(out)>> \o [i \in 1 .. n |-> DeleteFile(ins[i])]
    BY <1>3, Zenon DEF Install
  <2>2. PICK ins \in [1 .. n -> Slot \ {out}] :
           batch' = <<AddFile(out)>> \o [i \in 1 .. n |-> DeleteFile(ins[i])]
    BY <2>1, Zenon
  <2>3. n \in Nat
    BY ManifestAssumption
  <2> DEFINE del == [i \in 1 .. n |-> DeleteFile(ins[i])]
  <2>4. del \in Seq(Edit) /\ Len(del) = n /\ \A i \in 1 .. n : del[i] = DeleteFile(ins[i])
    <3>1. \A i \in 1 .. n : DeleteFile(ins[i]) \in Edit
      BY DEF DeleteFile, Edit
    <3> QED BY <2>3, <3>1
  <2>5. <<AddFile(out)>> \in Seq(Edit) /\ Len(<<AddFile(out)>>) = 1 /\ <<AddFile(out)>>[1] = AddFile(out)
    BY DEF AddFile, Edit
  <2> HIDE DEF del
  <2>6. DOMAIN batch' = 1 .. n + 1 /\ batch'[1] = AddFile(out) /\ Head(batch') = AddFile(out)
        /\ \A i \in 2 .. n + 1 : batch'[i] = del[i - 1]
    BY <2>2, <2>3, <2>4, <2>5 DEF del
  <2>7. ASSUME NEW i \in DOMAIN batch', i > 1
        PROVE  batch'[i].kind = "delete" /\ batch'[i].slot # out
    <3>1. i \in 2 .. n + 1 /\ i - 1 \in 1 .. n
      BY <2>3, <2>6, <2>7
    <3>2. batch'[i] = DeleteFile(ins[i - 1]) /\ ins[i - 1] \in Slot \ {out}
      BY <3>1, <2>4, <2>6
    <3> QED BY <3>2 DEF DeleteFile
  <2>8. stage' = "apply" /\ manifest' = manifest /\ Head(batch').kind = "add" /\ Head(batch').slot = out
    BY <1>3, <2>6 DEF Install, AddFile
  <2> QED BY <2>7, <2>8, Zenon DEF OutputFirst, OutputListed
<1>4. CASE ApplyEdit
  BY <1>4 DEF ApplyEdit, OutputFirst, OutputListed
<1>5. CASE WriteJson
  <2>1. manifest' = Append(manifest, Head(batch)) /\ stage = "json" /\ stage' = "newline" /\ batch' = batch
    BY <1>5 DEF WriteJson
  <2>2. Head(batch) \in Edit /\ batch # <<>> /\ 1 \in DOMAIN batch /\ Head(batch) = batch[1]
    BY <2>1, <1>t DEF TypeInv, MTypeOK
  <2>3. Replay(manifest') = Applied(Replay(manifest), Head(batch))
    BY <2>1, <2>2, <1>t, ReplayEdit, Zenon
  <2>4. LastAdded(manifest') = IF Head(batch).kind = "add" THEN {Head(batch).slot} ELSE LastAdded(manifest)
    BY <2>1, <2>2, <1>t, AddedEdit, Zenon
  <2>5. OutputListed'
    BY <2>1, <2>2, <2>3, <2>4 DEF OutputFirst, OutputListed, Applied
  <2>6. \A i \in DOMAIN batch : i > 1 => batch[i].slot \notin LastAdded(manifest')
    BY <2>1, <2>4 DEF OutputFirst
  <2> QED BY <2>1, <2>5, <2>6 DEF OutputFirst
<1>6. CASE WriteNewline
  <2>1. manifest' = Append(manifest, Newline) /\ stage = "newline" /\ stage' \in {"idle", "apply"}
        /\ batch' = Tail(batch) /\ batch # <<>>
    BY <1>6 DEF WriteNewline, TypeInv, MTypeOK
  <2>2. Replay(manifest') = Replay(manifest) /\ LastAdded(manifest') = LastAdded(manifest)
    BY <2>1, <1>t, ReplayOther, AddedOther, Zenon
  <2>3. ASSUME NEW i \in DOMAIN batch'
        PROVE  batch'[i].kind = "delete" /\ batch'[i].slot \notin LastAdded(manifest')
    <3>1. i + 1 \in DOMAIN batch /\ i + 1 > 1 /\ batch'[i] = batch[i + 1]
      BY <2>1, <1>t, <2>3
    <3> QED BY <3>1, <2>1, <2>2 DEF OutputFirst
  <2>4. batch' # <<>> => Head(batch').kind = "delete"
    <3>1. batch' # <<>> => 1 \in DOMAIN batch' /\ Head(batch') = batch'[1]
      BY <2>1, <1>t
    <3> QED BY <3>1, <2>3
  <2>5. batch' = <<>> => DOMAIN batch' = {}
    OBVIOUS
  <2>6. OutputListed'
    BY <2>2 DEF OutputFirst, OutputListed
  <2> QED BY <2>1, <2>3, <2>4, <2>5, <2>6 DEF OutputFirst
<1>7. CASE WriteFails \/ Halt
  <2>1. batch' = <<>> /\ (manifest' = manifest \/ manifest' = Append(manifest, Torn))
    BY <1>7, Zenon DEF WriteFails, Halt
  <2>2. Replay(manifest') = Replay(manifest) /\ LastAdded(manifest') = LastAdded(manifest)
    BY <2>1, <1>t, ReplayOther, AddedOther, Zenon
  <2> QED BY <2>1, <2>2 DEF OutputFirst, OutputListed
<1> QED BY <1>1, <1>2, <1>3, <1>4, <1>5, <1>6, <1>7, Zenon DEF MNext

(* Wherever the process dies or a write fails, the manifest lists the file *)
(* that was added to it last.                                              *)
THEOREM OutputSurvives == MSpec => []OutputListed
<1>1. MInit => TypeInv /\ OutputFirst
  <2>1. MInit => DOMAIN manifest = {} /\ DOMAIN batch = {} /\ stage = "idle"
    BY DEF MInit
  <2> QED BY <2>1, TypeInit DEF OutputFirst, OutputListed, LastAdded
<1>2. (TypeInv /\ OutputFirst) /\ [MNext]_mvars => (TypeInv /\ OutputFirst)'
  BY VersionTypeStep, OutputFirstStep
<1>3. OutputFirst => OutputListed
  BY DEF OutputFirst
<1> QED BY <1>1, <1>2, <1>3, PTL DEF MSpec
-----------------------------------------------------------------------------
(* Every step of the manifest is a step of the abstract history or leaves  *)
(* it alone.                                                               *)
LEMMA HistoryStep == TypeInv /\ [MNext]_mvars => [History!HNext]_(History!hvars)
<1> SUFFICES ASSUME TypeInv, [MNext]_mvars PROVE [History!HNext]_(History!hvars)
  OBVIOUS
<1> USE DEF History!hvars
<1>1. CASE New
  <2>1. stage = "idle" /\ stage' = "idle" /\ ~up /\ up' = TRUE /\ manifest' = manifest
        /\ current' = Replay(manifest)
    BY <1>1 DEF New, TypeInv, MTypeOK
  <2>2. Unlogged = {} /\ Unlogged' = {}
    BY <2>1 DEF Unlogged
  <2> QED BY <2>1, <2>2, Zenon DEF History!HNext, History!Start
<1>2. CASE NewFails
  BY <1>2 DEF NewFails, Unlogged
<1>3. CASE Install
  BY <1>3 DEF Install, Unlogged
<1>4. CASE ApplyEdit
  <2>1. stage = "apply" /\ stage' = "json" /\ up /\ up' = up /\ manifest' = manifest
        /\ batch' = batch /\ current' = Applied(current, Head(batch)) /\ Head(batch) \in Edit
    BY <1>4, HeadTail DEF ApplyEdit, TypeInv, MTypeOK
  <2>2. Unlogged = {} /\ Unlogged' = {Head(batch)}
    BY <2>1 DEF Unlogged
  <2>3. current' = History!Edited(current, Head(batch)) /\ Head(batch) \in History!Edit
    BY <2>1 DEF Applied, Edit, History!Edited, History!Edit
  <2>4. History!Accept(Head(batch))
    BY <2>1, <2>2, <2>3 DEF History!Accept
  <2> QED BY <2>3, <2>4 DEF History!HNext
<1>5. CASE WriteJson
  <2>1. manifest' = Append(manifest, Head(batch)) /\ current' = current /\ stage = "json"
        /\ stage' = "newline" /\ up' = up
    BY <1>5 DEF WriteJson
  <2>2. Head(batch) \in Edit /\ manifest \in Seq(Token)
    BY <2>1, HeadTail, SMTT(30) DEF TypeInv, MTypeOK
  <2>3. Replay(manifest') = History!Edited(Replay(manifest), Head(batch))
    BY <2>1, <2>2, ReplayEdit DEF Applied, History!Edited
  <2>4. Unlogged = {Head(batch)} /\ Unlogged' = {}
    BY <2>1 DEF Unlogged
  <2>5. History!Persist(Head(batch))
    BY <2>1, <2>3, <2>4 DEF History!Persist
  <2>6. Head(batch) \in History!Edit
    BY <2>2 DEF Edit, History!Edit
  <2> QED BY <2>5, <2>6 DEF History!HNext
<1>6. CASE WriteNewline
  <2>1. manifest' = Append(manifest, Newline) /\ current' = current /\ stage = "newline"
        /\ stage' # "json" /\ up' = up
    BY <1>6 DEF WriteNewline
  <2>2. Replay(manifest') = Replay(manifest)
    BY <2>1, ReplayOther DEF TypeInv, MTypeOK
  <2> QED BY <2>1, <2>2 DEF Unlogged
<1>7. CASE WriteFails
  <2>1. up' = up /\ current' = current /\ stage' = "idle"
        /\ (manifest' = manifest \/ manifest' = Append(manifest, Torn))
    BY <1>7 DEF WriteFails
  <2>2. Replay(manifest') = Replay(manifest)
    BY <2>1, ReplayOther, Zenon DEF TypeInv, MTypeOK
  <2>3. Unlogged' = {}
    BY <2>1 DEF Unlogged
  <2> QED BY <2>1, <2>2, <2>3 DEF History!HNext, History!GiveUp
<1>8. CASE Halt
  <2>1. up' = FALSE /\ current' = {} /\ stage' = "idle" /\ manifest' = manifest
    BY <1>8 DEF Halt
  <2>2. Unlogged' = {}
    BY <2>1 DEF Unlogged
  <2> QED BY <2>1, <2>2 DEF History!HNext, History!Stop
<1>9. CASE MRest \/ UNCHANGED mvars
  BY <1>9 DEF MRest, mvars, Unlogged
<1> QED BY <1>1, <1>2, <1>3, <1>4, <1>5, <1>6, <1>7, <1>8, <1>9, SMTT(30) DEF MNext

(* The version set with its manifest implements VersionHistory: whatever   *)
(* died or failed, a start that succeeds brings back exactly the edits     *)
(* that reached the file, each applied once and in order.                  *)
THEOREM ManifestImplements == MSpec => Recovers
<1>1. MInit => History!HInit
  <2> SUFFICES ASSUME MInit PROVE History!HInit
    OBVIOUS
  <2>1. DOMAIN manifest = {} /\ stage = "idle"
    BY DEF MInit
  <2>2. Replay(manifest) = {} /\ Unlogged = {}
    BY <2>1 DEF Replay, Unlogged
  <2> QED BY <2>2 DEF MInit, History!HInit
<1> QED BY <1>1, TypeInit, VersionTypeStep, HistoryStep, PTL DEF MSpec, Recovers, History!HSpec
=============================================================================
