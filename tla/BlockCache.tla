----------------------------- MODULE BlockCache -----------------------------
(***************************************************************************)
(* cache/lru.rs: the block cache, shared by threads that look blocks up,   *)
(* insert them and clear the cache.  The map, the LRU queue and the        *)
(* statistics each have a lock of their own; one action is one critical    *)
(* section.                                                                *)
(***************************************************************************)
EXTENDS Integers, FiniteSets

CONSTANTS
    Threads,
    CacheKey,         \* a file number and a block offset
    Block,            \* the contents of a block
    SizeOf,           \* the size of each block
    Capacity,         \* BlockCache::capacity
    MaxCalls          \* bound: calls in a behaviour

ASSUME CacheAssumption ==
    /\ SizeOf \in [Block -> Nat \ {0}]
    /\ Capacity \in Nat /\ MaxCalls \in Nat
ASSUME ThreadsAssumption == IsFiniteSet(Threads) /\ Threads # {}

VARIABLES
    cache,            \* HashMap: a set of [key, block], one for each key
    queue,            \* lru_queue: a set of [key, stamp], front to back by stamp
    clock,            \* the last stamp given
    size,             \* current_size
    stats,            \* CacheStats
    cpc, ckey, cval,  \* the call of each thread: its step, key and block
    victim,           \* the key evict_one has taken off the queue
    calls             \* calls made so far

shared == <<cache, queue, clock, size>>
clocals == <<ckey, cval, victim>>
cvars == <<shared, stats, cpc, clocals, calls>>

Entry == [key : CacheKey, block : Block]
Place == [key : CacheKey, stamp : Nat]
Stats == [lookups : Nat, hits : Nat, misses : Nat, insertions : Nat, evictions : Nat]
NoStats == [lookups |-> 0, hits |-> 0, misses |-> 0, insertions |-> 0, evictions |-> 0]
CStep == {"idle", "lookup", "touch", "hit", "miss",
          "room", "pop", "remove", "evicted", "store", "inserted"}

At(t, s) == cpc[t] = s
Move(t, s) == cpc' = [cpc EXCEPT ![t] = s]
Held(k) == {e \in cache : e.key = k}
Places(k) == {p \in queue : p.key = k}
Front(places) == {p \in places : \A q \in places : p.stamp <= q.stamp}
PushBack(places, k) ==
    /\ queue' = places \cup {[key |-> k, stamp |-> clock + 1]}
    /\ clock' = clock + 1

(* The return of a call: cval holds what get found.                        *)
CReturn(t, found) ==
    /\ Move(t, "idle")
    /\ cval' = [cval EXCEPT ![t] = found]
    /\ ckey' = [ckey EXCEPT ![t] = {}]
    /\ victim' = [victim EXCEPT ![t] = {}]

CInit ==
    /\ cache = {} /\ queue = {} /\ clock = 0 /\ size = 0
    /\ stats = NoStats
    /\ cpc = [t \in Threads |-> "idle"]
    /\ ckey = [t \in Threads |-> {}]
    /\ cval = [t \in Threads |-> {}]
    /\ victim = [t \in Threads |-> {}]
    /\ calls = 0

Begin(t) == At(t, "idle") /\ calls < MaxCalls /\ calls' = calls + 1
-----------------------------------------------------------------------------
(***************************************************************************)
(* get.                                                                    *)
(***************************************************************************)
Get(t, k) ==
    /\ Begin(t)
    /\ stats' = [stats EXCEPT !.lookups = @ + 1]
    /\ IF Capacity = 0
       THEN CReturn(t, {})
       ELSE /\ Move(t, "lookup")
            /\ ckey' = [ckey EXCEPT ![t] = {k}]
            /\ cval' = [cval EXCEPT ![t] = {}]
            /\ UNCHANGED victim
    /\ UNCHANGED shared

(* The map's read lock is released before the queue is touched.            *)
GetLookup(t) ==
    /\ At(t, "lookup")
    /\ \E k \in ckey[t] :
          /\ cval' = [cval EXCEPT ![t] = {e.block : e \in Held(k)}]
          /\ Move(t, IF Held(k) = {} THEN "miss" ELSE "touch")
    /\ UNCHANGED <<shared, stats, ckey, victim, calls>>

(* Mutant: the key is taken out and not put back.                          *)
GetTouchLost(t) ==
    /\ At(t, "touch")
    /\ \E k \in ckey[t] : queue' = queue \ Places(k)
    /\ Move(t, "hit")
    /\ UNCHANGED <<cache, clock, size, stats, clocals, calls>>

(* touch moves the first occurrence of the key to the back, or adds one.   *)
GetTouch(t) ==
    /\ At(t, "touch")
    /\ \E k \in ckey[t] : PushBack(queue \ Front(Places(k)), k)
    /\ Move(t, "hit")
    /\ UNCHANGED <<cache, size, stats, clocals, calls>>

(* Mutant: a hit is counted as a miss as well.                             *)
GetHitMiss(t) ==
    /\ At(t, "hit")
    /\ stats' = [stats EXCEPT !.hits = @ + 1, !.misses = @ + 1]
    /\ CReturn(t, cval[t])
    /\ UNCHANGED <<shared, calls>>

GetHit(t) ==
    /\ At(t, "hit")
    /\ stats' = [stats EXCEPT !.hits = @ + 1]
    /\ CReturn(t, cval[t])
    /\ UNCHANGED <<shared, calls>>

GetMiss(t) ==
    /\ At(t, "miss")
    /\ stats' = [stats EXCEPT !.misses = @ + 1]
    /\ CReturn(t, {})
    /\ UNCHANGED <<shared, calls>>
-----------------------------------------------------------------------------
(***************************************************************************)
(* insert and evict_one.                                                   *)
(***************************************************************************)
Insert(t, k, b) ==
    /\ Begin(t)
    /\ IF Capacity = 0 \/ SizeOf[b] > Capacity
       THEN CReturn(t, {})
       ELSE /\ Move(t, "room")
            /\ ckey' = [ckey EXCEPT ![t] = {k}]
            /\ cval' = [cval EXCEPT ![t] = {b}]
            /\ UNCHANGED victim
    /\ UNCHANGED <<shared, stats>>

(* Mutant: the size of the new block is not counted.                       *)
InsertRoomLate(t) ==
    /\ At(t, "room")
    /\ Move(t, IF size > Capacity THEN "pop" ELSE "store")
    /\ UNCHANGED <<shared, stats, clocals, calls>>

(* The size is read without a lock, and an insert that replaces a block    *)
(* takes its size off before it adds the new one: the value read is the    *)
(* current one, or the one in the middle of an insert that is storing.     *)
Storing == UNION {ckey[u] : u \in {v \in Threads : At(v, "store")}}
SeenSizes == {size} \cup {size - SizeOf[e.block] : e \in {f \in cache : f.key \in Storing}}

InsertRoom(t) ==
    /\ At(t, "room")
    /\ \E b \in cval[t], seen \in SeenSizes :
          Move(t, IF seen + SizeOf[b] > Capacity THEN "pop" ELSE "store")
    /\ UNCHANGED <<shared, stats, clocals, calls>>

(* Mutant: the front of the queue is read and left there.                  *)
EvictPeek(t) ==
    /\ At(t, "pop")
    /\ victim' = [victim EXCEPT ![t] = {p.key : p \in Front(queue)}]
    /\ Move(t, IF queue = {} THEN "room" ELSE "remove")
    /\ UNCHANGED <<shared, stats, ckey, cval, calls>>

(* pop_front under the queue's lock; an empty queue evicts nothing.        *)
EvictPop(t) ==
    /\ At(t, "pop")
    /\ queue' = queue \ Front(queue)
    /\ victim' = [victim EXCEPT ![t] = {p.key : p \in Front(queue)}]
    /\ Move(t, IF queue = {} THEN "room" ELSE "remove")
    /\ UNCHANGED <<cache, clock, size, stats, ckey, cval, calls>>

(* The map's lock is taken after the queue's was released.                 *)
EvictRemove(t) ==
    /\ At(t, "remove")
    /\ \E k \in victim[t] :
          /\ cache' = cache \ Held(k)
          /\ IF Held(k) = {}
             THEN Move(t, "room") /\ UNCHANGED size
             ELSE /\ Move(t, "evicted")
                  /\ \E e \in Held(k) : size' = size - SizeOf[e.block]
    /\ victim' = [victim EXCEPT ![t] = {}]
    /\ UNCHANGED <<queue, clock, stats, ckey, cval, calls>>

(* Mutant: an eviction is counted backwards.                               *)
EvictStatDown(t) ==
    /\ At(t, "evicted")
    /\ stats' = [stats EXCEPT !.evictions = @ - 1]
    /\ Move(t, "room")
    /\ UNCHANGED <<shared, clocals, calls>>

EvictStat(t) ==
    /\ At(t, "evicted")
    /\ stats' = [stats EXCEPT !.evictions = @ + 1]
    /\ Move(t, "room")
    /\ UNCHANGED <<shared, clocals, calls>>

(* Mutant: the size of a replaced block is not taken off.                  *)
InsertStoreTwice(t) ==
    /\ At(t, "store")
    /\ \E k \in ckey[t], b \in cval[t] :
          /\ cache' = (cache \ Held(k)) \cup {[key |-> k, block |-> b]}
          /\ PushBack(queue \ Places(k), k)
          /\ size' = size + SizeOf[b]
    /\ Move(t, "inserted")
    /\ UNCHANGED <<stats, clocals, calls>>

(* Both locks: an entry of the same key is replaced.                       *)
InsertStore(t) ==
    /\ At(t, "store")
    /\ \E k \in ckey[t], b \in cval[t] :
          /\ cache' = (cache \ Held(k)) \cup {[key |-> k, block |-> b]}
          /\ \/ /\ Held(k) = {}
                /\ PushBack(queue, k)
                /\ size' = size + SizeOf[b]
             \/ \E e \in Held(k) :
                /\ PushBack(queue \ Places(k), k)
                /\ size' = size - SizeOf[e.block] + SizeOf[b]
    /\ Move(t, "inserted")
    /\ UNCHANGED <<stats, clocals, calls>>

InsertStat(t) ==
    /\ At(t, "inserted")
    /\ stats' = [stats EXCEPT !.insertions = @ + 1]
    /\ CReturn(t, {})
    /\ UNCHANGED <<shared, calls>>
-----------------------------------------------------------------------------
Clear(t) ==
    /\ Begin(t)
    /\ cache' = {} /\ queue' = {} /\ size' = 0
    /\ UNCHANGED <<clock, stats, cpc, clocals>>

ResetStats(t) ==
    /\ Begin(t)
    /\ stats' = NoStats
    /\ UNCHANGED <<shared, cpc, clocals>>

(* The rest of a call that has begun.                                      *)
CContinue(t) ==
    \/ GetLookup(t) \/ GetTouch(t) \/ GetHit(t) \/ GetMiss(t)
    \/ InsertRoom(t) \/ EvictPop(t) \/ EvictRemove(t) \/ EvictStat(t)
    \/ InsertStore(t) \/ InsertStat(t)

CBegin(t) ==
    \/ \E k \in CacheKey : Get(t, k) \/ \E b \in Block : Insert(t, k, b)
    \/ Clear(t) \/ ResetStats(t)

CRest == (\A t \in Threads : At(t, "idle")) /\ UNCHANGED cvars

CNext == CRest \/ \E t \in Threads : CBegin(t) \/ CContinue(t)

CSpec == CInit /\ [][CNext]_cvars

(* A thread that is in a call is scheduled again and again.                *)
CFairSpec == CSpec /\ \A t \in Threads : WF_cvars(CContinue(t))
-----------------------------------------------------------------------------
(* The map, the queue and the statistics of the cache and the state of     *)
(* every call have their types (lru.rs:75).                                *)
CTypeOK ==
    /\ cache \subseteq Entry /\ queue \subseteq Place /\ clock \in Nat /\ size \in Int
    /\ stats \in Stats
    /\ cpc \in [Threads -> CStep]
    /\ ckey \in [Threads -> SUBSET CacheKey]
    /\ cval \in [Threads -> SUBSET Block]
    /\ victim \in [Threads -> SUBSET CacheKey]
    /\ calls \in Nat

(* Every cached block can be evicted: its key is in the LRU queue, or an   *)
(* evict_one that took it off the queue is about to remove it.  touch runs *)
(* without the map's lock (lru.rs:140) and evict_one lets go of the queue  *)
(* before it takes the map (lru.rs:238).                                   *)
CachedQueued ==
    \A e \in cache : Places(e.key) # {} \/ \E t \in Threads : e.key \in victim[t]

(* current_size is the sum of the sizes of the cached blocks, although it  *)
(* is changed by three operations and read without a lock.                 *)
CachedBytes == UNION {{e} \X (1 .. SizeOf[e.block]) : e \in cache}
SizeExact == size = Cardinality(CachedBytes)

(* Racing insertions overrun the capacity by at most one block each.       *)
SizeBounded ==
    \A b \in Block : (\A c \in Block : SizeOf[c] <= SizeOf[b])
        => size <= Capacity + (Cardinality(Threads) - 1) * SizeOf[b]

(* "Maximum cache capacity in bytes" (lru.rs:76).                          *)
WithinCapacity == size <= Capacity

(* "cache hit rate (0.0 to 1.0)" (lru.rs:46).                              *)
HitRateAtMostOne == stats.hits <= stats.lookups

(* Statistics that are reset in the middle of lookups still come out right *)
(* up to one lookup for each thread, although a lookup and its outcome are *)
(* counted in two critical sections (lru.rs:117, 145, 154).                *)
Looking == {t \in Threads : cpc[t] \in {"lookup", "touch", "hit", "miss"}}
StatsBounded ==
    stats.hits + stats.misses + Cardinality(Looking) <= stats.lookups + Cardinality(Threads)

(* insert leaves its eviction loop (lru.rs:178) and returns.               *)
CallsReturn == \A t \in Threads : cpc[t] # "idle" ~> cpc[t] = "idle"
=============================================================================
