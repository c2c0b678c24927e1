----------------------------- MODULE BlockReads -----------------------------
(***************************************************************************)
(* SSTableReader::read_block_cached: threads read the data blocks of one   *)
(* SSTable through the block cache.  read_block_with_handle clones the     *)
(* file descriptor, and a cloned descriptor shares its offset with the     *)
(* original, so the seek and the read of one thread are two steps on one   *)
(* shared offset.                                                          *)
(***************************************************************************)
EXTENDS BlockCache

CONSTANT Layout     \* the sequence of the blocks in the file

ASSUME LayoutAssumption ==
    /\ CacheKey = DOMAIN Layout /\ 1 \in DOMAIN Layout
    /\ \A i \in DOMAIN Layout : i \in Nat /\ Layout[i] \in Block

VARIABLES
    offset,    \* the file offset, as the number of the block it stands at; 0: inside a block
    rpc,       \* where each thread is in read_block_cached
    rblock,    \* the number of the block it wants
    result     \* what it returns: {} for an error

rvars == <<offset, rpc, rblock, result>>

RInit ==
    /\ CInit
    /\ offset = 1
    /\ rpc = [t \in Threads |-> "idle"]
    /\ rblock = [t \in Threads |-> 1]
    /\ result = [t \in Threads |-> {}]

Step(t, s) == rpc' = [rpc EXCEPT ![t] = s]

(* The lookup in the cache comes first.                                    *)
ReadBlock(t) ==
    /\ rpc[t] = "idle"
    /\ \E k \in CacheKey : Get(t, k) /\ rblock' = [rblock EXCEPT ![t] = k]
    /\ Step(t, "cache")
    /\ result' = [result EXCEPT ![t] = {}]
    /\ UNCHANGED offset

CacheAnswer(t) ==
    /\ rpc[t] = "cache" /\ At(t, "idle")
    /\ result' = [result EXCEPT ![t] = cval[t]]
    /\ Step(t, IF cval[t] = {} THEN "seek" ELSE "done")
    /\ UNCHANGED <<offset, rblock, cvars>>

SeekBlock(t) ==
    /\ rpc[t] = "seek"
    /\ offset' = rblock[t]
    /\ Step(t, "read")
    /\ UNCHANGED <<rblock, result, cvars>>

(* Mutant: the checksum is not looked at.                                  *)
Unchecked(t) == offset \in DOMAIN Layout

(* read_exact takes as many bytes as the wanted block has from wherever    *)
(* the offset is.  The checksum accepts them if they are a whole block.    *)
Whole(t) == offset \in DOMAIN Layout /\ SizeOf[Layout[offset]] = SizeOf[Layout[rblock[t]]]

ReadData(t) ==
    /\ rpc[t] = "read"
    /\ result' = [result EXCEPT ![t] = IF Whole(t) THEN {Layout[offset]} ELSE {}]
    /\ offset' = IF Whole(t) THEN offset + 1 ELSE 0
    /\ Step(t, IF Whole(t) THEN "insert" ELSE "done")
    /\ UNCHANGED <<rblock, cvars>>

InsertBlock(t) ==
    /\ rpc[t] = "insert"
    /\ \E b \in result[t] : Insert(t, rblock[t], b)
    /\ Step(t, "inserting")
    /\ UNCHANGED <<offset, rblock, result>>

InsertDone(t) ==
    /\ rpc[t] = "inserting" /\ At(t, "idle")
    /\ Step(t, "done")
    /\ UNCHANGED <<offset, rblock, result, cvars>>

Done(t) ==
    /\ rpc[t] = "done"
    /\ Step(t, "idle")
    /\ result' = [result EXCEPT ![t] = {}]
    /\ UNCHANGED <<offset, rblock, cvars>>

(* A thread that is not reading may clear the cache (DB::clear_cache).     *)
ClearCache(t) == rpc[t] = "idle" /\ Clear(t) /\ UNCHANGED rvars

RRest == (\A t \in Threads : rpc[t] = "idle" \/ calls = MaxCalls) /\ UNCHANGED <<cvars, rvars>>

RNext ==
    \/ RRest
    \/ \E t \in Threads :
          \/ ReadBlock(t) \/ CacheAnswer(t) \/ SeekBlock(t) \/ ReadData(t)
          \/ InsertBlock(t) \/ InsertDone(t) \/ Done(t) \/ ClearCache(t)
          \/ CContinue(t) /\ UNCHANGED rvars

RSpec == RInit /\ [][RNext]_<<cvars, rvars>>
-----------------------------------------------------------------------------
(* The cache, the shared offset and every call of read_block_cached        *)
(* (reader.rs:334) have their types.                                       *)
RTypeOK ==
    /\ CTypeOK
    /\ offset \in Nat
    /\ rpc \in [Threads -> {"idle", "cache", "seek", "read", "insert", "inserting", "done"}]
    /\ rblock \in [Threads -> CacheKey]
    /\ result \in [Threads -> SUBSET Block]

(* A read returns the block it asked for, or an error (reader.rs:334).     *)
ReadCorrect == \A t \in Threads : rpc[t] = "done" => result[t] \subseteq {Layout[rblock[t]]}

(* The cache never holds the bytes of one block under the key of another.  *)
CacheCoherent == \A e \in cache : e.block = Layout[e.key]

(* "for concurrent access" (reader.rs:325): a read succeeds whatever other *)
(* threads read.                                                           *)
ReadSucceeds == \A t \in Threads : rpc[t] = "done" => result[t] # {}
=============================================================================
