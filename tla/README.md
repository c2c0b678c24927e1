# AiDb in TLA+

Specifications of the AiDb storage engine (an LSM-tree key-value store in Rust),
TLC models of them, and TLAPS proofs. Line numbers such as `lib.rs:905` refer to
the crate's `src/` directory. `PROJECT.json` maps every definition to the lines it models.

## The system

| Part | Source | Module | Status |
|---|---|---|---|
| put, delete, write | `lib.rs`, `write_batch.rs` | Engine | modelled |
| flush, close, drop | `lib.rs` | Engine | modelled |
| WAL rotation | `lib.rs` | Engine | modelled |
| compaction | `lib.rs`, `compaction/` | Engine, Tables | modelled |
| version set, manifest | `compaction/version.rs` | Manifest, Engine | partly: `load_sstables`, unused by `DB`, left out |
| open and recovery | `lib.rs` | Engine | partly: errors of open left out |
| MemTable | `memtable/` | Tables, Engine | modelled; the skip list is external |
| get, snapshots | `lib.rs`, `snapshot.rs` | Reads | partly: not through overwritten files |
| block cache | `cache/lru.rs` | BlockCache | modelled |
| concurrent block reads | `sstable/reader.rs` | BlockReads | modelled |
| WAL file | `wal/` | WalFile | modelled |
| options, errors | `config.rs`, `error.rs` | Engine (constants) | partly |
| SSTable format | `sstable/` | TableFile, Blocks | modelled, without compression |
| Bloom filter | `filter/bloom.rs` | Bloom | modelled, without estimates of its error rate |
| DBIterator | `iterator.rs` | Scans | modelled, without read errors |

The cluster that the documents describe is not in the source.

A write draws sequence numbers from a counter, appends to the log under the log's
lock, inserts into the MemTable under its read lock, and freezes the MemTable when it
is full. flush freezes too, writes every immutable MemTable to an SSTable, replaces
and removes the log, and compacts. No lock spans these steps, and client threads run
them beside each other. That is what Engine is about.

## Modules

**Tables** has the pure functions: what a MemTable, an SSTable, a level and a merge
hold and return. An operation has an identity, so an answer names the write it is from.

**Engine** is the `DB` object. An action is one critical section or one file operation.

| State | Code |
|---|---|
| `sequence`, `memtable`, `immutable`, `levels`, `nextFile`, `wal`, `walNumber` | the fields of `DB` |
| `rank` | positions in the lists of tables |
| `walBuf` | the BufWriter of the log |
| `logs`, `files`, `version` | the directory, and the version set |
| `pc` and the variables beside it | the local state of a thread in a call |
| `hist`, `acked`, `purged`, `must`, `opens`, `faults` | history and bounds, not in the code |

`Open`, `Crash`, `Spill` (a full buffer) and `Fail` (an I/O error at any step, with the
work done so far left in place) complete it. `Drop` starts only when no call is in
progress, as Rust's ownership guarantees. `ExclusiveFlush` is an assumption about the
*clients*, not about the code: when TRUE, no flush or compaction runs beside another
call. **EngineProps** states the properties.

**Reads** extends the engine with threads that call get and take snapshots.
**BlockCache** is the LRU cache. **BlockReads** puts `read_block_cached` on top of it,
with one file offset shared by all threads. **WalFile** is one log file, record by
record. A record above the BufWriter's capacity goes straight to the file, so an append that fails there leaves a
torn record (`AppendTears`); other failed appends leave whole ones. Engine treats a log as a sequence of whole entries
and does not use WalFile.

**Manifest** is the version set and its file. An edit is applied in memory, written and
ended with a newline, three actions; a crash or a failed write may come between any two and leave a
torn line. `manifest` is the text, line by line as what it parses to. **VersionHistory** is what it promises:
edits become durable one at a time and a start brings back what is durable. Manifest implements
it under the mapping `durable <- Replay(manifest)`.

**TableFile** is one SSTable from `SSTableBuilder::new` to its reader. `builder`, `reader` and
`cursor` are the Rust objects, `file` the regions of the file with their sizes in bytes. **Blocks** has
the entries of a block with shared prefixes, the restart points and the binary search of the
index, **Bloom** the filter. Keys are short sequences of symbols, since prefixes matter; offsets and
sizes are those of the code. **SortedTable** is what a table promises: a list of entries with
increasing keys, which lookups, ends, listing and iterator return, or an error after damage.
TableFile implements it; `added`, a history variable, gives the abstract entries.

**Scans** puts DBIterator on top of Reads: it collects keys under three locks and loads each entry
with the steps of a lookup. `it[r]` is the iterator; its fields `move` and `goal` are history. `ScanAlone` is, like
`ExclusiveFlush`, an assumption about the clients.

The operators marked `Mutant` are altered copies of the definition that follows
them, the way a plausible mistake would alter it.

## What holds on the instances checked

These runs pass. Each of their properties is violated when one of the `Mutant`
definitions is put in place.

| Run | Shows | Instance |
|---|---|---|
| `concurrent` | unique numbers, nothing acknowledged leaves memory, a flush is complete on disk, lookups search newer tables first (level 0 excepted) | 2 keys, 2 writers, 1 flusher beside them, 3 operations |
| `sessions` | replay restores, memory is logged, a batch is logged before it is inserted, nothing lost until session 2 writes tables | 2 keys, 1 writer with batches and deletes, a crash anywhere, 2 sessions, ExclusiveFlush |
| `flushers` | open tables have their files, files immutable (first session), version set in step | 2 flushers, 2 operations, 2 sessions, no WAL |
| `liveness` | every call returns | 1 writer, 1 flusher beside it, 2 operations, 1 I/O error |
| `reads` | get is never stale and snapshots are stable, while nothing is flushed | 2 keys, 2 writers, puts only, no flusher, snapshots taken between writes |
| `cache` | exact size, bounded overrun, statistics right up to one lookup a thread, every block evictable, every call returns | 2 threads, 3 keys, capacity 2 |
| `block_reads` | no wrong block returned or cached | blocks of *different* sizes |
| `wal` | recovery returns whole entries in order, and every synced one before the first cut | 3 entries, 2 stops (power loss included), 1 failed append, torn in the middle of a record included |
| `manifest` | memory and file agree, only a torn line stops recovery, the output of a compaction is listed wherever its edits are interrupted, VersionHistory is implemented | 3 files, 2 compactions, 3 sessions, 1 failed write, a crash anywhere |
| `table` | SortedTable is implemented; blocks decode, offsets are exact, the filter is found, no assertion fails | 4 keys with shared prefixes and the empty key, 2 values, blocks of 20 and 36 bytes, restart interval 2, 1 damaged block |
| `iterator` | every move forwards meets the next entry of the moment of creation, prev never goes forwards | 2 keys, 3 operations with deletes and flushes, 2 moves, ScanAlone |

Further configurations pass too. They are kept beside the listed runs, for larger or
different instances:

| Configuration | Shows | Instance |
|---|---|---|
| `MCEngine_durable` | acknowledged writes are recoverable at every moment | 2 writers with batches and deletes, ExclusiveFlush, 1 session |
| `MCEngine_faults` | memory is logged, unique numbers | 1 writer, 2 sessions, 1 I/O error, ExclusiveFlush |
| `MCEngine_unsynced` | a crash keeps a set closed under the order of calls | no sync_wal, ExclusiveFlush |
| `MCEngine_levels` | version set in step above level 0 | 3 levels, 4 operations, deletes and empty values |
| `MCEngine_liveness` with `Writers = {w1, w2}` | every call returns | 2 writers |
| `MCScans_ranges` | as `iterator` | scans of a part of the keys, 1 move |
| `MCReads_snapshot` | snapshots are stable while nothing is flushed | 1 writer, deletes |

Read the last column with the second. Several of these hold only under the
restriction it names; the next section has what happens without it.

## Where the code and its documentation disagree

The listed run `second_session` ends in a counterexample to `lib.rs:129`, "any existing data will be
recovered": file numbers restart at 2, so a flush overwrites a table of the session before, and with it the only copy
of writes to keys the flush does not hold.

So do the following. A row names a configuration of this directory, what to change in it, and the property
to put in place of its own.

| Configuration | Property | What happens | What the repository says |
|---|---|---|---|
| `MCEngine_beside` | `Durable` | a flush beside a put removes the log of a write not yet in a table | `lib.rs:11`, "Ensures durability by logging all writes" |
| `MCEngine_error` | `Durable` | a failed flush drops its MemTable, the next removes its log | `wal/mod.rs:3`, "ensures durability" |
| `MCEngine_lost` | `SSTablesImmutable` | a finished table is truncated by the next session | `sstable/mod.rs:3`, "an immutable, sorted file format" |
| `MCEngine_lost` | `VersionSynced` | flushed tables are not in the version set | `docs/completions/BUG_FIX_SSTABLE_MANAGEMENT.md:109`, "always synchronized" |
| `MCEngine_flushorder` | `InMemory` | overlapping flushes install tables out of order, compaction keeps the older value | `lib.rs:839`, "newest files first" |
| `MCEngine_flushorder` | `FlushedOnDisk` | a flush rotates the log while another still holds a MemTable | `lib.rs:893`, "after successful flush" |
| `MCEngine_replay` | `ReplayRestores` | log order differs from sequence order, replay restores the older value | `wal/mod.rs:10`, "replayed to restore the MemTable" |
| `MCEngine_batch` | `BatchAtomic` | the log may hold a part of a batch | `lib.rs:629`, "replayed together" |
| `MCEngine_levels` | `LevelsDisjoint` | a second compaction of level 0 puts a table with the same key beside the first | `docs/ARCHITECTURE.md:132`, sorted and not overlapping |
| `MCReads_oldest` | `QuietReadsFresh` | of two flushed values, get returns the older | `lib.rs:348`, "its value will be overwritten" |
| `MCReads_overtaken` | `GetFresh` | a lookup misses a MemTable that moves between two locks | `lib.rs:421`, None means absent or deleted |
| `MCReads_deleted` | `QuietReadsFresh` | a deleted key is found in an immutable MemTable | `lib.rs:421` |
| `MCReads_emptied` | `QuietReadsFresh` | an empty value is gone after a flush | `lib.rs:421`; `tests/boundary_tests.rs:139` calls it an implementation detail |
| `MCReads_unsettled`, or `MCReads_overtaken` with `ExclusiveFlush = TRUE` | `SnapshotStable` | a snapshot sees a later write | `lib.rs:543`, "regardless of subsequent modifications" |
| `MCScans_forward` | `PrevExact` | prev that meets a deleted key goes forwards, back to where it was | `iterator.rs:190`, "Moves to the previous entry" |
| `MCScans_forward` | `LastExact` | seek_to_last on a deleted key ends behind the last entry | `iterator.rs:220`, "Seeks to the last key" |
| `MCScans_forward` with `ScanAlone = FALSE` | `ForwardExact` | an iterator created in the middle of a put sees its value appear | `iterator.rs:11`, "a consistent view" |
| `MCBlockCache_safety` | `WithinCapacity` | two inserts exceed the capacity for a moment | `cache/lru.rs:76`, "Maximum cache capacity" |
| `MCBlockCache_safety` | `HitRateAtMostOne` | more hits than lookups after a reset | `cache/lru.rs:46`, "0.0 to 1.0" |
| `MCBlockReads_checked` | `ReadSucceeds` | threads share one file offset: a read fails | `sstable/reader.rs:325`, "for concurrent access" |
| `MCBlockReads_checked` with `SizeOf <- SameSizes` | `ReadCorrect` | and it returns another block | the same |
| `MCWalFile_power` | `RecoverySucceeds` | a cut payload makes recovery fail | `wal/reader.rs:133`, "all valid entries" |
| `MCWalFile_power` with `PowerLosses = FALSE` | `AllSynced` | entries synced behind an interrupted one are not recovered | `tests/crash_recovery_tests.rs:39`, "All WAL-persisted data should be recovered" |
| `MCManifest_edits` | `Reopens` | a line cut short makes every later open fail | `compaction/version.rs:147`, "Recover from an existing manifest file" |
| `MCTableFile_files` | `KeysListed` | `keys` lists an empty key first | `sstable/reader.rs:428`, "Returns all keys in the SSTable." |
| `MCTableFile_files` with `SizedFirst = FALSE` | `NoFalseNegatives` | `set_expected_keys` after `add` empties the filter | `filter/bloom.rs:190`, "no false negatives" |

These are traces of the model. They were compared with the source line by line and
have not been reproduced by running the crate. `SameSizes` assumes blocks of exactly
equal length.

## Bounds

All bounds are constants: `MaxOps`, `MaxBatch`, `MaxOpens`, `MaxFaults`, `MaxFile`,
`MaxWal`, `MaxInstalls`, `MaxInputs`, `MaxScans`, `MaxMoves`, `MaxCalls`, `MaxEntries`, `MaxStops`, `MaxErrors`. Sizes are counted in entries and
shrunk: a MemTable of one or two entries, level 0 of one to three tables, records of two
units. With two or three operations a key is overwritten, a MemTable is frozen and
flushed, two tables are merged, and a second session reuses a number. Level 2 is reached in `concurrent`. Entry lengths 1, 2, 4 and 5 with records of 2 give Full, First, Middle and Last records,
exact multiples and one more. Keys of one to three symbols in blocks of 20 and 36 bytes give tables of one block and of several,
restart points inside a block, and lookups before, between and behind the entries of the index. Hashes have 16 bits and
a filter is sized for 7 keys by default, so that false positives of the filter do happen. Three sessions of the manifest let a torn line be
followed by a further open. Two threads are enough for each race described here.
Races that need three are not excluded by the runs, only by the theorems where there is one.
Symmetry is used for keys and threads, in safety runs only. `MaxFile` stops new flushes and compactions,
not those in progress.

## Fairness

`FairSpec` and `CFairSpec` assume that a thread inside a call keeps being scheduled and that a lock
it waits for is handed on. Nothing is assumed about clients making calls, or about crashes.
`MaxOps` also bounds the writers. The loop of flush (`lib.rs:879`) runs while others freeze
MemTables, and `EveryCallReturns` does **not** show that it ends beside writers that never stop.
Likewise `MaxCalls` for the eviction loop. A critical section is one action, so waiting
for a second lock inside one is not represented.

## Proofs

EngineProofs has the types of Engine, the sequence numbers, which calls may overlap, and the history of operations. Two lines
build on it: FileProofs (the log and the files), CoverProofs and DurableProofs, each on the one before; and ReadProofs, about
Reads, with ScanProofs, about Scans, on top. StorageProofs is about BlockCache, BlockReads and Manifest, WalProofs about WalFile.

The theorems hold for every value of the constants that the named assumptions admit: `ConstantsAssumption`,
`ReadersAssumption`, `ScansAssumption`, `CacheAssumption`, `ThreadsAssumption` (the threads are finitely many, and there is one), `LayoutAssumption`,
`WalAssumption` and `ManifestAssumption`, all of them evaluated by TLC in the runs.

| Theorem | Statement | Inductive invariant |
|---|---|---|
| `EngineTypeCorrect` | `TypeOK` | `TypeInv`: adds `BatchReady`, that a write has an operation left until it leaves "apply" |
| `SequenceNumbersUnique` | `SeqUnique` | `SeqInv`: adds that pending numbers have been drawn and that memory is empty without a `DB` |
| `MemoryIsLogged`, `BatchesLogged` | `MemoryLogged`, `BatchLoggedFirst` | `LogInv` |
| `OpenTablesOnDisk`, `FinishedFilesImmutable` | `TablesOnDisk`, `FinishedFilesKept` | `FileInv` |
| `CompactionSyncsVersion` | `CompactedSynced` | `VersionInv`, with `FileInv` |
| `WritesStayInMemory`, `FlushReachesDisk` | `InMemory`, `FlushedOnDisk`, in the first session, without I/O errors, if `OneFlusher` | `CoverInv` |
| `LookupFollowsAge` | `SearchedByAge`, if `OneFlusher` | `CoverInv` |
| `WritesAreDurable` | `DurableUntilReflush`, through two sessions, without I/O errors, if `ExclusiveFlush` | `DurableInv`, with all of the above |
| `SnapshotsAreStable` | `SnapshotStable`, if `QuietSnapshots` and there are no flushers | `SnapInv`, with `ReadersOK` |
| `GetsAreFresh` | `GetFresh`, in the first session, without deletes and flushers | `GetInv`, with `ReadersOK` |
| `ScansAreExact`, `PrevGoesBack` | `ForwardExact`, `PrevNotAfter`, if `ScanAlone` and there are no flushers | `ScanInv`, with `SnapInv` |
| `CacheTypeCorrect`, `CachedBlocksEvictable` | `CTypeOK`, `CachedQueued` | `CacheInv`: adds unique stamps and that a victim is held only between pop and removal |
| `SizeIsExact` | `SizeExact` | `ExactInv`: adds that a key has one entry |
| `CapacityBounded` | `SizeBounded` | `SizeInv` |
| `StatisticsBounded` | `StatsBounded` | itself |
| `CachedReadsCorrect`, `CacheHoldsOwnBlocks` | `ReadCorrect`, `CacheCoherent`, if `SizesTell` or `OneReader` | `ReadInv` |
| `LoneReadsSucceed` | `ReadSucceeds`, if `OneReader` | `ReadInv` |
| `WalTypes`, `RecoveryIsWhole` | `WTypeOK`, `RecoveredWhole` | `WalInv` |
| `SyncedRecovered` | `SyncedUntilCut` | `SyncInv`, with `WalInv` |
| `ManifestTypes`, `MemoryAndFile`, `UncutManifest` | `MTypeOK`, `MemoryMatchesFile`, `UncutReopens` | `TypeInv`, `Agree`, `WholeText` |
| `OutputSurvives` | `OutputListed` | `OutputFirst`, with `TypeInv` |
| `ManifestImplements` | `Recovers`, that is `VersionHistory!HSpec` | `TypeInv`, `Agree`, `WholeText` |

**Sequence numbers.** `SeqUnique` alone is not inductive: a number that is pending but not drawn could be drawn
again. Drawing is one atomic step, so it never is.

**The log.** `MemoryLogged` and `BatchLoggedFirst` speak only of databases with a WAL whose clients respect
`ExclusiveFlush`; `MemoryLogged` is false without (`MCEngine_beside`). `LogInv` adds that a flush is alone
(`Exclusive`), that it has emptied the memory when it rotates (`FlushEmpties`), that the log in use is the one open
would choose (`LogCurrent`), and that operations are logged before they are inserted (`WritesLogged`). A
rotation then removes a log that nothing in memory needs.

**Files and the version set.** These theorems speak only of the first session; later ones reuse numbers
(`second_session`). `FileInv` says that every number in use is below the counter, that no two builders
share one, and that a compaction's inputs are in their level or nowhere. So the edits of an installation, which are made from the
task, change every level of the version set above 0 as the installation changes the table list, even when two compactions
overlap and share inputs. A manifest edit that fails breaks this, hence "without I/O errors".

**No acknowledged write disappears.** `InMemory` says only that a write or a later one to its key is *somewhere*, and a
merge keeps one version for each key, so it is not inductive: a merge could keep the wrong one. `CoverInv` orders the
structures from the newest to the oldest (MemTable, immutable list, the MemTable a flush holds, level 0 by rank, the
levels below) and says that an inserted operation is covered in one of them and that no newer one hides it behind an
*older* write (`Kept`): in level 0 the list's order counts, below it the level first and then the order of the list
(`Leads`, `Deep`), because a merge takes all of level 0, or the front of another level, and puts its output at the end of the next. It needs that the MemTable's versions of a key have the order of the calls (`Numbered`,
`Topped`), what a flushing thread and a merging thread have in hand (`FlushOK`, `CompactOK`), and, for a flush,
that what it owes has been frozen, then written (`Owed`). The three hypotheses are those without which the property is false:
overlapping flushes install tables out of order (`MCEngine_flushorder`), a failed flush drops its MemTable
(`MCEngine_error`), and a second session overwrites files (`second_session`).

**Lookups follow age.** Between calls no flush holds a MemTable, so for a key that was only ever put `Kept` names the place
of a value that covers the operation, and every place a lookup searches earlier holds nothing older. That the lookup finds a
last hit of a list and a first level with a hit is the well-ordering of the naturals (`LeastNat`). Level 0 is the exception: it is
filled at the front and searched from the back, so the theorem supposes at most one table there with the key
(`MCReads_oldest` shows what happens with two).

**Durability** joins these. In the first session what memory and tables cover is in the log (`LogInv`) and in the files
(`FileInv`), hence on disk; a crash or drop leaves it there; open loads the tables and replays the newest log;
and until the second session creates a file its memory and tables only grow. `DurableInv` says this for each of the four stages.

**Reads.** A lookup holds no lock between the MemTable, the immutable list and the tables. For a snapshot taken while no
write is in progress every version up to its number is in place, and all that is inserted later has a higher one
(`Ahead`), so `Lookup` at that number never changes again; `SnapInv` says so, and that a lookup that has passed a
lock would still miss there (`Searched`): a freeze moves a MemTable *behind* the lookup only with versions the lookup
cannot see or has seen. A get has no such number to hold on to: writes below it may still be under way. `GetInv` says instead that every
operation that had returned when the get began is still ahead of it (`GetOK`), that all inserted operations are in
memory under their own numbers, and that a newer MemTable holds nothing that returned before something in an older
one began (`NotOlder`), so that the first hit is fresh. Each hypothesis is one without which the property is false: a flush
beside a lookup (`MCReads_overtaken`), a flush before it (`MCReads_oldest`), a tombstone, which hides nothing in the MemTables
behind it (`MCReads_deleted`), and a snapshot in the middle of a write (`MCReads_unsettled`).

**Iterators.** An iterator collects keys under three locks and looks each one up when it gets there, at the number it drew when
it was created. By `SnapInv` those lookups answer as they would have at creation (`view`). `ScanInv` says for each phase why the
right key is met. While keys are collected, one that had a value then is collected or is in a structure still to come
(`Gathers`): freezes move keys only that way, and writes only add. The list is then sorted and has every such key (`Lists`). During
a load, every key ahead stands at or after the position, and those skipped had no value (`Approaches`), so the entry it stops at is the
first one ahead (`Arrives`); after prev, the entry it left stands after the position, so the skipping ends there at the latest.
`ScanAlone` is needed (`MCScans_forward` with `FALSE`). That nothing is flushed is a limit of the proof: `iterator` and
`MCScans_ranges` check the same with flushes.

**The block cache.** `SizeBounded` is about the moment after a store, but the store was decided earlier, by a
check of a size that other threads have changed since. `SizeInv` counts the threads that have found room and not yet stored, each
for the largest block: together with them the size is within the bound, except for the last of them to find room, which saw that
its own block fits, and for one that replaces an entry and will take the old size off. These exceptions and their combination are the
four cases of `Fits`. For reads, `ReadInv` relates the cache call of a thread to the read that waits for it. The hypotheses of
`CachedReadsCorrect` are again needed: with blocks of one size two readers confuse each other through the shared offset.

**The log file.** `WalInv` says that file and buffer are a chain of fragments (`Chained`): each is a piece of its
entry at a multiple of the record size, and stands behind the whole fragment before it, or begins an entry newer than the
one before. Fragments of an interrupted append are followed only by newer entries, so the reader, which joins First, Middle and Last
records as they come, never joins two entries. `SyncInv` adds the order of records and bytes (`Sorted`), that what was
added ends with a whole last record (`Written`), durably if synced (`Kept`), and that the reader has returned every entry whose
end it has passed and stops early only at an entry cut short (`Passed`). The last point is a counting argument: an entry whose last
bytes are missing has fewer bytes in the file than its length.

**The manifest.** `Agree` adds to `MemoryMatchesFile` that between the application of an edit and its text the
memory is one edit ahead of the file, and `WholeText` adds to `UncutReopens` that the text ends in a newline unless an
edit has just been written: without it, the next edit would join the line before. Both rest on lemmas about
`Replay` of a file with one token more. `OutputFirst` adds to `OutputListed` that the edits still to be written add their
file before they delete any, and that none of those deleted is the one added. For the refinement, each action maps to a step of VersionHistory or
to a stutter; a crash in the middle of an edit is `Stop`, a failed write `GiveUp`.

Only model-checked:

- liveness under fairness (`EveryCallReturns`, `CallsReturn`), which is out of the prover's reach;
- all of TableFile (`Implements`, `DecodesBack` and the others), which needs the bits of the filter's hashes and recursive
  definitions;
- `ReplayRestores`, and the iterator over flushed tables, which have no proof yet.

Sums are written as cardinalities of sets with one element for each byte or entry (`CachedBytes`, `LevelSize`, `Present`), so that
the library's theorems on finite sets apply to them.

## Not modelled

- Compression of SSTable blocks (the bytes between builder and reader), the text of an edit in the manifest, and the
  exact bytes of footers and records.
- `VersionSet::load_sstables` and the edits SetNextFileNumber and SetSequenceNumber: `DB` uses none of them.
- Composition of TableFile with Engine: there an SSTable is a set of entries that is finished or not, which is what
  SortedTable promises of an undamaged file.
- Read errors under DBIterator, which its moves ignore (`iterator.rs:187`).
- That compaction makes progress. It need not: one that leaves only tombstones keeps its inputs (`lib.rs:984`).
- Estimates, statistics and accessors of Bloom filter, snapshot, write batch and options.
- Errors of `DB::open`, a damaged table or manifest in particular.
- Lookups through readers whose file a later session has overwritten. A merge over such a file does happen in Engine: it meets
  some of what was written into the file since, or ends early (`Contents`, `MergeOutcomes`); which entries lie where the
  old blocks did is left open. The freshness runs have one session.
- The effect of reused file numbers on the block cache.
- A power loss in Engine: a crash there keeps what reached the file. WalFile has power losses.

## Plan

1. What readers see of a batch; two rotations at once.
2. An abstract key-value map that a restricted engine (one session, no flush) refines.
3. Tombstones dropped over level 1, and a merge cut short by a read error, each on its own.
4. Proofs: `ReplayRestores` with the condition on the order of the log that it needs, and `NeverPanics` for every set of keys.
5. Block cache and reused file numbers together, over two sessions.
