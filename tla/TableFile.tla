----------------------------- MODULE TableFile ------------------------------
(***************************************************************************)
(* One SSTable from SSTableBuilder::new to the reads of SSTableReader      *)
(* (sstable/builder.rs, sstable/footer.rs, sstable/reader.rs).  The file   *)
(* is a sequence of regions; a handle is the byte offset and the byte size *)
(* the builder computed, and reading one succeeds only where a whole       *)
(* region with that place and size is and its checksum still holds.        *)
(* Compression is off, as everywhere in the database.                      *)
(***************************************************************************)
EXTENDS Blocks, Bloom, FiniteSets

CONSTANTS
    Value,              \* byte strings; the empty one is a tombstone
    BlockLimits,        \* arguments of set_block_size
    RestartInterval,    \* 16 in the code
    DefaultKeys,        \* keys a filter is sized for by default, 10000 in the code
    ExpectedKeys,       \* arguments of set_expected_keys
    SizedFirst          \* whether set_expected_keys is called before the first add

ASSUME TableAssumption ==
    /\ BlockLimits \subseteq Nat /\ RestartInterval \in Nat \ {0} /\ DefaultKeys \in Nat \ {0}
    /\ ExpectedKeys \subseteq Nat /\ <<>> \in Key /\ <<>> \in Value
    /\ SizedFirst \in BOOLEAN

VARIABLES
    phase,      \* "building", "finished", "abandoned", "open"
    builder,    \* the SSTableBuilder
    file,       \* the regions written, each with its kind, contents and size
    total,      \* the size finish returned
    damaged,    \* the regions whose bytes changed after they were written
    reader,     \* the SSTableReader: its index block and filter
    cursor,     \* the SSTableIterator
    answer,     \* the result of the last call
    added,      \* history: the entries add accepted
    panicked    \* whether an assertion of BlockBuilder::add failed

tvars == <<phase, builder, file, total, damaged, reader, cursor, answer, added, panicked>>

Result(kind, key, value) == [kind |-> kind, key |-> key, value |-> value]
Done == Result("ok", <<>>, <<>>)
Failure == Result("error", <<>>, <<>>)
Nothing == Result("none", <<>>, <<>>)

NoFilter == [bits |-> <<>>, num_bits |-> 0, num_hashes |-> 0]
EmptyIndex == BlockFinish(IndexBuilder)
Region(kind, content, size) == [kind |-> kind, content |-> content, size |-> size]
Handle(offset, size) == [offset |-> offset, size |-> size]

(* at: current_block_index, -1 before there is an iterator; loaded: the    *)
(* block current_block_iter is over, 0 for None; it: current_block_iter.   *)
NoCursor == [at |-> -1, loaded |-> 0, it |-> SeekToFirst(EmptyIndex)]

(* SSTableBuilder::new, set_block_size and set_bloom_filter_enabled.       *)
NewBuilder(enabled, block_size) ==
    [block |-> BlockBuilder(RestartInterval), index |-> IndexBuilder, last_key |-> <<>>,
     offset |-> 0, pending |-> NoHandle, filter |-> NoFilter, enabled |-> enabled,
     block_size |-> block_size]

TInit ==
    /\ phase = "building" /\ \E e \in BOOLEAN, n \in BlockLimits : builder = NewBuilder(e, n)
    /\ file = <<>> /\ total = 0 /\ damaged = {}
    /\ reader = [index |-> EmptyIndex, filter |-> NoFilter] /\ cursor = NoCursor
    /\ answer = Done /\ added = <<>> /\ panicked = FALSE
-----------------------------------------------------------------------------
(* set_expected_keys replaces the filter by an empty one.                  *)
SetExpectedKeys ==
    /\ phase = "building" /\ builder.enabled
    /\ SizedFirst => builder.last_key = <<>>
    /\ \E n \in ExpectedKeys : builder' = [builder EXCEPT !.filter = NewFilter(n)]
    /\ UNCHANGED <<phase, file, total, damaged, reader, cursor, answer, added, panicked>>

(* A pending handle enters the index under the largest key of its block.   *)
Indexed(b) ==
    IF b.pending = NoHandle THEN b
    ELSE [b EXCEPT !.index = IndexAdd(@, b.last_key, b.pending), !.pending = NoHandle]

(* Mutant: the offset leaves out the compression byte and the checksum.    *)
FlushedBare(b) ==
    IF BlockIsEmpty(b.block) THEN b
    ELSE [b EXCEPT !.pending = Handle(b.offset, BlockSize(b.block) + 5),
                   !.offset = @ + BlockSize(b.block),
                   !.block = BlockBuilder(RestartInterval)]

(* flush_data_block on the builder's fields: the block is followed by a    *)
(* compression byte and four bytes of checksum.                            *)
Flushed(b) ==
    IF BlockIsEmpty(b.block) THEN b
    ELSE [b EXCEPT !.pending = Handle(b.offset, BlockSize(b.block) + 5),
                   !.offset = @ + BlockSize(b.block) + 5,
                   !.block = BlockBuilder(RestartInterval)]

(* flush_data_block on the file.                                           *)
FlushedFile(b) ==
    IF BlockIsEmpty(b.block) THEN file
    ELSE Append(file, Region("data", BlockFinish(b.block), BlockSize(b.block) + 5))

(* The filter with the key, created on the first one.                      *)
Filtered(b, key) ==
    IF ~b.enabled THEN b.filter
    ELSE FilterAdd(IF b.filter = NoFilter THEN DefaultWithKeys(DefaultKeys) ELSE b.filter, key)

(* Mutant: an equal key passes.                                            *)
RefusesLess(b, key) == key = <<>> \/ (b.last_key # <<>> /\ KeyLess(key, b.last_key))

Refuses(b, key) == key = <<>> \/ (b.last_key # <<>> /\ ~KeyLess(b.last_key, key))

Add(key, value) ==
    LET b == Indexed(builder)
        c == [b EXCEPT !.block = BlockAdd(@, key, value, Len(value)),
                       !.last_key = key, !.filter = Filtered(b, key)]
        full == BlockSize(c.block) >= c.block_size
    IN  /\ phase = "building" /\ ~panicked
        /\ ~Refuses(builder, key)
        /\ builder' = IF full THEN Flushed(c) ELSE c
        /\ file' = IF full THEN FlushedFile(c) ELSE file
        /\ panicked' = (~BlockAccepts(b.block, key)
                        \/ (builder.pending # NoHandle /\ ~BlockAccepts(builder.index, builder.last_key)))
        /\ answer' = Done
        /\ added' = Append(added, [key |-> key, value |-> value])
        /\ UNCHANGED <<phase, total, damaged, reader, cursor>>

AddRefused(key) ==
    /\ phase = "building" /\ Refuses(builder, key)
    /\ answer' = Failure
    /\ UNCHANGED <<phase, builder, file, total, damaged, reader, cursor, added, panicked>>

(* Mutant: the last block is not entered in the index.                     *)
FinishUnindexed ==
    LET b     == Flushed(builder)
        meta  == IF b.filter = NoFilter THEN 8 + 5 ELSE FilterSize(b.filter) + 5
        index == BlockFinish(b.index)
        size  == BlockSize(b.index) + 5
        metaIndex  == Handle(b.offset + meta, 8 + 5)
        indexBlock == Handle(b.offset + meta + 8 + 5, size)
    IN  /\ phase = "building" /\ ~panicked /\ phase' = "finished"
        /\ file' = FlushedFile(builder) \o
                     << Region("meta", b.filter, meta), Region("metaindex", <<>>, 8 + 5),
                        Region("index", index, size),
                        Region("footer", [metaIndex |-> metaIndex, index |-> indexBlock], 48) >>
        /\ total' = indexBlock.offset + size + 48
        /\ builder' = b
        /\ UNCHANGED <<damaged, reader, cursor, answer, added, panicked>>

(* finish: the last block and its index entry, the meta block with the     *)
(* filter or eight zero bytes, the meta index block, the index block and   *)
(* the footer with the handles of the latter two.                          *)
Finish ==
    LET b     == Indexed(Flushed(builder))
        meta  == IF b.filter = NoFilter THEN 8 + 5 ELSE FilterSize(b.filter) + 5
        index == BlockFinish(b.index)
        size  == BlockSize(b.index) + 5
        metaIndex  == Handle(b.offset + meta, 8 + 5)
        indexBlock == Handle(b.offset + meta + 8 + 5, size)
    IN  /\ phase = "building" /\ ~panicked /\ phase' = "finished"
        /\ file' = FlushedFile(builder) \o
                     << Region("meta", b.filter, meta), Region("metaindex", <<>>, 8 + 5),
                        Region("index", index, size),
                        Region("footer", [metaIndex |-> metaIndex, index |-> indexBlock], 48) >>
        /\ total' = indexBlock.offset + size + 48
        /\ builder' = b
        /\ UNCHANGED <<damaged, reader, cursor, answer, added, panicked>>

(* abandon: the file keeps the blocks that were flushed.                   *)
Abandon ==
    /\ phase = "building" /\ ~panicked /\ phase' = "abandoned"
    /\ UNCHANGED <<builder, file, total, damaged, reader, cursor, answer, added, panicked>>

(* The disk changes bytes of a block that is read back.  (The footer has   *)
(* no checksum.)                                                           *)
Damage ==
    /\ phase = "finished" /\ damaged = {}
    /\ \E i \in DOMAIN file : file[i].kind \in {"data", "meta", "index"} /\ damaged' = {i}
    /\ UNCHANGED <<phase, builder, file, total, reader, cursor, answer, added, panicked>>
-----------------------------------------------------------------------------
Offset(i) ==
    LET end[n \in 0 .. i - 1] == IF n = 0 THEN 0 ELSE end[n - 1] + file[n].size
    IN  end[i - 1]
FileSize == Offset(Len(file) + 1)

(* read_block_data: the region a handle names, 0 for an error.             *)
ReadAt(h) ==
    LET at == {i \in DOMAIN file \ damaged : Offset(i) = h.offset /\ file[i].size = h.size}
    IN  IF at = {} THEN 0 ELSE Max(at)

(* Mutant: the filter is looked for after the first data block.            *)
LastDataEndFirst(index) ==
    LET es == BlockEntries(index)
    IN  IF es = <<>> THEN 0 ELSE es[1].value.offset + es[1].value.size

(* The end of the data blocks according to the index.                      *)
LastDataEnd(index) ==
    LET es == BlockEntries(index)
    IN  IF es = <<>> THEN 0 ELSE es[Len(es)].value.offset + es[Len(es)].value.size

(* try_read_bloom_filter: what lies between the data blocks and the meta   *)
(* index block; an error leaves the reader without a filter.               *)
ReadFilter(index, metaIndex) ==
    LET end == LastDataEnd(index)
        at  == ReadAt(Handle(end, metaIndex.offset - end))
    IN  IF end = 0 \/ metaIndex.offset - end \notin 5 .. 100000000 \/ at = 0 THEN NoFilter
        ELSE IF file[at].size - 5 > 12 /\ FilterDecodes(file[at].content, file[at].size - 5)
             THEN file[at].content
        ELSE NoFilter

(* The last 48 bytes are a footer, recognised by its magic number.         *)
HasFooter == FileSize >= 48 /\ file[Len(file)].kind = "footer"

(* open_with_cache                                                         *)
Open ==
    /\ phase = "finished" /\ HasFooter
    /\ LET footer == file[Len(file)].content
           at     == ReadAt(footer.index)
       IN  IF at = 0
           THEN answer' = Failure /\ UNCHANGED <<phase, reader>>
           ELSE /\ answer' = Done /\ phase' = "open"
                /\ reader' = [index  |-> file[at].content,
                              filter |-> IF footer.metaIndex.size > 5
                                         THEN ReadFilter(file[at].content, footer.metaIndex)
                                         ELSE NoFilter]
    /\ UNCHANGED <<builder, file, total, damaged, cursor, added, panicked>>

OpenAbandoned ==
    /\ phase = "abandoned" /\ ~HasFooter
    /\ answer' = Failure
    /\ UNCHANGED <<phase, builder, file, total, damaged, reader, cursor, added, panicked>>

(* The answer of get for a key that is not there, or deleted.              *)
Absent(key) == Result("none", key, <<>>)

(* The loop of get over a block: it ends at the key or beyond it.          *)
Search(es, key) ==
    LET stops == {i \in DOMAIN es : ~KeyLess(es[i].key, key)}
    IN  IF stops = {} \/ es[Min(stops)].key # key \/ es[Min(stops)].value = <<>> THEN Absent(key)
        ELSE Result("entry", key, es[Min(stops)].value)

Get(key) ==
    LET handle == FindBlock(reader.index, key)
        at     == ReadAt(handle)
    IN  /\ phase = "open"
        /\ answer' = IF reader.filter # NoFilter /\ ~MayContain(reader.filter, key) THEN Absent(key)
                     ELSE IF handle = NoHandle THEN Absent(key)
                     ELSE IF at = 0 THEN Failure
                     ELSE Search(BlockEntries(file[at].content), key)
        /\ UNCHANGED <<phase, builder, file, total, damaged, reader, cursor, added, panicked>>

(* smallest_key: the first key of the block of the first index entry.      *)
SmallestKey ==
    LET es == BlockEntries(reader.index)
        at == ReadAt(es[1].value)
    IN  /\ phase = "open"
        /\ answer' = IF es = <<>> THEN Nothing
                     ELSE IF at = 0 THEN Failure
                     ELSE Result("smallest", BlockEntries(file[at].content)[1].key, <<>>)
        /\ UNCHANGED <<phase, builder, file, total, damaged, reader, cursor, added, panicked>>

(* largest_key: the key of the last index entry.                           *)
LargestKey ==
    LET es == BlockEntries(reader.index)
    IN  /\ phase = "open"
        /\ answer' = IF es = <<>> THEN Nothing ELSE Result("largest", es[Len(es)].key, <<>>)
        /\ UNCHANGED <<phase, builder, file, total, damaged, reader, cursor, added, panicked>>
-----------------------------------------------------------------------------
(* load_current_block for block `at`: None past the end, an error leaves   *)
(* the iterator over the block before.                                     *)
LoadedBlock(c, at) ==
    LET es == BlockEntries(reader.index)
        r  == ReadAt(es[at + 1].value)
    IN  IF at >= Len(es) THEN [ok |-> TRUE, c |-> [NoCursor EXCEPT !.at = at]]
        ELSE IF r = 0 THEN [ok |-> FALSE, c |-> [c EXCEPT !.at = at]]
        ELSE [ok |-> TRUE, c |-> [at |-> at, loaded |-> r, it |-> SeekToFirst(file[r].content)]]

CursorStep(c) == [c EXCEPT !.it = Advance(file[c.loaded].content, @)]

(* advance: the next entry of the block, or the first of the next block.   *)
NextEntry(c) ==
    LET d == IF c.loaded = 0 THEN c ELSE CursorStep(c)
        l == LoadedBlock(d, d.at + 1)
    IN  IF d.loaded # 0 /\ d.it.valid THEN [ok |-> TRUE, c |-> d]
        ELSE IF ~l.ok \/ l.c.loaded = 0 THEN l
        ELSE [ok |-> TRUE, c |-> CursorStep(l.c)]

(* iter and seek_to_first, always called together.                         *)
IterFirst ==
    LET l == LoadedBlock(NoCursor, 0)
    IN  /\ phase = "open"
        /\ cursor' = l.c
        /\ answer' = IF l.ok THEN Done ELSE Failure
        /\ UNCHANGED <<phase, builder, file, total, damaged, reader, added, panicked>>

(* A caller reads on until the iterator is past its end.                   *)
IterNext ==
    LET n == NextEntry(cursor)
    IN  /\ phase = "open" /\ cursor.at \in 0 .. Len(reader.index.entries)
        /\ cursor' = n.c
        /\ answer' = IF ~n.ok THEN Failure
                     ELSE IF n.c.loaded # 0 /\ n.c.it.valid THEN Result("entry", n.c.it.key, n.c.it.value)
                     ELSE Nothing
        /\ UNCHANGED <<phase, builder, file, total, damaged, reader, added, panicked>>

(* The loop of keys: while valid, take the key and advance.  It reads      *)
(* every block, so one that is damaged makes it fail.                      *)
RECURSIVE KeysFrom(_)
KeysFrom(c) ==
    IF c.loaded = 0 \/ ~c.it.valid THEN <<>>
    ELSE <<c.it.key>> \o KeysFrom(NextEntry(c).c)

Keys ==
    /\ phase = "open"
    /\ answer' = IF \E i \in damaged : file[i].kind = "data" THEN Failure
                 ELSE Result("keys", <<>>, KeysFrom(LoadedBlock(NoCursor, 0).c))
    /\ UNCHANGED <<phase, builder, file, total, damaged, reader, cursor, added, panicked>>

(* A file that does not open stays as it is.                               *)
TRest == phase \in {"finished", "abandoned"} /\ answer = Failure /\ UNCHANGED tvars

TNext ==
    \/ SetExpectedKeys \/ Finish \/ Abandon \/ Damage \/ Open \/ OpenAbandoned
    \/ SmallestKey \/ LargestKey \/ IterFirst \/ IterNext \/ Keys
    \/ TRest
    \/ \E key \in Key : Get(key) \/ AddRefused(key) \/ \E value \in Value : Add(key, value)

TSpec == TInit /\ [][TNext]_tvars
-----------------------------------------------------------------------------
DataBlocks == {i \in DOMAIN file : file[i].kind = "data"}
BlockKeys(es) == [i \in DOMAIN es |-> es[i].key]

(* Builder, file and reader have their types, and a finished file has no   *)
(* data block that is missing from its index (builder.rs:187).             *)
TTypeOK ==
    /\ phase \in {"building", "finished", "abandoned", "open"}
    /\ builder.last_key \in Key /\ builder.offset \in Nat /\ builder.enabled \in BOOLEAN
    /\ \A i \in DOMAIN file : file[i].kind \in {"data", "meta", "metaindex", "index", "footer"}
    /\ phase \in {"finished", "open"} => builder.pending = NoHandle
    /\ total \in Nat /\ damaged \subseteq DOMAIN file
    /\ cursor.at \in Nat \cup {-1} /\ cursor.loaded \in {0} \cup DataBlocks
    /\ answer.kind \in {"ok", "error", "none", "entry", "smallest", "largest", "keys"}

(* The entries of the data blocks in the file and of the block under       *)
(* construction, decoded.                                                  *)
Decoded ==
    FlattenSeq([i \in 1 .. Cardinality(DataBlocks) |-> BlockEntries(file[i].content)])
    \o BlockEntries(BlockFinish(builder.block))

(* Prefix compression loses nothing, at no block boundary and at no        *)
(* restart point (block.rs:117-123, 249): the blocks decode to what was    *)
(* added.                                                                  *)
DecodesBack == Decoded = added

(* How many entries the iterator is past.                                  *)
Passed ==
    IF cursor.loaded = 0
    THEN IF cursor.at <= 0 THEN 0 ELSE Len(added)
    ELSE FoldLeft(LAMBDA n, r : n + Len(r.content.entries), cursor.it.current,
                  SubSeq(file, 1, cursor.loaded - 1))

Sorted == INSTANCE SortedTable WITH
    KeyBelow <- KeyLess, entries <- added, damaged <- (damaged # {}), passed <- Passed

(* An SSTable implements its abstract specification: prefix compression,   *)
(* block boundaries, the index search (index.rs:57), the Bloom filter      *)
(* (reader.rs:157) and the iterator give back exactly what was added, and  *)
(* a damaged block gives an error (reader.rs:219).                         *)
Implements == Sorted!SSpec

(* The builder knows where in the file it is: every offset it computes     *)
(* (builder.rs:168, 208, 219) and the size finish returns                  *)
(* (builder.rs:236), which the compaction picker adds up, are the file's.  *)
OffsetsExact ==
    /\ builder.offset = Offset(Cardinality(DataBlocks) + 1)
    /\ phase \in {"finished", "open"} => total = FileSize

(* The filter that was built is the one the reader consults: the place the *)
(* reader derives from the index (reader.rs:289-309) is where finish wrote *)
(* it, unless there is no key or the file is damaged.                      *)
FilterUsed ==
    phase = "open" /\ damaged = {} /\ added # <<>> => reader.filter = builder.filter

(* A block can be decoded from each of its restart points (block.rs:208):  *)
(* the key there is stored whole.                                          *)
RestartsWhole ==
    \A i \in DataBlocks :
        LET block == file[i].content
        IN  \A r \in 0 .. Len(block.restarts) - 1 :
               LET it == SeekToRestart(block, r)
               IN  ReadFrom(block, it)
                     = SubSeq(BlockEntries(block), it.current + 1, Len(block.entries))

(* The checks of SSTableBuilder::add (builder.rs:88, 93) keep the          *)
(* assertions of the block builders (block.rs:107, 111) from failing.      *)
NeverPanics == ~panicked

(* "no false negatives" (bloom.rs:190)                                     *)
NoFalseNegatives ==
    builder.filter # NoFilter => \A i \in DOMAIN added : MayContain(builder.filter, added[i].key)

(* "Returns all keys in the SSTable." (reader.rs:428)                      *)
KeysListed == answer.kind = "keys" => answer.value = BlockKeys(added)
=============================================================================
