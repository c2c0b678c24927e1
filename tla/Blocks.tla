------------------------------- MODULE Blocks -------------------------------
(***************************************************************************)
(* Blocks of an SSTable (sstable/block.rs) and the search of the index     *)
(* block (sstable/index.rs), as operators on records.  Keys and values are *)
(* sequences of bytes.  An offset into a block counts entries instead of   *)
(* bytes; sizes are in bytes.                                              *)
(***************************************************************************)
EXTENDS Integers, Sequences, SequencesExt, FiniteSetsExt

(* The order of byte slices.                                               *)
KeyLess(a, b) ==
    \/ IsStrictPrefix(a, b)
    \/ \E i \in 1 .. Min({Len(a), Len(b)}) :
          a[i] < b[i] /\ SubSeq(a, 1, i - 1) = SubSeq(b, 1, i - 1)

(* BlockBuilder::new                                                       *)
BlockBuilder(interval) ==
    [entries |-> <<>>, bytes |-> 0, restarts |-> <<0>>, counter |-> 0, last_key |-> <<>>,
     interval |-> interval]

(* Mutant: every byte of the shorter key counts as shared.                 *)
SharedPrefixAll(a, b) == Min({Len(a), Len(b)})

(* The length of the common prefix.                                        *)
SharedPrefixLen(a, b) ==
    Max({n \in 0 .. Min({Len(a), Len(b)}) : SubSeq(a, 1, n) = SubSeq(b, 1, n)})

(* The assertions of BlockBuilder::add.                                    *)
BlockAccepts(b, key) == key # <<>> /\ (b.last_key # <<>> => KeyLess(b.last_key, key))

(* Mutant: an entry at a restart point is compressed as well.              *)
BlockAddShared(b, key, value, len) ==
    LET restart == b.counter >= b.interval
        shared  == SharedPrefixLen(b.last_key, key)
    IN  [b EXCEPT !.entries = Append(@, [shared |-> shared, suffix |-> SubSeq(key, shared + 1, Len(key)),
                                         value |-> value]),
                  !.bytes = @ + 12 + Len(key) - shared + len,
                  !.restarts = IF restart THEN Append(@, Len(b.entries)) ELSE @,
                  !.counter = IF restart THEN 1 ELSE @ + 1,
                  !.last_key = key]

(* BlockBuilder::add: an entry shares the prefix of the key before it,     *)
(* except at a restart point, one every `interval` entries.  An entry is   *)
(* three lengths, the suffix and the `len` bytes of the value.             *)
BlockAdd(b, key, value, len) ==
    LET restart == b.counter >= b.interval
        shared  == IF restart THEN 0 ELSE SharedPrefixLen(b.last_key, key)
    IN  [b EXCEPT !.entries = Append(@, [shared |-> shared, suffix |-> SubSeq(key, shared + 1, Len(key)),
                                         value |-> value]),
                  !.bytes = @ + 12 + Len(key) - shared + len,
                  !.restarts = IF restart THEN Append(@, Len(b.entries)) ELSE @,
                  !.counter = IF restart THEN 1 ELSE @ + 1,
                  !.last_key = key]

BlockIsEmpty(b) == b.entries = <<>>

(* current_size: the entries, the restart points and their number.  finish *)
(* writes just as many bytes.                                              *)
BlockSize(b) == b.bytes + 4 * Len(b.restarts) + 4

(* BlockBuilder::finish, and Block::new of what it wrote.                  *)
BlockFinish(b) == [entries |-> b.entries, restarts |-> b.restarts]
-----------------------------------------------------------------------------
(* seek_to_restart_point: the iterator stands before the entry, is valid   *)
(* when there is one, and has no key yet.                                  *)
SeekToRestart(block, index) ==
    LET current == block.restarts[index + 1]
    IN  [current |-> current, key |-> <<>>, value |-> <<>>, valid |-> current < Len(block.entries)]

SeekToFirst(block) == SeekToRestart(block, 0)

(* advance and parse_next_entry: the key is rebuilt from the one before.   *)
Advance(block, it) ==
    IF ~it.valid \/ it.current >= Len(block.entries)
    THEN [it EXCEPT !.valid = FALSE]
    ELSE LET e == block.entries[it.current + 1]
         IN  [current |-> it.current + 1,
              key     |-> SubSeq(it.key, 1, Min({e.shared, Len(it.key)})) \o e.suffix,
              value   |-> e.value,
              valid   |-> TRUE]

(* n calls of advance after a seek.                                        *)
AdvanceFrom(block, it, n) ==
    LET after[i \in 0 .. n] == IF i = 0 THEN it ELSE Advance(block, after[i - 1])
    IN  after[n]

(* What a loop of advance reads from there.                                *)
ReadFrom(block, it) ==
    [n \in 1 .. Len(block.entries) - it.current |->
        LET i == AdvanceFrom(block, it, n) IN [key |-> i.key, value |-> i.value]]

BlockEntries(block) == ReadFrom(block, SeekToFirst(block))
-----------------------------------------------------------------------------
(* IndexBlockBuilder::new and add_entry: a restart point at every entry,   *)
(* and a value of 16 bytes, the offset and the size of the data block.     *)
IndexBuilder == BlockBuilder(1)
IndexAdd(b, key, handle) == BlockAdd(b, key, handle, 16)

NoHandle == [offset |-> -1, size |-> 0]

(* The binary search of find_block.  Entry `mid` is reached with `mid`     *)
(* calls of advance, so it is the entry before the mid-th restart point    *)
(* that is compared, and at 0 the empty key of a fresh iterator.           *)
RECURSIVE Bisect(_, _, _, _)
Bisect(index, key, left, right) ==
    IF left >= right THEN left
    ELSE LET mid == (left + right) \div 2
             it  == AdvanceFrom(index, SeekToFirst(index), mid)
         IN  IF it.valid /\ KeyLess(it.key, key)
             THEN Bisect(index, key, mid + 1, right)
             ELSE Bisect(index, key, left, mid)

(* Mutant: the linear search starts where the binary search stopped.       *)
FindBlockLate(index, key) ==
    LET left    == Bisect(index, key, 0, Len(index.restarts))
        entries == BlockEntries(index)
        rest    == (left + 1) .. Len(entries)
        hits    == {i \in rest : ~KeyLess(entries[i].key, key)}
    IN  IF hits # {} THEN entries[Min(hits)].value
        ELSE IF rest # {} THEN entries[Len(entries)].value
        ELSE NoHandle

(* find_block: from one entry before the place the binary search found,    *)
(* the first entry whose key is not below, else the last one.              *)
FindBlock(index, key) ==
    LET left    == Max({0, Bisect(index, key, 0, Len(index.restarts)) - 1})
        entries == BlockEntries(index)
        rest    == (left + 1) .. Len(entries)
        hits    == {i \in rest : ~KeyLess(entries[i].key, key)}
    IN  IF hits # {} THEN entries[Min(hits)].value
        ELSE IF rest # {} THEN entries[Len(entries)].value
        ELSE NoHandle
=============================================================================
