------------------------------- MODULE WalFile -------------------------------
(***************************************************************************)
(* One write-ahead log file: WALWriter (wal/writer.rs) cuts entries into   *)
(* records and appends them through a BufWriter, WALReader (wal/reader.rs) *)
(* puts them together again after a restart, and the next session appends  *)
(* to the same file.  The process may crash, an append may fail half way,  *)
(* and a power loss may cut the file anywhere after the last sync.         *)
(***************************************************************************)
EXTENDS Integers, Sequences, FiniteSets

CONSTANTS
    MaxRecord,        \* MAX_RECORD_SIZE
    HeaderSize,       \* HEADER_SIZE
    Lens,             \* the lengths of the entries the database appends
    MaxEntries,       \* bound: entries appended
    MaxStops,         \* bound: crashes, power losses and clean stops
    MaxErrors,        \* bound: appends that fail half way
    PowerLosses       \* whether the power may fail

ASSUME WalAssumption ==
    /\ MaxRecord \in Nat \ {0} /\ HeaderSize \in Nat \ {0}
    /\ Lens \subseteq Nat \ {0}
    /\ {MaxEntries, MaxStops, MaxErrors} \subseteq Nat
    /\ PowerLosses \in BOOLEAN

VARIABLES
    state,            \* "up", "down", "recovering", "recovered" or "failed"
    buffer, file,     \* records in the BufWriter, and in the file
    durable,          \* how many of them fsync has made durable
    lens,             \* the lengths of the entries given to append so far
    added,            \* those for which append returned Ok in this session
    synced,           \* those a later sync covers
    position, assembled, expecting, entries,    \* the reader
    stops, errors     \* bounds

writer == <<buffer, file, durable, lens, added, synced, errors>>
reader == <<position, assembled, expecting, entries>>
wvars == <<state, writer, reader, stops>>

(* The bytes of entry i are distinct, so that a mix-up would show.         *)
Data(i) == [b \in 1 .. lens'[i] |-> <<i, b>>]
Entry(i) == [b \in 1 .. lens[i] |-> <<i, b>>]

RecordType == {"Full", "First", "Middle", "Last"}
Chunk(len, off) == IF len - off < MaxRecord THEN len - off ELSE MaxRecord
TypeAt(len, off) ==
    IF len <= MaxRecord THEN "Full"
    ELSE IF off = 0 THEN "First"
    ELSE IF off + Chunk(len, off) >= len THEN "Last" ELSE "Middle"

(* Mutant: the header announces a byte too few.                            *)
RecordShort(i, data, off) ==
    LET bytes == SubSeq(data, off + 1, off + Chunk(Len(data), off))
    IN  [entry |-> i, type |-> TypeAt(Len(data), off), head |-> TRUE,
         want |-> Len(bytes) - 1, data |-> bytes]

(* A record: its header says want bytes follow; data are those present.    *)
Record(i, data, off) ==
    LET bytes == SubSeq(data, off + 1, off + Chunk(Len(data), off))
    IN  [entry |-> i, type |-> TypeAt(Len(data), off), head |-> TRUE,
         want |-> Len(bytes), data |-> bytes]
Fragments(i, data) ==
    [k \in 1 .. (Len(data) + MaxRecord - 1) \div MaxRecord |-> Record(i, data, (k - 1) * MaxRecord)]

(* Mutant: the checksum is not looked at.                                  *)
Headed(r) == r.head

Whole(r) == r.head /\ Len(r.data) = r.want
SizeOf(r) == (IF r.head THEN HeaderSize ELSE 0) + Len(r.data)

(* What may be left of a record: a part of its header, or the header and   *)
(* a part of its data.                                                     *)
Torn(r) ==
    {[r EXCEPT !.head = FALSE, !.data = <<>>]}
        \cup {[r EXCEPT !.data = SubSeq(r.data, 1, b)] : b \in 0 .. Len(r.data) - 1}

WInit ==
    /\ state = "up" /\ buffer = <<>> /\ file = <<>> /\ durable = 0
    /\ lens = <<>> /\ added = {} /\ synced = {}
    /\ position = 1 /\ assembled = <<>> /\ expecting = FALSE /\ entries = <<>>
    /\ stops = 0 /\ errors = 0
-----------------------------------------------------------------------------
(***************************************************************************)
(* The writer.                                                             *)
(***************************************************************************)
Give(len) ==
    /\ state = "up" /\ Len(lens) < MaxEntries
    /\ lens' = Append(lens, len)

AppendEntry ==
    \E len \in Lens :
        /\ Give(len)
        /\ buffer' = buffer \o Fragments(Len(lens'), Data(Len(lens')))
        /\ added' = added \cup {Len(lens')}
        /\ UNCHANGED <<state, file, durable, synced, errors, reader, stops>>

(* write_all fails as the BufWriter makes room for a record: the fragments *)
(* before it stay, nothing of it does, and the caller gets the error.      *)
AppendFails ==
    \E len \in Lens :
        /\ Give(len)
        /\ errors < MaxErrors /\ errors' = errors + 1
        /\ LET frags == Fragments(Len(lens'), Data(Len(lens')))
           IN  \E n \in 0 .. Len(frags) - 1 : buffer' = buffer \o SubSeq(frags, 1, n)
        /\ UNCHANGED <<state, file, durable, added, synced, reader, stops>>

(* A record that exceeds the BufWriter's capacity goes to the file behind  *)
(* all that was buffered, without a copy in the buffer: when that write    *)
(* fails, a torn record stays, and the session goes on behind it.          *)
AppendTears ==
    \E len \in Lens :
        /\ Give(len)
        /\ errors < MaxErrors /\ errors' = errors + 1
        /\ LET all == (file \o buffer) \o Fragments(Len(lens'), Data(Len(lens')))
           IN  \E n \in Len(file \o buffer) .. Len(all) - 1 : \E r \in Torn(all[n + 1]) :
                  file' = Append(SubSeq(all, 1, n), r)
        /\ buffer' = <<>>
        /\ UNCHANGED <<state, durable, added, synced, reader, stops>>

(* A full BufWriter hands whole records over.                              *)
SpillRecord ==
    /\ state = "up" /\ buffer # <<>>
    /\ file' = Append(file, Head(buffer)) /\ buffer' = Tail(buffer)
    /\ UNCHANGED <<state, durable, lens, added, synced, errors, reader, stops>>

(* Mutant: the buffer is flushed but the file not synced.                  *)
SyncFlushOnly ==
    /\ state = "up" /\ durable < Len(file \o buffer)
    /\ file' = file \o buffer /\ buffer' = <<>>
    /\ synced' = synced \cup added
    /\ UNCHANGED <<state, durable, lens, added, errors, reader, stops>>

Sync ==
    /\ state = "up" /\ durable < Len(file \o buffer)
    /\ file' = file \o buffer /\ buffer' = <<>>
    /\ durable' = Len(file')
    /\ synced' = synced \cup added
    /\ UNCHANGED <<state, lens, added, errors, reader, stops>>

Stop ==
    /\ stops < MaxStops /\ stops' = stops + 1
    /\ state' = "down"
    /\ buffer' = <<>> /\ added' = {}

(* Drop for WALWriter flushes; a crash does not.                           *)
DropWriter ==
    /\ state = "up" /\ Stop
    /\ file' = file \o buffer
    /\ UNCHANGED <<durable, lens, synced, errors, reader>>

Crash ==
    /\ state \in {"up", "recovering", "recovered"} /\ Stop
    /\ UNCHANGED <<file, durable, lens, synced, errors, reader>>

(* The file keeps what was synced, and any part of what was not.           *)
PowerLoss ==
    /\ PowerLosses /\ state # "failed" /\ durable < Len(file) /\ Stop
    /\ \E n \in durable .. Len(file) - 1 :
          \/ file' = SubSeq(file, 1, n)
          \/ \E r \in Torn(file[n + 1]) : file' = Append(SubSeq(file, 1, n), r)
    /\ UNCHANGED <<durable, lens, synced, errors, reader>>
-----------------------------------------------------------------------------
(***************************************************************************)
(* The reader: recover_all.                                                *)
(***************************************************************************)
Recover ==
    /\ state = "down"
    /\ state' = "recovering"
    /\ position' = 1 /\ assembled' = <<>> /\ expecting' = FALSE /\ entries' = <<>>
    /\ UNCHANGED <<writer, stops>>

(* The end of the file and Error::Corruption end recovery with what was    *)
(* read; any other error is returned.                                      *)
Finish(outcome) == state' = outcome /\ UNCHANGED reader
Accept(data) ==
    /\ entries' = Append(entries, data)
    /\ assembled' = <<>> /\ expecting' = FALSE
    /\ position' = position + 1 /\ UNCHANGED state
Collect(data) ==
    /\ assembled' = data /\ expecting' = TRUE
    /\ position' = position + 1 /\ UNCHANGED <<state, entries>>

(* read_next: what a record of each type does to the entry in progress.    *)
Assemble(r) ==
    CASE (r.type \in {"Full", "First"}) = expecting -> Finish("recovered")
      [] r.type = "Full" /\ ~expecting -> Accept(r.data)
      [] r.type = "First" /\ ~expecting -> Collect(r.data)
      [] r.type = "Middle" /\ expecting -> Collect(assembled \o r.data)
      [] r.type = "Last" /\ expecting -> Accept(assembled \o r.data)

(* read_record takes the missing bytes of a torn record from the records   *)
(* behind it: the checksum rejects them, or the file ends too early and    *)
(* read_exact reports that as an I/O error.  A torn header at the end of   *)
(* the file is an end of file; elsewhere its length field is arbitrary.    *)
Behind == Cardinality(UNION {{k} \X (1 .. SizeOf(file[k])) : k \in position + 1 .. Len(file)})
Misread(r) ==
    CASE ~r.head /\ Behind = 0 -> {"recovered"}
      [] ~r.head /\ Behind # 0 -> {"recovered", "failed"}
      [] r.head -> {IF Behind >= r.want - Len(r.data) THEN "recovered" ELSE "failed"}

ReadRecord ==
    /\ state = "recovering"
    /\ IF position > Len(file) THEN Finish("recovered")
       ELSE IF Whole(file[position]) THEN Assemble(file[position])
       ELSE \E outcome \in Misread(file[position]) : Finish(outcome)
    /\ UNCHANGED <<writer, stops>>

(* DB::open goes on with WALWriter::new: append mode, nothing is truncated.*)
Reopen ==
    /\ state = "recovered"
    /\ state' = "up"
    /\ UNCHANGED <<writer, reader, stops>>

WRest == state \in {"up", "failed"} /\ UNCHANGED wvars

WNext ==
    \/ AppendEntry \/ AppendFails \/ AppendTears \/ SpillRecord \/ Sync
    \/ DropWriter \/ Crash \/ PowerLoss
    \/ Recover \/ ReadRecord \/ Reopen \/ WRest

WSpec == WInit /\ [][WNext]_wvars
-----------------------------------------------------------------------------
(* Buffer and file hold records of the entries appended (writer.rs:37),    *)
(* none longer than its header says.                                       *)
WTypeOK ==
    /\ state \in {"up", "down", "recovering", "recovered", "failed"}
    /\ \A s \in {buffer, file} : \A k \in DOMAIN s :
          /\ s[k].type \in RecordType /\ s[k].head \in BOOLEAN
          /\ s[k].entry \in DOMAIN lens /\ Len(s[k].data) <= s[k].want
    /\ durable \in 0 .. Len(file)
    /\ lens \in Seq(Lens) /\ synced \cup added \subseteq DOMAIN lens
    /\ position \in Nat \ {0} /\ expecting \in BOOLEAN
    /\ stops \in Nat /\ errors \in Nat

(* Whatever crashes, errors and power losses cut short, recovery returns   *)
(* only entries that were given to append, byte for byte, each once and in *)
(* the order of the appends: fragments of two entries are never joined     *)
(* (wal/reader.rs:30).                                                     *)
RecoveredWhole ==
    state \in {"recovering", "recovered"} =>
        \E ids \in [DOMAIN entries -> DOMAIN lens] :
            /\ \A k \in DOMAIN entries : entries[k] = Entry(ids[k])
            /\ \A j, k \in DOMAIN entries : j < k => ids[j] < ids[k]

(* Entries of which only a part is in the file.                            *)
Present(i) ==
    Cardinality(UNION {{k} \X (1 .. Len(file[k].data)) : k \in {j \in DOMAIN file : file[j].entry = i}})
CutShort == {i \in DOMAIN lens : /\ \E k \in DOMAIN file : file[k].entry = i
                                 /\ Present(i) < lens[i]}
Recovered == {i \in DOMAIN lens : \E k \in DOMAIN entries : entries[k] = Entry(i)}

(* A recovery that ends without an error returns every synced entry that   *)
(* stands before the first one cut short.                                  *)
SyncedUntilCut ==
    state = "recovered" =>
        \A i \in synced : (\A j \in CutShort : i < j) => i \in Recovered

(* "All WAL-persisted data should be recovered"                            *)
(* (tests/crash_recovery_tests.rs:39).                                     *)
AllSynced == state = "recovered" => synced \subseteq Recovered

(* "Returns a vector of all valid entries. Stops on first corruption."     *)
(* (wal/reader.rs:133): recovery never fails.                              *)
RecoverySucceeds == state # "failed"
=============================================================================
