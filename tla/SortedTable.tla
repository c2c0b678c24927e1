---------------------------- MODULE SortedTable -----------------------------
(***************************************************************************)
(* What an SSTable promises: a sequence of entries with increasing keys,   *)
(* written once, then read by key, by its ends and from front to back.  A  *)
(* damaged file may answer with an error and never with a wrong entry.     *)
(***************************************************************************)
EXTENDS Integers, Sequences

CONSTANTS Key, Value, KeyBelow(_, _)

VARIABLES
    phase,      \* "building", "finished", "abandoned" or "open"
    entries,    \* what was added: records of a key and a value
    damaged,    \* whether the file was damaged after it was finished
    passed,     \* how many entries the iterator is past
    answer      \* the result of the last call

svars == <<phase, entries, damaged, passed, answer>>

Result(kind, key, value) == [kind |-> kind, key |-> key, value |-> value]
Done == Result("ok", <<>>, <<>>)
Failure == Result("error", <<>>, <<>>)
Nothing == Result("none", <<>>, <<>>)

SInit == phase = "building" /\ entries = <<>> /\ damaged = FALSE /\ passed = 0 /\ answer = Done

InOrder(k) == k # <<>> /\ (entries # <<>> => KeyBelow(entries[Len(entries)].key, k))

Put(k, v) ==
    /\ phase = "building"
    /\ \/ InOrder(k) /\ entries' = Append(entries, [key |-> k, value |-> v]) /\ answer' = Done
       \/ ~InOrder(k) /\ entries' = entries /\ answer' = Failure
    /\ UNCHANGED <<phase, damaged, passed>>

Seal == phase = "building" /\ phase' \in {"finished", "abandoned"} /\ UNCHANGED <<entries, damaged, passed, answer>>

Damage == phase = "finished" /\ damaged' = TRUE /\ UNCHANGED <<phase, entries, passed, answer>>

(* A whole file opens, an abandoned one never does.                        *)
Load ==
    /\ phase \in {"finished", "abandoned"}
    /\ \/ phase = "finished" /\ phase' = "open" /\ answer' = Done
       \/ (damaged \/ phase = "abandoned") /\ phase' = phase /\ answer' = Failure
    /\ UNCHANGED <<entries, damaged, passed>>

At(i) == Result("entry", entries[i].key, entries[i].value)

(* The answer of a call that should return r.                              *)
Answer(r) == answer' = r \/ (damaged /\ answer' = Failure)

(* An empty value is a tombstone.                                          *)
Lookup(k) ==
    LET hits == {i \in DOMAIN entries : entries[i].key = k /\ entries[i].value # <<>>}
    IN  /\ phase = "open"
        /\ Answer(IF hits = {} THEN Result("none", k, <<>>) ELSE At(CHOOSE i \in hits : TRUE))
        /\ UNCHANGED <<phase, entries, damaged, passed>>

Ends ==
    /\ phase = "open"
    /\ \E end \in {<<"smallest", 1>>, <<"largest", Len(entries)>>} :
          Answer(IF entries = <<>> THEN Nothing ELSE Result(end[1], entries[end[2]].key, <<>>))
    /\ UNCHANGED <<phase, entries, damaged, passed>>

(* All keys in order, with or without an empty one before them.            *)
Listing ==
    /\ phase = "open"
    /\ LET keys == [i \in DOMAIN entries |-> entries[i].key]
       IN  Answer(Result("keys", <<>>, keys)) \/ Answer(Result("keys", <<>>, <<<<>>>> \o keys))
    /\ UNCHANGED <<phase, entries, damaged, passed>>

Rewind ==
    /\ phase = "open"
    /\ passed' = 0 /\ Answer(Done)
    /\ UNCHANGED <<phase, entries, damaged>>

(* The entries come one by one.  After an error some may be left out.      *)
Step ==
    /\ phase = "open"
    /\ \/ passed = Len(entries) /\ passed' = passed /\ answer' = Nothing
       \/ \E n \in 1 .. Len(entries) - passed :
             (n > 1 => damaged) /\ passed' = passed + n /\ answer' = At(passed')
       \/ damaged /\ passed' \in passed .. Len(entries) /\ answer' \in {Failure, Nothing}
    /\ UNCHANGED <<phase, entries, damaged>>

SNext ==
    \/ Seal \/ Damage \/ Load \/ Ends \/ Listing \/ Rewind \/ Step
    \/ \E k \in Key : Lookup(k) \/ \E v \in Value : Put(k, v)

SSpec == SInit /\ [][SNext]_svars
=============================================================================
