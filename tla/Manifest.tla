------------------------------ MODULE Manifest ------------------------------
(***************************************************************************)
(* VersionSet (compaction/version.rs) as DB::compact and DB::open use it:  *)
(* a compaction logs one AddFile and then a DeleteFile for every input,    *)
(* and log_edit changes the version in memory before it writes the line.   *)
(* writeln! is two writes to the file, the JSON text and the newline, and  *)
(* the process may die, or a write may fail, at any point of it.           *)
(***************************************************************************)
EXTENDS Integers, Sequences, FiniteSets

CONSTANTS
    Slot,           \* the pairs of a level and a file number in use
    MaxInstalls,    \* bound: compactions installed
    MaxInputs,      \* bound: input files of one compaction
    MaxOpens,       \* bound: calls of VersionSet::new
    MaxFaults       \* bound: failed writes

ASSUME ManifestAssumption ==
    {MaxInstalls, MaxInputs, MaxOpens, MaxFaults} \subseteq Nat

Edit == [kind : {"add", "delete"}, slot : Slot]
AddFile(s) == [kind |-> "add", slot |-> s]
DeleteFile(s) == [kind |-> "delete", slot |-> s]

(* The file as the code can tell its parts apart: the text of an edit, a   *)
(* proper prefix of such a text, and the end of a line.                    *)
Torn == [kind |-> "torn", slot |-> "none"]
Newline == [kind |-> "newline", slot |-> "none"]
Token == Edit \cup {Torn, Newline}

VARIABLES
    up,          \* whether the VersionSet exists
    current,     \* the files of the current version
    batch,       \* the edits the compaction under the lock has still to log
    stage,       \* where log_edit is: "idle", "apply", "json", "newline"
    manifest,    \* the MANIFEST file
    failed,      \* whether an edit of this session failed to reach the file
    cut,         \* whether a line was ever left without its end
    installs, opens, faults

mvars == <<up, current, batch, stage, manifest, failed, cut, installs, opens, faults>>

MInit ==
    /\ up = FALSE /\ current = {} /\ batch = <<>> /\ stage = "idle"
    /\ manifest = <<>> /\ failed = FALSE /\ cut = FALSE
    /\ installs = 0 /\ opens = 0 /\ faults = 0

(* recover applies the edits in file order.  A file is in the version when *)
(* no DeleteFile of it comes after its last AddFile.                       *)
Replay(m) ==
    {s \in Slot :
        \E i \in DOMAIN m :
            m[i] = AddFile(s) /\ \A j \in DOMAIN m : j > i => m[j] # DeleteFile(s)}

(* Every line is one edit.  The last one may lack its newline.             *)
Parses(m) ==
    \A i \in DOMAIN m :
        /\ m[i] # Torn
        /\ m[i] # Newline /\ i < Len(m) => m[i + 1] = Newline

(* Mutant: new opens the manifest without recovering from it.              *)
NewEmpty ==
    /\ ~up /\ opens < MaxOpens
    /\ up' = TRUE /\ opens' = opens + 1
    /\ UNCHANGED <<current, batch, stage, manifest, failed, cut, installs, faults>>

(* VersionSet::new creates the manifest or recovers from it, and then      *)
(* appends to whatever is there.                                           *)
New ==
    /\ ~up /\ opens < MaxOpens /\ Parses(manifest)
    /\ up' = TRUE /\ opens' = opens + 1
    /\ current' = Replay(manifest)
    /\ UNCHANGED <<batch, stage, manifest, failed, cut, installs, faults>>

(* A line that does not parse is an error of new, and of DB::open.         *)
NewFails ==
    /\ ~up /\ opens < MaxOpens /\ ~Parses(manifest)
    /\ opens' = opens + 1
    /\ UNCHANGED <<up, current, batch, stage, manifest, failed, cut, installs, faults>>

(* Mutant: the inputs are deleted before the output is added.              *)
InstallDeletesFirst ==
    /\ up /\ stage = "idle" /\ installs < MaxInstalls
    /\ \E out \in Slot, n \in 1 .. MaxInputs : \E ins \in [1 .. n -> Slot \ {out}] :
          /\ \A i, j \in 1 .. n : ins[i] = ins[j] => i = j
          /\ batch' = [i \in 1 .. n |-> DeleteFile(ins[i])] \o <<AddFile(out)>>
    /\ stage' = "apply" /\ installs' = installs + 1
    /\ UNCHANGED <<up, current, manifest, failed, cut, opens, faults>>

(* DB::compact takes the write lock of the version set for all its edits.  *)
Install ==
    /\ up /\ stage = "idle" /\ installs < MaxInstalls
    /\ \E out \in Slot, n \in 1 .. MaxInputs : \E ins \in [1 .. n -> Slot \ {out}] :
          /\ \A i, j \in 1 .. n : ins[i] = ins[j] => i = j
          /\ batch' = <<AddFile(out)>> \o [i \in 1 .. n |-> DeleteFile(ins[i])]
    /\ stage' = "apply" /\ installs' = installs + 1
    /\ UNCHANGED <<up, current, manifest, failed, cut, opens, faults>>

Applied(v, e) == IF e.kind = "add" THEN v \cup {e.slot} ELSE v \ {e.slot}

ApplyEdit ==
    /\ stage = "apply"
    /\ current' = Applied(current, Head(batch))
    /\ stage' = "json"
    /\ UNCHANGED <<up, batch, manifest, failed, cut, installs, opens, faults>>

(* Mutant: the text of the first edit is written for every edit.           *)
WriteJsonAdd ==
    /\ stage = "json"
    /\ manifest' = Append(manifest, AddFile(Head(batch).slot))
    /\ stage' = "newline"
    /\ UNCHANGED <<up, current, batch, failed, cut, installs, opens, faults>>

WriteJson ==
    /\ stage = "json"
    /\ manifest' = Append(manifest, Head(batch))
    /\ stage' = "newline"
    /\ UNCHANGED <<up, current, batch, failed, cut, installs, opens, faults>>

(* Mutant: the newline is left out.                                        *)
NoNewline ==
    /\ stage = "newline"
    /\ batch' = Tail(batch)
    /\ stage' = IF Len(batch) = 1 THEN "idle" ELSE "apply"
    /\ UNCHANGED <<up, current, manifest, failed, cut, installs, opens, faults>>

(* Mutant: compact asks for one edit more than there are.                  *)
WriteNewlineOn ==
    /\ stage = "newline"
    /\ manifest' = Append(manifest, Newline)
    /\ batch' = Tail(batch)
    /\ stage' = IF Len(batch) = 0 THEN "idle" ELSE "apply"
    /\ UNCHANGED <<up, current, failed, cut, installs, opens, faults>>

WriteNewline ==
    /\ stage = "newline"
    /\ manifest' = Append(manifest, Newline)
    /\ batch' = Tail(batch)
    /\ stage' = IF Len(batch) = 1 THEN "idle" ELSE "apply"
    /\ UNCHANGED <<up, current, failed, cut, installs, opens, faults>>

(* A write fails: nothing, or a part of the text, is in the file.  The     *)
(* error leaves compact with the edits before it in place.                 *)
WriteFails ==
    /\ stage \in {"json", "newline"} /\ faults < MaxFaults
    /\ faults' = faults + 1
    /\ manifest' \in {manifest} \cup (IF stage = "json" THEN {Append(manifest, Torn)} ELSE {})
    /\ cut' = (cut \/ stage = "newline" \/ manifest' # manifest)
    /\ failed' = TRUE
    /\ batch' = <<>> /\ stage' = "idle"
    /\ UNCHANGED <<up, current, installs, opens>>

(* The process dies, or the database is dropped.                           *)
Halt ==
    /\ up /\ up' = FALSE
    /\ current' = {} /\ batch' = <<>> /\ stage' = "idle" /\ failed' = FALSE
    /\ cut' = (cut \/ stage = "newline")
    /\ UNCHANGED <<manifest, installs, opens, faults>>

(* The clients are done with the database.                                 *)
MRest == (opens = MaxOpens \/ (up /\ stage = "idle")) /\ UNCHANGED mvars

MNext ==
    \/ New \/ NewFails \/ Install \/ ApplyEdit \/ WriteJson \/ WriteNewline
    \/ WriteFails \/ Halt \/ MRest

MSpec == MInit /\ [][MNext]_mvars
-----------------------------------------------------------------------------
(* The version set and its file have their types, and edits are pending    *)
(* only in the middle of log_edit (version.rs:210).                        *)
MTypeOK ==
    /\ up \in BOOLEAN /\ current \subseteq Slot
    /\ batch \in Seq(Edit) /\ manifest \in Seq(Token)
    /\ stage \in {"idle", "apply", "json", "newline"}
    /\ failed \in BOOLEAN /\ cut \in BOOLEAN
    /\ {installs, opens, faults} \subseteq Nat
    /\ stage # "idle" => up /\ batch # <<>>

(* What a restart finds: the version it recovers, or nothing but an error. *)
Recovered(m) == IF Parses(m) THEN {Replay(m)} ELSE {}

(* Between two edits a restart would recover the version in memory, unless *)
(* a write of this session failed: log_edit changes both (version.rs:212,  *)
(* 218), one after the other.  Behind a line that an earlier session cut   *)
(* short a restart may fail, but it never recovers another version.        *)
MemoryMatchesFile ==
    up /\ ~failed /\ stage \in {"idle", "apply"} =>
        IF cut THEN Recovered(manifest) \subseteq {current} ELSE Recovered(manifest) = {current}

(* The manifest can be read back (version.rs:160) as long as no line was   *)
(* left without its end, wherever else the process died.                   *)
UncutReopens == ~cut => Parses(manifest)

(* The slot of the last AddFile in the file.                               *)
LastAdded(m) ==
    {s \in Slot :
        \E i \in DOMAIN m :
            m[i] = AddFile(s) /\ \A j \in DOMAIN m : j > i => m[j].kind # "add"}

(* A compaction logs its output before it deletes its inputs (lib.rs:1033, *)
(* 1039) and stops at the first write that fails: wherever the process     *)
(* dies, the manifest lists the file added last, so it has never lost both *)
(* the inputs of a compaction and its output.                              *)
OutputListed == LastAdded(manifest) \subseteq Replay(manifest)

(* The edit between its two steps.                                         *)
Unlogged == IF stage = "json" THEN {Head(batch)} ELSE {}

History == INSTANCE VersionHistory WITH
    running <- up, memory <- current, durable <- Replay(manifest), pending <- Unlogged

(* The version set implements its abstract specification: recovery returns *)
(* exactly the edits whose text reached the file, in order, whatever was   *)
(* cut short before (version.rs:154, 218).                                 *)
Recovers == History!HSpec

(* "Recover from an existing manifest file" (version.rs:147): a restart    *)
(* succeeds.                                                               *)
Reopens == Parses(manifest)
=============================================================================
