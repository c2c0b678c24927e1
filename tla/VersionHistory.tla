--------------------------- MODULE VersionHistory ---------------------------
(***************************************************************************)
(* What a version set with a manifest promises: edits reach the version in *)
(* memory one at a time, each is made durable at most once and before the  *)
(* next one is applied, and a start brings back exactly what was durable.  *)
(***************************************************************************)
CONSTANT Slot       \* a file at a level

Edit == [kind : {"add", "delete"}, slot : Slot]

VARIABLES
    running,    \* whether the version set is in memory
    memory,     \* the version in memory
    durable,    \* the version a start would bring back
    pending     \* the edit applied and not yet durable: {} or {edit}

hvars == <<running, memory, durable, pending>>

Edited(v, e) == IF e.kind = "add" THEN v \cup {e.slot} ELSE v \ {e.slot}

HInit == running = FALSE /\ memory = {} /\ durable = {} /\ pending = {}

Start ==
    /\ ~running /\ running' = TRUE
    /\ memory' = durable
    /\ UNCHANGED <<durable, pending>>

Accept(e) ==
    /\ running /\ pending = {}
    /\ memory' = Edited(memory, e)
    /\ pending' = {e}
    /\ UNCHANGED <<running, durable>>

Persist(e) ==
    /\ e \in pending
    /\ durable' = Edited(durable, e)
    /\ pending' = {}
    /\ UNCHANGED <<running, memory>>

(* The edit stays in memory and never becomes durable.                     *)
GiveUp ==
    /\ pending' = {}
    /\ UNCHANGED <<running, memory, durable>>

Stop ==
    /\ running' = FALSE /\ memory' = {} /\ pending' = {}
    /\ UNCHANGED durable

HNext == Start \/ GiveUp \/ Stop \/ \E e \in Edit : Accept(e) \/ Persist(e)

HSpec == HInit /\ [][HNext]_hvars
=============================================================================
