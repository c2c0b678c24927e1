------------------------------ MODULE MCEngine ------------------------------
(* Instances of the engine for TLC.                                         *)
EXTENDS EngineProps, TLC

CONSTANTS k1, k2, w1, w2, f1, f2

Symmetry == Permutations(Key) \cup Permutations(Writers) \cup Permutations(Flushers)
=============================================================================
