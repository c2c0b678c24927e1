------------------------------ MODULE MCReads -------------------------------
(* Instances of the engine with readers for TLC.                            *)
EXTENDS Reads, TLC

CONSTANTS k1, k2, w1, w2, f1, f2, r1, r2
=============================================================================
