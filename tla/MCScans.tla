------------------------------ MODULE MCScans -------------------------------
(* Instances of the engine with iterators for TLC.                          *)
EXTENDS Scans

CONSTANTS w1, w2, f1, r1, r2

(* Everything.                                                             *)
Whole == {<<0, 3>>}

(* The keys from 1 up to 2, and those from 2 up to 3.                      *)
Halves == {<<1, 2>>, <<2, 3>>}
=============================================================================
