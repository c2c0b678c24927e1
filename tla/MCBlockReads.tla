---------------------------- MODULE MCBlockReads ----------------------------
(* Instances of cached block reads for TLC.                                 *)
EXTENDS BlockReads, TLC

CONSTANTS t1, t2, b1, b2, b3

SameSizes == (b1 :> 1) @@ (b2 :> 1) @@ (b3 :> 1)
OwnSizes == (b1 :> 1) @@ (b2 :> 2) @@ (b3 :> 3)
File3 == <<b1, b2, b3>>
=============================================================================
