---------------------------- MODULE MCBlockCache ----------------------------
(* Instances of the block cache for TLC.                                    *)
EXTENDS BlockCache, TLC

CONSTANTS t1, t2, c1, c2, c3, small, large

Sizes == (small :> 1) @@ (large :> 2)
Symmetry == Permutations({t1, t2}) \cup Permutations({c1, c2, c3})
=============================================================================
