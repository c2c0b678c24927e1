---------------------------- MODULE MCTableFile -----------------------------
(* Instances of the SSTable file for TLC.                                   *)
EXTENDS TableFile

(* Keys that share prefixes and differ at every position.                  *)
Keys4 == {<<>>, <<1>>, <<1, 1>>, <<1, 1, 2>>, <<1, 2>>}
Values2 == {<<>>, <<7, 7>>}
=============================================================================
