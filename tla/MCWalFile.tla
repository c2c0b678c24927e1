------------------------------ MODULE MCWalFile ------------------------------
(* Instances of the write-ahead log file for TLC.                           *)
EXTENDS WalFile, TLC
==============================================================================
