----------------------------- MODULE MCManifest -----------------------------
(* Instances of the manifest for TLC.                                       *)
EXTENDS Manifest

CONSTANTS s1, s2, s3
=============================================================================
