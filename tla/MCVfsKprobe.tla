---------------------------- MODULE MCVfsKprobe ----------------------------
(* Instances of VfsKprobe for TLC. Their CPUs and messages are alike, but  *)
(* no symmetry is used: both check properties that are not invariants.     *)
EXTENDS VfsKprobe
=============================================================================
