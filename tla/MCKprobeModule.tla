--------------------------- MODULE MCKprobeModule ---------------------------
(* Instances of KprobeModule for TLC. *)
EXTENDS KprobeModule
=============================================================================
