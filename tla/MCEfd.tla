------------------------------- MODULE MCEfd -------------------------------
(* Instances of Efd for TLC. *)
EXTENDS Efd

CONSTANTS p1, p2, p3
=============================================================================
