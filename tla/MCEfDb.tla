------------------------------- MODULE MCEfDb -------------------------------
(* Instances of EfDb for TLC: twice is a name that starts with "//" and    *)
(* that add makes n2 of, quoted one with a quotation mark.                 *)
EXTENDS EfDb

CONSTANTS efd, init, n1, n2, twice, quoted

TheAddName == [n \in Names |-> IF n = twice THEN n2 ELSE n]
=============================================================================
