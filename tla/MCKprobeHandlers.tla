-------------------------- MODULE MCKprobeHandlers --------------------------
(* A mount table for TLC: the root, a tmpfs below /dev, and two file       *)
(* systems of which one has the root's low minor byte; and three hits, on  *)
(* the root, on that file system and on the other.                         *)
EXTENDS KprobeHandlers, TLC

CONSTANTS h1, h2, h3

Line(major, minor, mp) == [dev |-> <<major, minor>>, mp |-> mp]

TheLines ==
  <<Line(8, 1, <<>>), Line(0, 3, <<"dev", "shm">>),
    Line(8, 257, <<"home">>), Line(8, 3, <<"data">>)>>

TheDevOf == (h1 :> <<8, 1>>) @@ (h2 :> <<0, 3>>) @@ (h3 :> <<8, 3>>)

Symmetry == Permutations(Cpus) \cup Permutations(Probes)
=============================================================================
