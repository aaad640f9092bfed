---------------------------- MODULE MCInitIndex ----------------------------
(* A tree for TLC: / holds f1, the directory d, the socket s and f3; d     *)
(* holds f2, the directory e and the link l; e holds f4.                   *)
EXTENDS InitIndex, TLC

CONSTANTS root, f1, f2, f3, f4, d, e, l, s

TheMode ==
  [x \in {root, d, e} |-> "S_IFDIR"] @@ (l :> "S_IFLNK") @@ (s :> "S_IFSOCK")
  @@ [x \in {f1, f2, f3, f4} |-> "S_IFREG"]

TheChildren ==
  (root :> <<f1, d, s, f3>>) @@ (d :> <<f2, e, l>>) @@ (e :> <<f4>>)
=============================================================================
