---------------------------- MODULE MCEveryFile ----------------------------
(* The paths of an instance of EveryFile for TLC; n2 is n1 with its last  *)
(* letter twice.                                                           *)
EXTENDS EveryFile, TLC

CONSTANTS n1, n2, journal

TheDoubled ==
  (n1 :> n2) @@ (n2 :> "outside") @@ (journal :> "outside")
=============================================================================
