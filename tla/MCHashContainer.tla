-------------------------- MODULE MCHashContainer --------------------------
(***************************************************************************)
(* TLC instance of HashContainer: of four keys, three share a bucket of    *)
(* four and two of them also one of eight; the fourth one makes the table  *)
(* grow.                                                                   *)
(***************************************************************************)
EXTENDS HashContainer, TLC

CONSTANTS k1, k2, k3, k4

MCKey == {k1, k2, k3, k4}

MCHash == k1 :> 0 @@ k2 :> 8 @@ k3 :> 4 @@ k4 :> 1

=============================================================================
