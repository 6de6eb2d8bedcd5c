---------------------------- MODULE MCBroadcast ----------------------------
(***************************************************************************)
(* TLC instances of broadcasts.                                            *)
(***************************************************************************)
EXTENDS Broadcast, TLC

Symmetry == Permutations(Admins)
=============================================================================
