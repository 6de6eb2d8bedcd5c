------------------------------ MODULE MCAlert ------------------------------
(***************************************************************************)
(* TLC instances of the alert subsystem.  Alert ids are interchangeable:   *)
(* they are drawn at random and only compared with each other.             *)
(***************************************************************************)
EXTENDS AlertProperties, TLC

Symmetry == Permutations(AlertIds)
=============================================================================
