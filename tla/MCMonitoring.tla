---------------------------- MODULE MCMonitoring ----------------------------
(***************************************************************************)
(* TLC instances of monitoring.                                            *)
(***************************************************************************)
EXTENDS MonitoringDispatch, TLC

Symmetry == Permutations(Observers)
=============================================================================
