------------------------------ MODULE MCSales ------------------------------
(***************************************************************************)
(* TLC instances of sales and campaigns.                                   *)
(***************************************************************************)
EXTENDS SalesNotification, TLC

MCCallers == Handlers \cup {Web, Boot} \cup Loops
MCHome == [p \in People |-> CHOOSE h \in Handlers : TRUE]

\* Leads beside one request to campaigns, and campaigns beside a lead from before.
MCSalesBudgets == {[requests |-> 3, campaigns |-> 1, forms |-> 1, ticks |-> 0]}
MCBudgets == MCSalesBudgets \cup {[requests |-> 3, campaigns |-> 3, forms |-> 0, ticks |-> 2]}
=============================================================================
