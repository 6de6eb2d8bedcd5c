------------------------------ MODULE Incidents ------------------------------
(***************************************************************************)
(* The one list of incidents (source: admin/admin-error.service.ts): what  *)
(* a transaction of the admin document makes of it.  An incident stands    *)
(* for an episode of a condition: its fingerprint is the key of the        *)
(* condition's watch and the number of the episode.                        *)
(***************************************************************************)
EXTENDS Naturals, Sequences, FiniteSets

CONSTANTS Keys      \* keys of watches: a condition and a reason code

IncidentStatus == {"OPEN", "REVIEWED", "RESOLVED"}

\* The identifier of an incident is its place in the sequence.
Incident == [key : Keys, generation : Nat, status : IncidentStatus, first : Nat]

Found(list, k, g) == {i \in DOMAIN list : list[i].key = k /\ list[i].generation = g}

\* record(): one more occurrence -- which reopens an episode that was resolved --
\* or a new incident.  What is aggregated lies within a day.
Recorded(list, k, g, time) ==
    IF Found(list, k, g) # {}
    THEN [i \in DOMAIN list |->
            IF i \in Found(list, k, g) /\ list[i].status = "RESOLVED"
            THEN [list[i] EXCEPT !.status = "OPEN"] ELSE list[i]]
    ELSE Append(list, [key |-> k, generation |-> g, status |-> "OPEN", first |-> time])

RecordOf(list, k, g) == CHOOSE i \in Found(list, k, g) : TRUE

\* update(): review(), resolve() and reopen() look at nothing.
Updated(list, i, status) ==
    IF i \in DOMAIN list THEN [list EXCEPT ![i].status = status] ELSE list

OpenOf(list, k) == {i \in DOMAIN list : list[i].key = k /\ list[i].status # "RESOLVED"}
=============================================================================
