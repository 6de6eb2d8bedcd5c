-------------------------- MODULE AlertProperties --------------------------
(***************************************************************************)
(* What the alert subsystem must guarantee.                                *)
(***************************************************************************)
EXTENDS AlertEngine

Stored == {Snapshot, disk}

-----------------------------------------------------------------------------
(* The document, in memory and in the file *)

\* The TRIGGERED status and the delivery record are written together: an alert
\* that fired has its record, and only an alert that fired (and was perhaps
\* deleted since) has one (reserveTrigger; AlertDelivery in alert.types.ts).
TriggerHasRecord ==
    \A doc \in Stored, a \in AlertIds :
        /\ doc.alerts[a].status = "TRIGGERED" => doc.deliveries[a] # NoDelivery
        /\ doc.deliveries[a] # NoDelivery => doc.alerts[a].status \in {"TRIGGERED", "DELETED"}

\* No user ever has two ACTIVE or DISABLED alerts with the same condition,
\* whatever creates, edits and re-enables are in flight (create, edit).
NoDuplicateTargets ==
    \A doc \in Stored, a, b \in AlertIds :
        ( /\ a # b
          /\ doc.alerts[a].status \in CapacityStatuses
          /\ doc.alerts[b].status \in CapacityStatuses
          /\ doc.alerts[a].owner = doc.alerts[b].owner )
        => doc.alerts[a].condition # doc.alerts[b].condition

\* A running process never takes a user above the effective capacity: a step
\* that adds a counted alert leaves the count within it, although the limit is
\* read before the critical section (create, effectiveMaxAlerts).
CapacityIsKept ==
    [][\A u \in Users :
        (up /\ Cardinality(Counted(u)') > Cardinality(Counted(u)))
            => Cardinality(Counted(u)') <= EffectiveLimit(u)']_vars

\* What the file says of a fired alert is final: a saved trigger is never forgotten
\* and a saved deletion never undone, through requests that were checked before the
\* alert fired, crashes and swallowed write failures alike (reserveTrigger and the
\* re-checks inside create, edit, enable, disable, remove).
SavedTriggersAreFinal ==
    [][\A a \in AlertIds :
        /\ disk.alerts[a].status = "TRIGGERED"
             => disk'.alerts[a].status \in {"TRIGGERED", "DELETED"}
        /\ disk.alerts[a].status = "DELETED" => disk'.alerts[a].status = "DELETED"]_vars

\* A saved outcome is never replaced by another: one loop or recovery answers for a
\* delivery at a time (markSent and markUndeliverable, which do not look at the
\* status they replace).
SavedOutcomesAreFinal ==
    [][\A a \in AlertIds :
        disk.deliveries[a].status \in {"SENT", "FAILED"}
            => disk'.deliveries[a] = disk.deliveries[a]]_vars

-----------------------------------------------------------------------------
(* The notification *)

\* An owner gets the notification of a trigger a second time only if the process
\* died since the first one, or the platform's answer to it was lost: repeated
\* market cycles, retries and recoveries never duplicate it by themselves.
DuplicatesAreExplained ==
    \A a \in AlertIds : received[a] <= 1 + crashes + lostAnswers

\* As long as writes succeed, an alert that was notified never returns to a state
\* in which it can fire, through crashes at any point (AlertDelivery: the status
\* and the record are in the file before the message leaves).
NotifiedStaysFired ==
    writeFailures = 0 =>
        \A a \in AlertIds : received[a] > 0 => alerts[a].status \in {"TRIGGERED", "DELETED"}

-----------------------------------------------------------------------------
(* Progress *)

\* An alert whose condition is met at evaluation fires, unless its owner
\* disables or deletes it first: no evaluated crossing is dropped while the
\* process runs (evaluateSymbol awaits every reservation).
MetConditionFires ==
    \A a \in AlertIds :
        (a \in engine.todo) ~> (alerts[a].status # "ACTIVE" \/ ~up)

-----------------------------------------------------------------------------
(* The promise *)

\* The owner's view is the file: it is what every restart goes on from.
PhaseOf == [NONE |-> "absent", ACTIVE |-> "armed", DISABLED |-> "paused",
            TRIGGERED |-> "fired", DELETED |-> "gone"]
NoticeOf == [NONE |-> "none", PENDING |-> "owed", SENT |-> "given", FAILED |-> "dropped"]

Promise == INSTANCE AlertPromise WITH
    phase <- [a \in AlertIds |-> PhaseOf[disk.alerts[a].status]],
    notice <- [a \in AlertIds |-> NoticeOf[disk.deliveries[a].status]],
    messages <- received

\* As long as file writes succeed, the subsystem implements the promise, through
\* crashes at any point and lost answers of the platform.
PromiseIsKept == Promise!FairPromise
=============================================================================
