-------------------------- MODULE MonitoringDispatch --------------------------
(***************************************************************************)
(* The dispatcher (source: monitoring/monitoring-dispatch.service.ts and   *)
(* monitoring.scheduler.ts) and the whole of monitoring: a tick prunes the *)
(* outbox and sends what is due; the process may die at any moment.        *)
(***************************************************************************)
EXTENDS Monitoring

CONSTANTS
    BatchSize,      \* MONITORING_NOTIFICATION_BATCH_SIZE
    MaxAttempts,    \* MONITORING_NOTIFICATION_MAX_ATTEMPTS
    HistoryLimit    \* MONITORING_NOTIFICATION_HISTORY_LIMIT

ASSUME DispatchAssumption ==
    /\ {BatchSize, MaxAttempts} \subseteq Nat \ {0}
    /\ HistoryLimit \in Nat

vars == engineVars

Final == {"SENT", "FAILED", "UNKNOWN"}
NotificationStatus == {"PENDING", "RETRY_PENDING", "GONE"} \cup Final

With(status) == {n \in DOMAIN outbox : outbox[n].status \in status}

\* listNotifications() sorts by the time of creation.
Before(l, n) ==
    \/ outbox[l].created < outbox[n].created
    \/ outbox[l].created = outbox[n].created /\ l < n
Oldest(S, m) == {n \in S : Cardinality({l \in S : Before(l, n)}) < m}

\* pruneNotifications(): finished rows beyond the limit leave, the oldest first.
Doomed ==
    IF HistoryLimit = 0 \/ Cardinality(With(Final)) <= HistoryLimit THEN {}
    ELSE Oldest(With(Final), Cardinality(With(Final)) - HistoryLimit)

Pruned == [n \in DOMAIN outbox |->
             IF n \in Doomed THEN [outbox[n] EXCEPT !.status = "GONE"] ELSE outbox[n]]

\* Mutant: due is whatever was not given up.
DueUnlessFailed == With({"PENDING", "RETRY_PENDING", "SENT"})

Due == With({"PENDING"}) \cup {n \in With({"RETRY_PENDING"}) : ~ outbox[n].later}

Others == UNCHANGED <<watch, incidents, failing, events, now, observations>>

-----------------------------------------------------------------------------
Tick ==
    /\ at[Dispatcher] = Idle
    /\ Becomes(Dispatcher, [op |-> "prune"])
    /\ Ask(Dispatcher, "monitoring")
    /\ UNCHANGED <<outbox, faults>> /\ Others

\* The batch is what is due when the sweep is over.  A sweep that fails sends nothing.
Prune ==
    /\ Turn(Dispatcher, "monitoring") /\ at[Dispatcher].op = "prune"
    /\ LET batch == Oldest(Due, BatchSize) IN
        \/ /\ outbox' = Pruned /\ UNCHANGED faults
           /\ Becomes(Dispatcher, IF batch = {} THEN Idle
                                  ELSE [op |-> "send", left |-> [n \in batch |-> outbox[n].attempts]])
        \/ Doomed # {} /\ Faulty("write") /\ Becomes(Dispatcher, Idle) /\ UNCHANGED outbox
    /\ Done("monitoring")
    /\ Others

\* send(): a call that is not answered looks like a refusal.
Outcome(n, tried, answer) ==
    CASE answer = "taken" -> [status |-> "SENT", attempts |-> tried + 1]
      [] answer = "limited" -> [status |-> "RETRY_PENDING", attempts |-> tried]
      [] OTHER -> [status |-> IF tried + 1 >= MaxAttempts THEN "FAILED" ELSE "RETRY_PENDING",
                   attempts |-> tried + 1]

Send(n) ==
    /\ at[Dispatcher].op = "send" /\ n \in Oldest(DOMAIN at[Dispatcher].left, 1)
    /\ \E answer \in {"taken", "refused", "limited", "lost"}, arrives \in BOOLEAN :
        LET left == at[Dispatcher].left IN
        /\ answer = "taken" => arrives
        /\ arrives => answer \in {"taken", "lost"}
        /\ IF answer = "taken" THEN UNCHANGED faults ELSE Faulty(answer)
        /\ outbox' = [outbox EXCEPT ![n].arrived = IF arrives THEN @ + 1 ELSE @]
        /\ Becomes(Dispatcher,
             [op |-> "result", n |-> n, tried |-> left[n], limited |-> answer = "limited",
              again |-> FALSE, outcome |-> Outcome(n, left[n], answer),
              left |-> [m \in DOMAIN left \ {n} |-> left[m]]])
    /\ Ask(Dispatcher, "monitoring")
    /\ Others

\* recordNotificationResult(): a pause ends the batch.
Store ==
    LET s == at[Dispatcher] IN
    /\ Turn(Dispatcher, "monitoring") /\ s.op = "result"
    /\ outbox' = [outbox EXCEPT ![s.n].status = s.outcome.status,
                                ![s.n].attempts = s.outcome.attempts,
                                ![s.n].later = s.outcome.status = "RETRY_PENDING"]
    /\ Becomes(Dispatcher, IF s.limited \/ DOMAIN s.left = {} THEN Idle
                           ELSE [op |-> "send", left |-> s.left])
    /\ Done("monitoring")
    /\ UNCHANGED faults /\ Others

\* The write of an outcome that fails is caught as a call without answer; a
\* second one ends the tick.
StoreFails ==
    LET s == at[Dispatcher] IN
    /\ Turn(Dispatcher, "monitoring") /\ s.op = "result"
    /\ Faulty("write")
    /\ IF s.again
       THEN Becomes(Dispatcher, Idle) /\ Done("monitoring")
       ELSE /\ Becomes(Dispatcher,
                 [s EXCEPT !.again = TRUE, !.limited = FALSE, !.outcome =
                    [status |-> IF s.tried + 1 >= MaxAttempts THEN "UNKNOWN" ELSE "RETRY_PENDING",
                     attempts |-> s.tried + 1]])
            /\ Then(Dispatcher, "monitoring", "monitoring")
    /\ UNCHANGED outbox /\ Others

BackoffPasses(n) ==
    /\ n \in DOMAIN outbox /\ outbox[n].later
    /\ outbox' = [outbox EXCEPT ![n].later = FALSE]
    /\ UNCHANGED <<chain, at, faults>> /\ Others

Dispatch == Tick \/ Prune \/ Store \/ StoreFails \/ \E n \in DOMAIN outbox : Send(n)

\* The process dies.  What was written has been written.
Crash ==
    /\ Faulty("crash")
    /\ chain' = [d \in Documents |-> <<>>]
    /\ at' = [c \in DOMAIN at |-> Idle]
    /\ failing' = FALSE /\ events' = <<>>
    /\ UNCHANGED <<durable, now, observations>>

-----------------------------------------------------------------------------
Init == EngineInit

Next ==
    \/ EngineNext
    \/ Dispatch
    \/ \E n \in DOMAIN outbox : BackoffPasses(n)
    \/ Crash

Spec == Init /\ [][Next]_vars

-----------------------------------------------------------------------------
TypeOK ==
    /\ \A k \in Keys : Tracked(k) => watch[k] \in Watch
    /\ \A i \in DOMAIN incidents : incidents[i] \in Incident
    /\ \A k \in Keys : watch[k].incident # 0 => incidents[watch[k].incident].key = k
    /\ \A n \in DOMAIN outbox : /\ outbox[n].status \in NotificationStatus
                                /\ outbox[n].attempts \in 0 .. MaxAttempts
                                /\ outbox[n].incident \in DOMAIN incidents

\* No report is between two transactions about an incident of the condition.
Quiet(k) == \A c \in DOMAIN at : at[c].op \in {"record", "link", "resolve"} => at[c].key # k

(* A condition that is well has no open incident, but one left by a failed   *)
(* write or a crash between two of its transactions, or one that was         *)
(* resolved and then reopened, by hand or by a report that began before:     *)
(* reports that overlap lose none in any other way (recordFailure,           *)
(* recordSuccess, openIncident, closeIncident).                              *)
WellMeansClosed ==
    \A k \in Keys : Quiet(k) /\ watch[k].phase \in {"HEALTHY", "RECOVERED"} =>
        Cardinality(OpenOf(incidents, k)) <= faults["write"] + faults["crash"] + faults["reopen"]

Again == {n \in DOMAIN outbox :
            /\ outbox[n].kind = "INCIDENT"
            /\ \E m \in DOMAIN outbox : m < n /\ SameKey(outbox[m], outbox[n])}

(* The outbox has no two rows of a key, and an episode is told again in a    *)
(* period only when the row that told it was pruned, and no more often than  *)
(* reports overlapped with another that told of the condition, whatever is   *)
(* repeated after a restart (requestNotification, pruneNotifications).       *)
ToldOnce ==
    /\ \A m, n \in DOMAIN outbox :
        m # n /\ SameKey(outbox[m], outbox[n]) => "GONE" \in {outbox[m].status, outbox[n].status}
    /\ Cardinality(Again) <= faults["overlap"]

(* SENT means that the message arrived, and it arrives again only through a  *)
(* crash, a failed write or a lost answer (send, finish).                    *)
RepeatsAreExplained ==
    \A n \in DOMAIN outbox :
        /\ outbox[n].status = "SENT" => outbox[n].arrived > 0
        /\ outbox[n].arrived <= 1 + faults["crash"] + faults["write"] + faults["lost"]

=============================================================================
