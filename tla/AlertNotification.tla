------------------------- MODULE AlertNotification -------------------------
(***************************************************************************)
(* AlertNotificationService: one delivery loop per reserved trigger, and   *)
(* the recovery of pending deliveries after a restart.  A loop suspends at *)
(* every await: at its store transactions, at the platform call and at the *)
(* retry delay; anything may happen between its steps.                     *)
(***************************************************************************)
EXTENDS AlertService

CONSTANTS
    Reachable,      \* users whose platform has a configured adapter
    MaxAttempts,    \* 1 + ALERT_NOTIFICATION_MAX_RETRIES
    MaxLostAnswers  \* bound on accepted sends whose answer is lost

ASSUME AlertNotificationAssumption ==
    /\ Reachable \subseteq Users
    /\ MaxAttempts \in Nat \ {0}
    /\ MaxLostAnswers \in Nat

VARIABLES
    loop,       \* loop[a]: where deliver() of alert a is, and its attempt
    recovery,   \* recoverPending(): the pending deliveries it has not handled
    received,   \* received[a]: notifications the platform accepted
    lostAnswers \* accepted sends reported as failures so far

notificationVars == <<loop, recovery, received, lostAnswers>>

\* "check" top of an attempt; "starting", "marking", "failing", "closing"
\* await a transaction; "sending" the platform has not accepted the message,
\* "accepted" it has and its answer is on the way; "delay" waits to retry.
LoopPhase == {"none", "check", "starting", "sending", "accepted", "marking",
              "failing", "delay", "closing"}
NoLoop == [at |-> "none", attempt |-> 0]

NotificationTypeOK ==
    /\ loop \in [AlertIds -> [at : LoopPhase, attempt : 0..MaxAttempts]]
    /\ recovery \in [todo : SUBSET AlertIds, waiting : BOOLEAN]
    /\ received \in [AlertIds -> Nat]
    /\ lostAnswers \in 0..MaxLostAnswers

NoRecovery == [todo |-> {}, waiting |-> FALSE]

NotificationInit ==
    /\ loop = [a \in AlertIds |-> NoLoop]
    /\ recovery = NoRecovery
    /\ received = [a \in AlertIds |-> 0]
    /\ lostAnswers = 0

MapsUnchanged ==
    UNCHANGED <<alerts, deliveries, disk, link, drawn, writeFailures, serviceVars>>

Goto(a, at) == loop' = [loop EXCEPT ![a].at = at]
Dispatched(l, a) == [l EXCEPT ![a] = [at |-> "check", attempt |-> 1]]

CloseOf(a, skipped, error, by) ==
    [kind |-> "close", alert |-> a, skipped |-> skipped, error |-> error, by |-> by]

-----------------------------------------------------------------------------
\* deliver(): the top of an attempt reads the maps.

AlertIsGone(a) ==
    /\ loop[a].at = "check"
    /\ deliveries[a].status = "PENDING"
    /\ alerts[a].status # "TRIGGERED"
    /\ Enqueue(CloseOf(a, IF alerts[a].status = "DELETED"
                          THEN "ALERT_DELETED" ELSE "ALERT_DISABLED", FALSE, "loop"))
    /\ Goto(a, "closing")
    /\ UNCHANGED <<recovery, received, lostAnswers>>

PlatformIsMissing(a) ==
    /\ loop[a].at = "check"
    /\ deliveries[a].status = "PENDING"
    /\ alerts[a].status = "TRIGGERED"
    /\ alerts[a].owner \notin Reachable
    /\ Enqueue(CloseOf(a, "null", TRUE, "loop"))
    /\ Goto(a, "closing")
    /\ UNCHANGED <<recovery, received, lostAnswers>>

\* A record that is no longer PENDING ends the loop without an attempt.
StartAttempt(a) ==
    /\ loop[a].at = "check"
    /\ IF deliveries[a].status = "PENDING"
       THEN /\ alerts[a].status = "TRIGGERED"
            /\ alerts[a].owner \in Reachable
            /\ Enqueue([kind |-> "begin", alert |-> a])
            /\ Goto(a, "starting")
       ELSE /\ loop' = [loop EXCEPT ![a] = NoLoop]
            /\ UNCHANGED chain
    /\ UNCHANGED <<recovery, received, lostAnswers>>

\* The platform accepts the message; the answer has yet to arrive.
PlatformAccepts(a) ==
    /\ loop[a].at = "sending"
    /\ received' = [received EXCEPT ![a] = @ + 1]
    /\ Goto(a, "accepted")
    /\ UNCHANGED <<chain, recovery, lostAnswers>>

\* Mutant: the result of the call is misread.
SuccessIsMisread(a) ==
    /\ loop[a].at = "accepted"
    /\ Enqueue([kind |-> "failure", alert |-> a])
    /\ Goto(a, "failing")
    /\ UNCHANGED <<recovery, received, lostAnswers>>

SendSucceeds(a) ==
    /\ loop[a].at = "accepted"
    /\ Enqueue([kind |-> "sent", alert |-> a])
    /\ Goto(a, "marking")
    /\ UNCHANGED <<recovery, received, lostAnswers>>

\* The call fails or throws before the platform took the message ...
SendFails(a) ==
    /\ loop[a].at = "sending"
    /\ Enqueue([kind |-> "failure", alert |-> a])
    /\ Goto(a, "failing")
    /\ UNCHANGED <<recovery, received, lostAnswers>>

\* ... or after it did: a timeout looks the same to render()'s caller.
AnswerIsLost(a) ==
    /\ loop[a].at = "accepted"
    /\ lostAnswers < MaxLostAnswers
    /\ lostAnswers' = lostAnswers + 1
    /\ Enqueue([kind |-> "failure", alert |-> a])
    /\ Goto(a, "failing")
    /\ UNCHANGED <<recovery, received>>

\* A recorded failure: wait for the next attempt, or give up.
Retry(a) ==
    /\ loop[a].at = "delay"
    /\ loop[a].attempt < MaxAttempts
    /\ loop' = [loop EXCEPT ![a] = [at |-> "check", attempt |-> @.attempt + 1]]
    /\ UNCHANGED <<chain, recovery, received, lostAnswers>>

GiveUp(a) ==
    /\ loop[a].at = "delay"
    /\ loop[a].attempt = MaxAttempts
    /\ Enqueue(CloseOf(a, "null", TRUE, "loop"))
    /\ Goto(a, "closing")
    /\ UNCHANGED <<recovery, received, lostAnswers>>

LoopStep(a) ==
    /\ \/ AlertIsGone(a) \/ PlatformIsMissing(a) \/ StartAttempt(a)
       \/ PlatformAccepts(a) \/ SendSucceeds(a) \/ SendFails(a) \/ AnswerIsLost(a)
       \/ Retry(a) \/ GiveUp(a)
    /\ MapsUnchanged

-----------------------------------------------------------------------------
\* recoverPending(), one pending delivery after the other.

OutcomeUnknown(a) == deliveries[a].attempts > 0 /\ ~deliveries[a].error

RecoverUnknown(a) ==
    /\ a \in recovery.todo
    /\ ~recovery.waiting
    /\ OutcomeUnknown(a)
    /\ Enqueue(CloseOf(a, "DELIVERY_OUTCOME_UNKNOWN", TRUE, "recovery"))
    /\ recovery' = [todo |-> recovery.todo \ {a}, waiting |-> TRUE]
    /\ UNCHANGED <<loop, received, lostAnswers>>

RecoverDispatch(a) ==
    /\ a \in recovery.todo
    /\ ~recovery.waiting
    /\ ~OutcomeUnknown(a)
    /\ loop' = Dispatched(loop, a)
    /\ recovery' = [recovery EXCEPT !.todo = @ \ {a}]
    /\ UNCHANGED <<chain, received, lostAnswers>>

RecoveryStep(a) ==
    /\ RecoverUnknown(a) \/ RecoverDispatch(a)
    /\ MapsUnchanged

-----------------------------------------------------------------------------
\* What a loop or the recovery does when its request is answered.

LoopKinds == {"begin", "sent", "failure"}
NextPhase(r, accepted) ==
    CASE r.kind = "begin" /\ accepted -> "sending"
      [] r.kind = "failure" -> "delay"
      [] OTHER -> "none"

Answered(r, accepted) ==
    /\ loop' = IF r.kind \in LoopKinds \/ (r.kind = "close" /\ r.by = "loop")
               THEN [loop EXCEPT ![r.alert] =
                       IF NextPhase(r, accepted) = "none" THEN NoLoop
                       ELSE [@ EXCEPT !.at = NextPhase(r, accepted)]]
               ELSE IF r.kind = "reserve" /\ accepted THEN Dispatched(loop, r.alert)
               ELSE loop
    /\ recovery' = IF r.kind = "close" /\ r.by = "recovery"
                   THEN [recovery EXCEPT !.waiting = FALSE] ELSE recovery
    /\ UNCHANGED <<received, lostAnswers>>
=============================================================================
