------------------------------ MODULE Broadcast ------------------------------
(***************************************************************************)
(* Broadcasts (source: admin/admin-broadcast.service.ts) and the document  *)
(* they live in (admin/admin.store.ts).                                    *)
(*                                                                         *)
(* An administrator prepares a job, confirms it, cancels it, retries its   *)
(* failures; a worker, every ten seconds, sends a batch.  All of them look *)
(* at the document and await a transaction: transactions run one after the *)
(* other on a copy that replaces the document once its file is written, so *)
(* that a failed one changes nothing and a crash loses nothing.            *)
(***************************************************************************)
EXTENDS Naturals, Sequences, FiniteSets

CONSTANTS
    Jobs,               \* broadcasts: numbers, in the order of their creation
    Recipients,         \* stored identities: numbers, in the order of sending
    Admins,             \* administrators' handlers
    Worker,             \* the worker
    BatchSize,          \* ADMIN_BROADCAST_BATCH_SIZE
    MaxAttempts,        \* ADMIN_BROADCAST_MAX_ATTEMPTS
    MaxManualRetries,   \* ADMIN_BROADCAST_MAX_MANUAL_RETRIES
    MaxRecipients,      \* ADMIN_BROADCAST_MAX_RECIPIENTS
    MaxFaults           \* bound: failed writes, rate limits, calls that are
                        \* refused or not answered, crashes

ASSUME BroadcastAssumption ==
    /\ Jobs \subseteq Nat /\ Recipients \subseteq Nat /\ IsFiniteSet(Recipients)
    /\ Worker \notin Admins
    /\ {BatchSize, MaxAttempts, MaxManualRetries, MaxRecipients, MaxFaults} \subseteq Nat
    /\ BatchSize > 0 /\ MaxAttempts > 0

VARIABLES
    doc,        \* the broadcasts of the document
    queue,      \* writeChain: the callers whose transactions wait, in order
    request,    \* what the transaction of each caller is to do
    tick,       \* the worker
    faults,     \* faults so far, by kind
    received    \* history: messages each recipient has got of each job

vars == <<doc, queue, request, tick, faults, received>>

JobStatus == {"NONE", "PREPARED", "RUNNING", "COMPLETED", "FAILED", "CANCELLED"}
RecipientStatus == {"NONE", "PENDING", "SENT", "FAILED", "SKIPPED"}

\* nextAttemptAt and nextAttemptAfter are "later" until they have passed.
Recipient == [status : RecipientStatus, attempts : 0 .. MaxAttempts, later : BOOLEAN]
Job == [status : JobStatus, retries : 0 .. MaxManualRetries, later : BOOLEAN,
        to : [Recipients -> Recipient]]

NoRecipient == [status |-> "NONE", attempts |-> 0, later |-> FALSE]
NoJob == [status |-> "NONE", retries |-> 0, later |-> FALSE,
          to |-> [r \in Recipients |-> NoRecipient]]

NoRequest == [op |-> "none"]
NoTick == [at |-> "idle"]

Kinds == {"write", "refused", "lost", "limited", "crash"}
FaultCount == faults["write"] + faults["refused"] + faults["lost"]
              + faults["limited"] + faults["crash"]
Faulty(kind) == FaultCount < MaxFaults /\ faults' = [faults EXCEPT ![kind] = @ + 1]

With(job, status) == {r \in Recipients : job.to[r].status = status}

\* The members of S that are sent to first.
First(S, n) == {r \in S : Cardinality({q \in S : q < r}) < n}

-----------------------------------------------------------------------------
(* The transactions: what each makes of the job it finds. *)

Prepared(S) ==
    [NoJob EXCEPT !.status = "PREPARED",
                  !.to = [r \in Recipients |->
                            IF r \in S THEN [NoRecipient EXCEPT !.status = "PENDING"]
                            ELSE NoRecipient]]

Confirmed(job) ==
    IF job.status = "PREPARED" THEN [job EXCEPT !.status = "RUNNING"] ELSE job

\* Mutant: those who wait go on waiting.
CancelledLeavingPending(job) == [job EXCEPT !.status = "CANCELLED"]

\* Whatever the job has become meanwhile, it is cancelled.
Cancelled(job) ==
    [job EXCEPT !.status = "CANCELLED",
                !.to = [r \in Recipients |->
                          IF r \in With(job, "PENDING") THEN [@[r] EXCEPT !.status = "SKIPPED"]
                          ELSE @[r]]]

\* Mutant: everybody the job has not reached is tried again.
RetriedWithSent(job) ==
    [job EXCEPT !.status = "RUNNING", !.retries = @ + 1, !.later = FALSE,
                !.to = [r \in Recipients |->
                          IF r \in With(job, "FAILED") \cup With(job, "SENT")
                          THEN [NoRecipient EXCEPT !.status = "PENDING"] ELSE @[r]]]

Retried(job) ==
    IF With(job, "FAILED") = {} THEN job
    ELSE [job EXCEPT !.status = "RUNNING", !.retries = @ + 1, !.later = FALSE,
                     !.to = [r \in Recipients |->
                               IF r \in With(job, "FAILED")
                               THEN [NoRecipient EXCEPT !.status = "PENDING"] ELSE @[r]]]

\* Mutant: the outcome replaces whatever the recipient has become.
AnsweredBlindly(job, r, outcome) == [job EXCEPT !.to[r] = outcome]

\* storeOutcome(): a recipient that is no longer waiting keeps its outcome.
Answered(job, r, outcome) ==
    IF job.to[r].status = "PENDING" THEN [job EXCEPT !.to[r] = outcome] ELSE job

BackedOff(job) == IF job.status = "RUNNING" THEN [job EXCEPT !.later = TRUE] ELSE job

Finalized(job, status) ==
    IF job.status = "RUNNING" THEN [job EXCEPT !.status = status] ELSE job

Result(q) ==
    LET job == doc[q.job] IN
    CASE q.op = "prepare" -> Prepared(q.arg)
      [] q.op = "confirm" -> Confirmed(job)
      [] q.op = "cancel" -> Cancelled(job)
      [] q.op = "retry" -> Retried(job)
      [] q.op = "answer" -> Answered(job, q.arg, q.outcome)
      [] q.op = "backoff" -> BackedOff(job)
      [] q.op = "finalize" -> Finalized(job, q.arg)

Asks(c, op, j, arg) ==
    /\ request' = [request EXCEPT ![c] = [op |-> op, job |-> j, arg |-> arg]]
    /\ queue' = Append(queue, c)

-----------------------------------------------------------------------------
(* What an administrator may ask of the job it sees. *)

Free(p) == request[p] = NoRequest
Watches == UNCHANGED <<doc, tick, faults, received>>

\* The audience is resolved, and must be somebody and not too many.
Prepare(p, j) ==
    /\ Free(p)
    /\ \A q \in Admins : request[q].op # "prepare"
    /\ doc[j].status = "NONE"
    /\ \A i \in Jobs : doc[i].status = "NONE" => j <= i
    /\ \E S \in SUBSET Recipients :
        /\ S # {} /\ Cardinality(S) <= MaxRecipients
        /\ Asks(p, "prepare", j, S)
    /\ Watches

Confirm(p, j) ==
    /\ Free(p)
    /\ doc[j].status = "PREPARED"
    /\ Asks(p, "confirm", j, {})
    /\ Watches

Cancel(p, j) ==
    /\ Free(p)
    /\ doc[j].status \in {"PREPARED", "RUNNING"}
    /\ Asks(p, "cancel", j, {})
    /\ Watches

Retry(p, j) ==
    /\ Free(p)
    /\ doc[j].status \notin {"NONE", "RUNNING"}
    /\ doc[j].retries < MaxManualRetries
    /\ Asks(p, "retry", j, {})
    /\ Watches

-----------------------------------------------------------------------------
(* The worker.  What it sends is chosen when its tick starts. *)

Waiting(job) == {r \in With(job, "PENDING") : ~ job.to[r].later}

Runnable(j) == doc[j].status = "RUNNING" /\ ~ doc[j].later

\* Mutant: a tick that finds nobody to send to does nothing.
StartTickWithWork(j) ==
    /\ tick = NoTick
    /\ Runnable(j) /\ \A i \in Jobs : Runnable(i) => j <= i
    /\ LET batch == First(Waiting(doc[j]), BatchSize) IN
        /\ batch # {}
        /\ tick' = [at |-> "sending", job |-> j, todo |-> [r \in batch |-> doc[j].to[r].attempts]]
    /\ UNCHANGED <<doc, queue, request, faults, received>>

StartTick(j) ==
    /\ tick = NoTick
    /\ Runnable(j) /\ \A i \in Jobs : Runnable(i) => j <= i
    /\ LET batch == First(Waiting(doc[j]), BatchSize) IN
        tick' = [at |-> IF batch = {} THEN "ending" ELSE "sending", job |-> j,
                 todo |-> [r \in batch |-> doc[j].to[r].attempts]]
    /\ UNCHANGED <<doc, queue, request, faults, received>>

Next1 == First(DOMAIN tick.todo, 1)

\* sendTo(): the attempts counted are those of the list.  The platform takes
\* the message, refuses it, asks for a pause, or does not answer: the client
\* tells the last like a refusal (platform/bot-api.client.ts).
Attempt(r, answer) ==
    LET tried == tick.todo[r] + 1
        waiting == [status |-> "PENDING", attempts |-> tried, later |-> TRUE]
    IN CASE answer = "taken" -> [status |-> "SENT", attempts |-> tried, later |-> FALSE]
         [] answer = "limited" -> [waiting EXCEPT !.attempts = tick.todo[r]]
         [] OTHER -> IF tried < MaxAttempts THEN waiting
                     ELSE [waiting EXCEPT !.status = "FAILED", !.later = FALSE]

Send(r) ==
    /\ tick.at = "sending" /\ r \in Next1
    /\ \E answer \in {"taken", "refused", "limited", "lost"}, arrives \in BOOLEAN :
        /\ answer = "taken" => arrives
        /\ arrives => answer \in {"taken", "lost"}
        /\ IF answer = "taken" THEN UNCHANGED faults ELSE Faulty(answer)
        /\ received' = [received EXCEPT ![tick.job][r] = IF arrives THEN @ + 1 ELSE @]
        /\ request' = [request EXCEPT ![Worker] =
                [op |-> "answer", job |-> tick.job, arg |-> r, outcome |-> Attempt(r, answer)]]
        /\ tick' = [tick EXCEPT !.at = IF answer = "limited" THEN "limiting" ELSE "storing"]
    /\ queue' = Append(queue, Worker)
    /\ UNCHANGED doc

\* The outcome is stored, or its error logged: the next of the batch.
Goes ==
    /\ tick.at = "storing" /\ request[Worker] = NoRequest
    /\ LET todo == [r \in DOMAIN tick.todo \ Next1 |-> tick.todo[r]] IN
        tick' = [tick EXCEPT !.todo = todo, !.at = IF DOMAIN todo = {} THEN "ending" ELSE "sending"]
    /\ UNCHANGED <<doc, queue, request, faults, received>>

\* A pause: the whole job waits and the tick is over.
BackOff ==
    /\ tick.at = "limiting" /\ request[Worker] = NoRequest
    /\ Asks(Worker, "backoff", tick.job, {})
    /\ tick' = [tick EXCEPT !.at = "last"]
    /\ UNCHANGED <<doc, faults, received>>

\* finalize(): nobody waits, so the job is over -- unless it is no longer running.
Outcome(job) ==
    IF With(job, "SENT") = {} /\ With(job, "FAILED") # {} THEN "FAILED" ELSE "COMPLETED"

Finalize ==
    /\ tick.at = "ending"
    /\ IF doc[tick.job].status = "RUNNING" /\ With(doc[tick.job], "PENDING") = {}
       THEN /\ Asks(Worker, "finalize", tick.job, Outcome(doc[tick.job]))
            /\ tick' = [tick EXCEPT !.at = "last"]
       ELSE tick' = NoTick /\ UNCHANGED <<queue, request>>
    /\ UNCHANGED <<doc, faults, received>>

EndTick ==
    /\ tick.at = "last" /\ request[Worker] = NoRequest
    /\ tick' = NoTick
    /\ UNCHANGED <<doc, queue, request, faults, received>>

-----------------------------------------------------------------------------
\* The first transaction runs; when its write fails, nothing has changed.
Transact ==
    /\ queue # <<>>
    /\ LET c == Head(queue)
           q == request[c]
       IN /\ \/ doc' = [doc EXCEPT ![q.job] = Result(q)] /\ UNCHANGED faults
             \/ Faulty("write") /\ UNCHANGED doc
          /\ request' = [request EXCEPT ![c] = NoRequest]
    /\ queue' = Tail(queue)
    /\ UNCHANGED <<tick, received>>

\* The times of the next attempts are reached.
BackoffElapses(j) ==
    /\ doc[j].later \/ \E r \in Recipients : doc[j].to[r].later
    /\ doc' = [doc EXCEPT ![j].later = FALSE,
                          ![j].to = [r \in Recipients |-> [@[r] EXCEPT !.later = FALSE]]]
    /\ UNCHANGED <<queue, request, tick, faults, received>>

\* The process dies: the document is read again, RUNNING jobs go on.
Crash ==
    /\ Faulty("crash")
    /\ queue' = <<>>
    /\ request' = [c \in DOMAIN request |-> NoRequest]
    /\ tick' = NoTick
    /\ UNCHANGED <<doc, received>>

-----------------------------------------------------------------------------
Init ==
    /\ doc = [j \in Jobs |-> NoJob]
    /\ queue = <<>>
    /\ request = [c \in Admins \cup {Worker} |-> NoRequest]
    /\ tick = NoTick
    /\ faults = [k \in Kinds |-> 0]
    /\ received = [j \in Jobs |-> [r \in Recipients |-> 0]]

Work ==
    \/ \E j \in Jobs : StartTick(j)
    \/ \E r \in Recipients : Send(r)
    \/ Goes \/ BackOff \/ Finalize \/ EndTick

Administer ==
    \E p \in Admins, j \in Jobs : Prepare(p, j) \/ Confirm(p, j) \/ Cancel(p, j) \/ Retry(p, j)

Next ==
    \/ Administer
    \/ Work
    \/ Transact
    \/ \E j \in Jobs : BackoffElapses(j)
    \/ Crash

Spec == Init /\ [][Next]_vars

\* The scheduler ticks, calls and writes settle, times pass.  Nothing is assumed
\* of administrators.
Fairness ==
    /\ WF_vars(Work)
    /\ WF_vars(Transact)
    /\ \A j \in Jobs : WF_vars(BackoffElapses(j))

FairSpec == Spec /\ Fairness

-----------------------------------------------------------------------------
TypeOK ==
    /\ doc \in [Jobs -> Job]
    /\ \A i \in DOMAIN queue : request[queue[i]] # NoRequest
    /\ tick.at \in {"idle", "sending", "storing", "limiting", "ending", "last"}
    /\ received \in [Jobs -> [Recipients -> Nat]]

(* A job that is over has nobody waiting, although finalize() looked outside *)
(* its transaction: no cancel, retry or late outcome that lands in between   *)
(* leaves a recipient behind (admin-broadcast.service.ts finalize, cancel,   *)
(* retry).                                                                   *)
NobodyIsLeftWaiting ==
    \A j \in Jobs : doc[j].status \in {"COMPLETED", "FAILED", "CANCELLED"} =>
        With(doc[j], "PENDING") = {}

(* SENT means the recipient got the message, and nobody gets it twice but    *)
(* through a fault that hides the outcome: a crash or a failed write after   *)
(* the call, or an answer that is lost (sendTo, storeOutcome, retry).        *)
DuplicatesAreExplained ==
    \A j \in Jobs, r \in Recipients :
        /\ doc[j].to[r].status = "SENT" => received[j][r] > 0
        /\ received[j][r] <= 1 + faults["crash"] + faults["write"] + faults["lost"]

(* Only a retry of a FAILED recipient makes an outcome undone: what is SENT  *)
(* or SKIPPED stays so, whatever stale tick or late handler ends.            *)
OutcomesAreFinal ==
    [][\A j \in Jobs, r \in Recipients :
        LET old == doc[j].to[r].status
            new == doc'[j].to[r].status
        IN old # new => \/ old \in {"NONE", "PENDING"}
                        \/ old = "FAILED" /\ new = "PENDING" /\ doc'[j].retries > doc[j].retries]_vars

(* A confirmed job ends: its batches, refusals and pauses are all followed   *)
(* up, through failed writes and crashes (processTick, backOff, finalize).   *)
RunningEnds == \A j \in Jobs : (doc[j].status = "RUNNING") ~> (doc[j].status # "RUNNING")

=============================================================================
