-------------------------- MODULE Broadcast_proofs --------------------------
(***************************************************************************)
(* Broadcasts keep their promises for any jobs, recipients, administrators *)
(* and limits.  Every check is made before a transaction that runs later,  *)
(* so the invariant says what a request that waits may still rely on: an   *)
(* answer that is queued is of a recipient nobody else decides, a retry    *)
(* finds nothing to repeat once another one was first, a job that is to be *)
(* finalized gets nobody to wait any more.                                 *)
(***************************************************************************)
EXTENDS Broadcast, SequenceTheorems, TLAPS

Callers == Admins \cup {Worker}

Hidden == faults["crash"] + faults["write"] + faults["lost"]

-----------------------------------------------------------------------------
(* Shapes *)

Over == {"COMPLETED", "FAILED", "CANCELLED"}

Untried(x) == x.status = "PENDING" => x.attempts < MaxAttempts

\* A job that does not exist has no recipients, one that was not confirmed no outcomes.
JobShape(job) ==
    /\ \A r \in Recipients : Untried(job.to[r])
    /\ job.status = "NONE" => \A r \in Recipients : job.to[r].status = "NONE"
    /\ job.status = "PREPARED" => \A r \in Recipients : job.to[r].status \in {"NONE", "PENDING"}

AdminRequest ==
    [op : {"confirm", "cancel", "retry"}, job : Jobs, arg : {{}}]
    \cup [op : {"prepare"}, job : Jobs, arg : SUBSET Recipients]

AnswerRequest == [op : {"answer"}, job : Jobs, arg : Recipients, outcome : Recipient]

EndRequest ==
    [op : {"backoff"}, job : Jobs, arg : {{}}]
    \cup [op : {"finalize"}, job : Jobs, arg : {"COMPLETED", "FAILED"}]

Types ==
    /\ doc \in [Jobs -> Job]
    /\ \A j \in Jobs : JobShape(doc[j])
    /\ DOMAIN request = Callers
    /\ request = [c \in Callers |-> request[c]]
    /\ \A p \in Admins : request[p] = NoRequest \/ request[p] \in AdminRequest
    /\ request[Worker] = NoRequest \/ request[Worker] \in AnswerRequest \cup EndRequest
    /\ faults \in [Kinds -> Nat]
    /\ received \in [Jobs -> [Recipients -> Nat]]

\* Whoever waits stands in the queue once.
Queued ==
    /\ queue \in Seq(Callers)
    /\ \A c \in Callers : request[c] # NoRequest <=> \E i \in 1 .. Len(queue) : queue[i] = c
    /\ \A i, k \in 1 .. Len(queue) : queue[i] = queue[k] => i = k

\* What the worker waits for follows from where its tick is.
Ticking ==
    \/ tick = NoTick /\ request[Worker] = NoRequest
    \/ /\ tick = [at |-> tick.at, job |-> tick.job, todo |-> tick.todo]
       /\ tick.at \in {"sending", "storing", "limiting", "ending", "last"}
       /\ tick.job \in Jobs /\ doc[tick.job].status \notin {"NONE", "PREPARED"}
       /\ DOMAIN tick.todo \subseteq Recipients
       /\ \A r \in DOMAIN tick.todo : tick.todo[r] \in Nat /\ tick.todo[r] < MaxAttempts
       /\ tick.at \in {"sending", "ending"} => request[Worker] = NoRequest
       /\ request[Worker] # NoRequest =>
            /\ request[Worker].job = tick.job
            /\ request[Worker].op = "answer" <=> tick.at \in {"storing", "limiting"}

-----------------------------------------------------------------------------
(* The recipients of the worker *)

Answers(j, r) ==
    request[Worker].op = "answer" /\ request[Worker].job = j /\ request[Worker].arg = r

\* Those of the batch who have yet to be sent to.
Ahead(j) ==
    IF tick.at = "idle" \/ tick.job # j THEN {}
    ELSE IF tick.at = "sending" THEN DOMAIN tick.todo
    ELSE IF tick.at = "storing" THEN DOMAIN tick.todo \ Next1
    ELSE {}

\* Nobody but the worker decides about its recipients, unless they are skipped.
BatchIsOpen ==
    \A j \in Jobs, r \in Recipients :
        /\ Answers(j, r) \/ r \in Ahead(j) => doc[j].to[r].status \in {"PENDING", "SKIPPED"}
        /\ Answers(j, r) => r \notin Ahead(j)

OutcomesAreRight ==
    request[Worker].op = "answer" =>
        LET q == request[Worker] IN
        /\ q.outcome.status \in {"PENDING", "SENT", "FAILED"} /\ Untried(q.outcome)
        /\ q.outcome.status = "SENT" => received[q.job][q.arg] > 0

\* Whoever may be sent to has got no more than faults hide.
MessagesAreCounted ==
    \A j \in Jobs, r \in Recipients :
        /\ received[j][r] <= 1 + Hidden
        /\ doc[j].to[r].status = "SENT" => received[j][r] > 0
        /\ \/ r \in Ahead(j)
           \/ /\ doc[j].to[r].status \notin {"SENT", "SKIPPED"}
              /\ ~ (Answers(j, r) /\ request[Worker].outcome.status = "SENT")
           => received[j][r] <= Hidden

-----------------------------------------------------------------------------
(* What a request that waits may rely on *)

\* A job is prepared by one administrator, and nobody else asks for anything of it.
PreparesAlone ==
    /\ \A p \in Admins : request[p].op = "prepare" =>
        /\ doc[request[p].job].status = "NONE"
        /\ \A q \in Admins : request[q].op = "prepare" => q = p
    /\ \A p \in Admins : request[p].op \in {"confirm", "cancel", "retry"} =>
        doc[request[p].job].status # "NONE"

Before(c, d) == \E i, k \in 1 .. Len(queue) : i < k /\ queue[i] = c /\ queue[k] = d

\* A retry is still allowed, or has nothing left to retry; no answer before it
\* in the queue brings it anything.
RetriesWait ==
    \A p \in Admins : request[p].op = "retry" =>
        LET j == request[p].job IN
        /\ \/ doc[j].status # "RUNNING" /\ doc[j].retries < MaxManualRetries
           \/ With(doc[j], "FAILED") = {}
        /\ \A r \in Recipients :
            Answers(j, r) /\ Before(Worker, p) => doc[j].to[r].status # "PENDING"

\* A job that is to be finalized has nobody waiting, and no retry comes first.
FinalizesWait ==
    request[Worker].op = "finalize" =>
        LET j == request[Worker].job IN
        /\ doc[j].status = "RUNNING" => With(doc[j], "PENDING") = {}
        /\ \A p \in Admins :
            request[p].op = "retry" /\ request[p].job = j /\ Before(p, Worker) =>
                With(doc[j], "FAILED") = {}

IInv ==
    /\ Types /\ Queued /\ Ticking
    /\ BatchIsOpen /\ OutcomesAreRight /\ MessagesAreCounted
    /\ PreparesAlone /\ RetriesWait /\ FinalizesWait
    /\ NobodyIsLeftWaiting

-----------------------------------------------------------------------------
(* The queue *)

LEMMA WorkerIsNoAdmin == Worker \in Callers /\ Admins \subseteq Callers /\ Worker \notin Admins
BY BroadcastAssumption DEF Callers

\* Who asks stands behind everybody.
LEMMA AskQueues ==
    ASSUME Queued, NEW c \in Callers, NEW q, q # NoRequest, request[c] = NoRequest,
           DOMAIN request = Callers,
           request' = [request EXCEPT ![c] = q], queue' = Append(queue, c)
    PROVE  /\ Queued'
           /\ \A d \in Callers : ~ Before(c, d)'
           /\ \A d, e \in Callers : Before(d, e)' => Before(d, e) \/ e = c
<1>1. /\ queue' \in Seq(Callers) /\ Len(queue') = Len(queue) + 1 /\ Len(queue) \in Nat
      /\ \A i \in 1 .. Len(queue) : queue'[i] = queue[i]
      /\ queue'[Len(queue) + 1] = c
    BY AppendProperties, LenProperties DEF Queued
<1>2. \A i \in 1 .. Len(queue) : queue[i] # c /\ queue[i] \in Callers
    BY ElementOfSeq DEF Queued
<1>3. \A d \in Callers : request'[d] # NoRequest <=> \E i \in 1 .. Len(queue') : queue'[i] = d
    <2> TAKE d \in Callers
    <2>1. CASE d = c
        BY <1>1, <2>1
    <2>2. CASE d # c
        BY <1>1, <2>2 DEF Queued
    <2> QED BY <2>1, <2>2
<1>4. \A i, k \in 1 .. Len(queue') : queue'[i] = queue'[k] => i = k
    BY <1>1, <1>2 DEF Queued
<1>5. \A d, e \in Callers : Before(d, e)' => d # c /\ (Before(d, e) \/ e = c)
    <2> SUFFICES ASSUME NEW d \in Callers, NEW e \in Callers,
                        NEW i \in 1 .. Len(queue'), NEW k \in 1 .. Len(queue'),
                        i < k, queue'[i] = d, queue'[k] = e
                 PROVE  d # c /\ (Before(d, e) \/ e = c)
        BY DEF Before
    <2>1. i \in 1 .. Len(queue) /\ queue[i] = d
        BY <1>1
    <2>2. CASE k \in 1 .. Len(queue)
        BY <1>1, <1>2, <2>1, <2>2 DEF Before
    <2>3. CASE k = Len(queue) + 1
        BY <1>1, <1>2, <2>1, <2>3
    <2> QED BY <1>1, <2>2, <2>3
<1> QED BY <1>1, <1>3, <1>4, <1>5 DEF Queued

\* Who is served leaves, and was before everybody else.
LEMMA ServeQueues ==
    ASSUME Queued, queue # <<>>, DOMAIN request = Callers,
           request' = [request EXCEPT ![Head(queue)] = NoRequest], queue' = Tail(queue)
    PROVE  /\ Head(queue) \in Callers /\ request[Head(queue)] # NoRequest
           /\ Queued'
           /\ \A d, e \in Callers : Before(d, e)' => Before(d, e)
           /\ \A d \in Callers : d # Head(queue) /\ request[d] # NoRequest => Before(Head(queue), d)
<1> DEFINE c == Head(queue)
<1> DEFINE n == Len(queue)
<1>1. /\ n \in Nat /\ n > 0 /\ c = queue[1] /\ c \in Callers
      /\ queue' \in Seq(Callers) /\ Len(queue') = n - 1
      /\ \A i \in 1 .. n - 1 : queue'[i] = queue[i + 1]
    BY HeadTailProperties, EmptySeq, LenProperties DEF Queued
<1> HIDE DEF n
<1>2. request[c] # NoRequest /\ \A i \in 2 .. n : queue[i] # c
    BY <1>1 DEF Queued, n
<1>3. \A d \in Callers : request'[d] # NoRequest <=> \E i \in 1 .. n - 1 : queue'[i] = d
    <2> TAKE d \in Callers
    <2>1. CASE d = c
        BY <1>1, <1>2, <2>1
    <2>2. CASE d # c
        <3>1. (\E i \in 1 .. n : queue[i] = d) <=> (\E i \in 1 .. n - 1 : queue[i + 1] = d)
            <4>1. ASSUME NEW i \in 1 .. n, queue[i] = d
                  PROVE  \E m \in 1 .. n - 1 : queue[m + 1] = d
                <5>1. i - 1 \in 1 .. n - 1 /\ (i - 1) + 1 = i
                    BY <1>1, <2>2, <4>1
                <5> QED BY <4>1, <5>1
            <4>2. \A i \in 1 .. n - 1 : i + 1 \in 1 .. n
                BY <1>1
            <4> QED BY <4>1, <4>2
        <3>2. request'[d] = request[d]
            BY <2>2
        <3> QED BY <1>1, <3>1, <3>2 DEF Queued, n
    <2> QED BY <2>1, <2>2
<1>4. \A i, k \in 1 .. n - 1 : queue'[i] = queue'[k] => i = k
    BY <1>1 DEF Queued, n
<1>5. \A d, e \in Callers : Before(d, e)' => Before(d, e)
    <2> SUFFICES ASSUME NEW d \in Callers, NEW e \in Callers,
                        NEW i \in 1 .. n - 1, NEW k \in 1 .. n - 1,
                        i < k, queue'[i] = d, queue'[k] = e
                 PROVE  Before(d, e)
        BY <1>1 DEF Before
    <2>1. i + 1 \in 1 .. n /\ k + 1 \in 1 .. n /\ i + 1 < k + 1
        BY <1>1
    <2> QED BY <1>1, <2>1 DEF Before, n
<1>6. ASSUME NEW d \in Callers, d # c, request[d] # NoRequest
      PROVE  Before(c, d)
    <2>1. PICK k \in 1 .. n : queue[k] = d
        BY <1>6 DEF Queued, n
    <2>2. 1 \in 1 .. n /\ 1 < k
        BY <1>1, <1>6, <2>1
    <2> QED BY <1>1, <2>1, <2>2 DEF Before, n
<1> QED BY <1>1, <1>2, <1>3, <1>4, <1>5, <1>6 DEF Queued

-----------------------------------------------------------------------------
(* Administrators ask *)

LEMMA RequestShapes ==
    ASSUME Types
    PROVE  /\ \A p \in Admins :
                /\ request[p].op \in {"none", "prepare", "confirm", "cancel", "retry"}
                /\ request[p].op = "none" <=> request[p] = NoRequest
                /\ request[p].op # "none" => request[p].job \in Jobs
                /\ request[p].op = "prepare" => request[p].arg \in SUBSET Recipients
           /\ request[Worker].op \in {"none", "answer", "backoff", "finalize"}
           /\ request[Worker].op = "none" <=> request[Worker] = NoRequest
           /\ request[Worker].op # "none" => request[Worker].job \in Jobs
           /\ request[Worker].op = "answer" =>
                request[Worker].arg \in Recipients /\ request[Worker].outcome \in Recipient
           /\ request[Worker].op = "finalize" => request[Worker].arg \in {"COMPLETED", "FAILED"}
<1>1. \A q \in AdminRequest :
        /\ q.op \in {"prepare", "confirm", "cancel", "retry"} /\ q.job \in Jobs
        /\ q.op = "prepare" => q.arg \in SUBSET Recipients
    BY DEF AdminRequest
<1>2. \A q \in AnswerRequest :
        q.op = "answer" /\ q.job \in Jobs /\ q.arg \in Recipients /\ q.outcome \in Recipient
    BY DEF AnswerRequest
<1>3. \A q \in EndRequest :
        /\ q.op \in {"backoff", "finalize"} /\ q.job \in Jobs
        /\ q.op = "finalize" => q.arg \in {"COMPLETED", "FAILED"}
    BY DEF EndRequest
<1>4. NoRequest.op = "none"
    BY DEF NoRequest
<1> QED BY <1>1, <1>2, <1>3, <1>4 DEF Types

\* What an administrator asks for changes nothing for the worker, behind which it waits.
LEMMA AdminAsksKeeps ==
    ASSUME IInv, NEW p \in Admins, NEW q \in AdminRequest, Free(p),
           request' = [request EXCEPT ![p] = q], queue' = Append(queue, p), Watches
    PROVE  /\ Types' /\ Queued' /\ Ticking'
           /\ BatchIsOpen' /\ OutcomesAreRight' /\ MessagesAreCounted'
           /\ FinalizesWait' /\ NobodyIsLeftWaiting'
           /\ \A d, e \in Callers : Before(d, e)' => Before(d, e) \/ e = p
           /\ request'[p] = q /\ request'[Worker] = request[Worker]
           /\ \A c \in Callers : c # p => request'[c] = request[c]
           /\ request[p].op = "none"
<1> USE WorkerIsNoAdmin
<1>1. /\ request'[p] = q /\ request'[Worker] = request[Worker]
      /\ \A c \in Callers : c # p => request'[c] = request[c]
    BY DEF IInv, Types
<1>2. q # NoRequest /\ q.op \in {"prepare", "confirm", "cancel", "retry"}
    BY DEF AdminRequest, NoRequest
<1>3. /\ Queued'
      /\ \A d \in Callers : ~ Before(p, d)'
      /\ \A d, e \in Callers : Before(d, e)' => Before(d, e) \/ e = p
    BY AskQueues, <1>2 DEF IInv, Types, Free
<1>4. UNCHANGED <<doc, tick, faults, received>>
    BY DEF Watches
<1>5. Types'
    BY <1>1, <1>4 DEF IInv, Types, Callers
<1>6. Ticking'
    BY <1>1, <1>4 DEF IInv, Ticking
<1>7. BatchIsOpen' /\ OutcomesAreRight' /\ MessagesAreCounted'
    BY <1>1, <1>4 DEF IInv, BatchIsOpen, OutcomesAreRight, MessagesAreCounted, Answers,
                      Ahead, Next1, First, Hidden
<1>8. FinalizesWait'
    <2>1. SUFFICES ASSUME request[Worker].op = "finalize",
                          NEW d \in Admins, request'[d].op = "retry",
                          request'[d].job = request[Worker].job, Before(d, Worker)'
                   PROVE  With(doc[request[Worker].job], "FAILED") = {}
        BY <1>1, <1>4 DEF FinalizesWait, IInv, With
    <2>2. d # p /\ Before(d, Worker)
        BY <1>3, <2>1
    <2> QED BY <1>1, <2>1, <2>2 DEF IInv, FinalizesWait
<1>9. NobodyIsLeftWaiting'
    BY <1>4 DEF IInv, NobodyIsLeftWaiting, With
<1>10. request[p].op = "none"
    BY DEF Free, NoRequest
<1> QED BY <1>1, <1>3, <1>5, <1>6, <1>7, <1>8, <1>9, <1>10

\* What waits with it keeps what it relies on.
LEMMA AdminAsksStep ==
    ASSUME IInv, NEW p \in Admins, NEW q \in AdminRequest, Free(p),
           request' = [request EXCEPT ![p] = q], queue' = Append(queue, p), Watches,
           q.op = "prepare" =>
                /\ doc[q.job].status = "NONE"
                /\ \A d \in Admins : request[d].op # "prepare",
           q.op # "prepare" => doc[q.job].status # "NONE",
           q.op = "retry" => doc[q.job].status # "RUNNING" /\ doc[q.job].retries < MaxManualRetries
    PROVE  IInv'
<1> USE WorkerIsNoAdmin
<1>1. /\ Types' /\ Queued' /\ Ticking'
      /\ BatchIsOpen' /\ OutcomesAreRight' /\ MessagesAreCounted'
      /\ FinalizesWait' /\ NobodyIsLeftWaiting'
      /\ \A d, e \in Callers : Before(d, e)' => Before(d, e) \/ e = p
      /\ request'[p] = q /\ request'[Worker] = request[Worker]
      /\ \A c \in Callers : c # p => request'[c] = request[c]
      /\ request[p].op = "none"
    BY AdminAsksKeeps
<1>2. UNCHANGED <<doc, tick, faults, received>>
    BY DEF Watches
<1>3. q.job \in Jobs /\ q.op \in {"prepare", "confirm", "cancel", "retry"}
    BY DEF AdminRequest
<1>4. PreparesAlone'
    BY <1>1, <1>2, <1>3 DEF IInv, PreparesAlone
<1>5. RetriesWait'
    <2> SUFFICES ASSUME NEW d \in Admins, NEW j, request'[d].op = "retry", request'[d].job = j
                 PROVE  /\ \/ doc[j].status # "RUNNING" /\ doc[j].retries < MaxManualRetries
                           \/ With(doc[j], "FAILED") = {}
                        /\ \A r \in Recipients :
                            Answers(j, r)' /\ Before(Worker, d)' => doc[j].to[r].status # "PENDING"
        BY <1>2 DEF RetriesWait, With, Answers
    <2>1. CASE d # p
        <3>1. request'[d] = request[d] /\ (Before(Worker, d)' => Before(Worker, d))
            BY <1>1, <2>1
        <3>2. \A r \in Recipients : Answers(j, r)' => Answers(j, r)
            BY <1>1 DEF Answers
        <3> QED BY <3>1, <3>2 DEF IInv, RetriesWait
    <2>2. CASE d = p
        <3>1. doc[q.job].status \in JobStatus
            BY <1>3 DEF IInv, Types, Job
        <3>2. q.op = "retry" /\ doc[q.job].status \in Over \cup {"PREPARED"}
            BY <1>1, <2>2, <3>1 DEF JobStatus, Over
        <3>3. CASE doc[q.job].status \in Over
            BY <1>1, <1>3, <2>2, <3>2, <3>3 DEF IInv, NobodyIsLeftWaiting, Over, With
        <3>4. CASE doc[q.job].status = "PREPARED"
            <4>1. \A r \in Recipients : ~ Answers(q.job, r)
                BY <3>4, RequestShapes DEF IInv, Ticking, Answers
            <4> QED BY <1>1, <2>2, <3>2, <4>1 DEF Answers
        <3> QED BY <3>2, <3>3, <3>4
    <2> QED BY <2>1, <2>2
<1> QED BY <1>1, <1>4, <1>5 DEF IInv

LEMMA AdministerStep ==
    ASSUME IInv, Administer
    PROVE  IInv'
<1> PICK p \in Admins, j \in Jobs : Prepare(p, j) \/ Confirm(p, j) \/ Cancel(p, j) \/ Retry(p, j)
    BY DEF Administer
<1>1. CASE Prepare(p, j)
    <2>1. PICK S \in SUBSET Recipients : Asks(p, "prepare", j, S)
        BY <1>1 DEF Prepare
    <2> DEFINE q == [op |-> "prepare", job |-> j, arg |-> S]
    <2>2. q \in AdminRequest /\ q.op = "prepare" /\ q.job = j
        BY DEF AdminRequest
    <2>3. Free(p) /\ Watches /\ request' = [request EXCEPT ![p] = q] /\ queue' = Append(queue, p)
        BY <1>1, <2>1 DEF Prepare, Asks
    <2>4. doc[j].status = "NONE" /\ \A d \in Admins : request[d].op # "prepare"
        BY <1>1 DEF Prepare
    <2> HIDE DEF q
    <2> QED BY <2>2, <2>3, <2>4, AdminAsksStep
<1>2. CASE Confirm(p, j)
    <2> DEFINE q == [op |-> "confirm", job |-> j, arg |-> {}]
    <2>1. q \in AdminRequest /\ q.op = "confirm" /\ q.job = j
        BY DEF AdminRequest
    <2>2. Free(p) /\ Watches /\ request' = [request EXCEPT ![p] = q] /\ queue' = Append(queue, p)
        BY <1>2 DEF Confirm, Asks
    <2>3. doc[j].status # "NONE"
        BY <1>2 DEF Confirm
    <2> HIDE DEF q
    <2> QED BY <2>1, <2>2, <2>3, AdminAsksStep
<1>3. CASE Cancel(p, j)
    <2> DEFINE q == [op |-> "cancel", job |-> j, arg |-> {}]
    <2>1. q \in AdminRequest /\ q.op = "cancel" /\ q.job = j
        BY DEF AdminRequest
    <2>2. Free(p) /\ Watches /\ request' = [request EXCEPT ![p] = q] /\ queue' = Append(queue, p)
        BY <1>3 DEF Cancel, Asks
    <2>3. doc[j].status # "NONE"
        BY <1>3 DEF Cancel
    <2> HIDE DEF q
    <2> QED BY <2>1, <2>2, <2>3, AdminAsksStep
<1>4. CASE Retry(p, j)
    <2> DEFINE q == [op |-> "retry", job |-> j, arg |-> {}]
    <2>1. q \in AdminRequest /\ q.op = "retry" /\ q.job = j
        BY DEF AdminRequest
    <2>2. Free(p) /\ Watches /\ request' = [request EXCEPT ![p] = q] /\ queue' = Append(queue, p)
        BY <1>4 DEF Retry, Asks
    <2>3. doc[j].status \notin {"NONE", "RUNNING"} /\ doc[j].retries < MaxManualRetries
        BY <1>4 DEF Retry
    <2> HIDE DEF q
    <2> QED BY <2>1, <2>2, <2>3, AdminAsksStep
<1> QED BY <1>1, <1>2, <1>3, <1>4

-----------------------------------------------------------------------------
(* The worker moves *)

\* A move of the tick that asks for nothing.
LEMMA TickMoves ==
    ASSUME IInv, UNCHANGED <<doc, queue, request, faults, received>>,
           request[Worker] = NoRequest, Ticking',
           \A j \in Jobs, r \in Recipients :
                r \in Ahead(j)' => r \in Ahead(j) \/ doc[j].to[r].status = "PENDING"
    PROVE  IInv'
<1> USE WorkerIsNoAdmin
<1>1. request[Worker].op = "none"
    BY DEF NoRequest
<1>2. \A j, r : ~ Answers(j, r) /\ ~ Answers(j, r)'
    BY <1>1 DEF Answers
<1>3. Types' /\ Queued'
    <2>1. Types'
        BY DEF IInv, Types
    <2>2. Queued'
        BY DEF IInv, Queued
    <2> QED BY <2>1, <2>2
<1>4. BatchIsOpen'
    BY <1>2 DEF IInv, BatchIsOpen
<1>5. OutcomesAreRight' /\ FinalizesWait'
    BY <1>1 DEF OutcomesAreRight, FinalizesWait
<1>6. MessagesAreCounted'
    BY <1>2 DEF IInv, MessagesAreCounted, Hidden
<1>7. PreparesAlone' /\ NobodyIsLeftWaiting'
    BY DEF IInv, PreparesAlone, NobodyIsLeftWaiting, With
<1>8. RetriesWait'
    BY <1>2 DEF IInv, RetriesWait, With
<1> QED BY <1>3, <1>4, <1>5, <1>6, <1>7, <1>8 DEF IInv

\* What the worker asks for is behind every retry.
LEMMA WorkerAsksKeeps ==
    ASSUME IInv, NEW q \in AnswerRequest \cup EndRequest, request[Worker] = NoRequest,
           request' = [request EXCEPT ![Worker] = q], queue' = Append(queue, Worker),
           UNCHANGED doc, faults' \in [Kinds -> Nat],
           received' \in [Jobs -> [Recipients -> Nat]]
    PROVE  /\ Types' /\ Queued' /\ PreparesAlone' /\ RetriesWait' /\ NobodyIsLeftWaiting'
           /\ request'[Worker] = q
           /\ \A p \in Admins : request'[p] = request[p]
           /\ \A j, r : ~ Answers(j, r)
<1> USE WorkerIsNoAdmin
<1>1. request'[Worker] = q /\ \A p \in Admins : request'[p] = request[p]
    BY DEF IInv, Types
<1>2. q # NoRequest
    BY DEF AnswerRequest, EndRequest, NoRequest
<1>3. Queued' /\ \A d \in Callers : ~ Before(Worker, d)'
    BY AskQueues, <1>2 DEF IInv, Types
<1>4. Types'
    BY <1>1 DEF IInv, Types, Callers
<1>5. PreparesAlone' /\ NobodyIsLeftWaiting'
    BY <1>1 DEF IInv, PreparesAlone, NobodyIsLeftWaiting, With
<1>6. RetriesWait'
    BY <1>1, <1>3 DEF IInv, RetriesWait, With
<1>7. \A j, r : ~ Answers(j, r)
    BY DEF Answers, NoRequest
<1> QED BY <1>1, <1>3, <1>4, <1>5, <1>6, <1>7

LEMMA StartTickStep ==
    ASSUME IInv, NEW j \in Jobs, StartTick(j)
    PROVE  IInv'
<1> DEFINE batch == First(Waiting(doc[j]), BatchSize)
<1>1. /\ batch \subseteq Recipients
      /\ \A r \in batch : doc[j].to[r].status = "PENDING"
    BY DEF First, Waiting, With
<1>2. \A r \in batch : doc[j].to[r].attempts \in Nat /\ doc[j].to[r].attempts < MaxAttempts
    BY <1>1 DEF IInv, Types, JobShape, Untried, Job, Recipient
<1>3. /\ tick = NoTick /\ doc[j].status = "RUNNING"
      /\ tick' = [at |-> IF batch = {} THEN "ending" ELSE "sending", job |-> j,
                  todo |-> [r \in batch |-> doc[j].to[r].attempts]]
      /\ UNCHANGED <<doc, queue, request, faults, received>>
    BY DEF StartTick, Runnable
<1> HIDE DEF batch
<1>4. request[Worker] = NoRequest
    BY <1>3 DEF IInv, Ticking, NoTick
<1>5. Ticking'
    BY <1>1, <1>2, <1>3, <1>4 DEF Ticking
<1>6. \A i \in Jobs, r \in Recipients : r \in Ahead(i)' => doc[i].to[r].status = "PENDING"
    BY <1>1, <1>3 DEF Ahead
<1> QED BY <1>3, <1>4, <1>5, <1>6, TickMoves

LEMMA GoesStep ==
    ASSUME IInv, Goes
    PROVE  IInv'
<1> DEFINE left == DOMAIN tick.todo \ Next1
<1>1. /\ tick.at = "storing" /\ request[Worker] = NoRequest
      /\ UNCHANGED <<doc, queue, request, faults, received>>
      /\ tick' = [tick EXCEPT !.todo = [r \in left |-> tick.todo[r]],
                             !.at = IF left = {} THEN "ending" ELSE "sending"]
    BY DEF Goes
<1>2. /\ tick = [at |-> tick.at, job |-> tick.job, todo |-> tick.todo]
      /\ tick.job \in Jobs /\ doc[tick.job].status \notin {"NONE", "PREPARED"}
      /\ DOMAIN tick.todo \subseteq Recipients
      /\ \A r \in DOMAIN tick.todo : tick.todo[r] \in Nat /\ tick.todo[r] < MaxAttempts
    BY <1>1 DEF IInv, Ticking, NoTick
<1> HIDE DEF left
<1>3. /\ tick' = [at |-> tick'.at, job |-> tick'.job, todo |-> tick'.todo]
      /\ tick'.at = (IF left = {} THEN "ending" ELSE "sending") /\ tick'.job = tick.job
      /\ tick'.todo = [r \in left |-> tick.todo[r]]
    BY <1>1, <1>2
<1>4. Ticking'
    BY <1>1, <1>2, <1>3 DEF Ticking, left
<1>5. \A j \in Jobs : Ahead(j)' \subseteq Ahead(j)
    BY <1>1, <1>3 DEF Ahead, left
<1> QED BY <1>1, <1>4, <1>5, TickMoves

LEMMA EndTickStep ==
    ASSUME IInv, EndTick
    PROVE  IInv'
<1>1. Ticking' /\ \A j \in Jobs : Ahead(j)' = {}
    BY DEF EndTick, Ticking, Ahead, NoTick
<1> QED BY <1>1, TickMoves DEF EndTick

LEMMA BackOffStep ==
    ASSUME IInv, BackOff
    PROVE  IInv'
<1> DEFINE q == [op |-> "backoff", job |-> tick.job, arg |-> {}]
<1>1. /\ tick.at = "limiting" /\ request[Worker] = NoRequest
      /\ request' = [request EXCEPT ![Worker] = q] /\ queue' = Append(queue, Worker)
      /\ tick' = [tick EXCEPT !.at = "last"] /\ UNCHANGED <<doc, faults, received>>
    BY DEF BackOff, Asks
<1>2. /\ tick = [at |-> tick.at, job |-> tick.job, todo |-> tick.todo] /\ tick.job \in Jobs
    BY <1>1 DEF IInv, Ticking, NoTick
<1>3. q \in EndRequest /\ q.op = "backoff" /\ q.job = tick.job
    BY <1>2 DEF EndRequest
<1> HIDE DEF q
<1>4. /\ Types' /\ Queued' /\ PreparesAlone' /\ RetriesWait' /\ NobodyIsLeftWaiting'
      /\ request'[Worker] = q /\ \A j, r : ~ Answers(j, r)
    BY <1>1, <1>3, WorkerAsksKeeps DEF IInv, Types
<1>5. tick' = [at |-> "last", job |-> tick.job, todo |-> tick.todo]
    BY <1>1, <1>2
<1>6. Ticking'
    BY <1>1, <1>3, <1>4, <1>5 DEF IInv, Ticking, NoTick
<1>7. \A j \in Jobs, r \in Recipients : ~ Answers(j, r)' /\ r \notin Ahead(j)'
    BY <1>3, <1>4, <1>5 DEF Answers, Ahead
<1>8. BatchIsOpen' /\ OutcomesAreRight' /\ FinalizesWait'
    BY <1>3, <1>4, <1>7 DEF BatchIsOpen, OutcomesAreRight, FinalizesWait
<1>9. MessagesAreCounted'
    BY <1>1, <1>4, <1>7 DEF IInv, MessagesAreCounted, Hidden
<1> QED BY <1>4, <1>6, <1>8, <1>9 DEF IInv

LEMMA FinalizeStep ==
    ASSUME IInv, Finalize
    PROVE  IInv'
<1> USE WorkerIsNoAdmin
<1> PICK j : j = tick.job
    OBVIOUS
<1>1. /\ tick.at = "ending" /\ UNCHANGED <<doc, faults, received>>
    BY DEF Finalize
<1>2. /\ tick = [at |-> tick.at, job |-> j, todo |-> tick.todo] /\ j \in Jobs
      /\ doc[j].status \notin {"NONE", "PREPARED"} /\ request[Worker] = NoRequest
      /\ DOMAIN tick.todo \subseteq Recipients
      /\ \A r \in DOMAIN tick.todo : tick.todo[r] \in Nat /\ tick.todo[r] < MaxAttempts
    BY <1>1 DEF IInv, Ticking, NoTick
<1>3. CASE tick' = NoTick /\ UNCHANGED <<queue, request>>
    <2>1. Ticking' /\ \A i \in Jobs : Ahead(i)' = {}
        BY <1>2, <1>3 DEF Ticking, Ahead, NoTick
    <2> QED BY <1>1, <1>2, <1>3, <2>1, TickMoves
<1>4. CASE /\ doc[j].status = "RUNNING" /\ With(doc[j], "PENDING") = {}
           /\ Asks(Worker, "finalize", j, Outcome(doc[j]))
           /\ tick' = [tick EXCEPT !.at = "last"]
    <2> DEFINE q == [op |-> "finalize", job |-> j, arg |-> Outcome(doc[j])]
    <2>1. q \in EndRequest /\ q.op = "finalize" /\ q.job = j
        BY <1>2 DEF EndRequest, Outcome
    <2>2. request' = [request EXCEPT ![Worker] = q] /\ queue' = Append(queue, Worker)
        BY <1>4 DEF Asks
    <2> HIDE DEF q
    <2>3. /\ Types' /\ Queued' /\ PreparesAlone' /\ RetriesWait' /\ NobodyIsLeftWaiting'
          /\ request'[Worker] = q /\ \A p \in Admins : request'[p] = request[p]
          /\ \A i, r : ~ Answers(i, r)
        BY <1>1, <1>2, <2>1, <2>2, WorkerAsksKeeps DEF IInv, Types
    <2>4. tick' = [at |-> "last", job |-> j, todo |-> tick.todo]
        BY <1>2, <1>4
    <2>5. Ticking'
        BY <1>1, <1>2, <2>1, <2>3, <2>4 DEF Ticking
    <2>6. \A i \in Jobs, r \in Recipients : ~ Answers(i, r)' /\ r \notin Ahead(i)'
        BY <2>1, <2>3, <2>4 DEF Answers, Ahead
    <2>7. BatchIsOpen' /\ OutcomesAreRight'
        BY <2>1, <2>3, <2>6 DEF BatchIsOpen, OutcomesAreRight
    <2>8. MessagesAreCounted'
        BY <1>1, <2>3, <2>6 DEF IInv, MessagesAreCounted, Hidden
    <2>9. FinalizesWait'
        <3>1. With(doc[j], "PENDING")' = {}
            BY <1>1, <1>4 DEF With
        <3>2. \A p \in Admins :
                request[p].op = "retry" /\ request[p].job = j => With(doc[j], "FAILED") = {}
            BY <1>4 DEF IInv, RetriesWait
        <3> QED BY <1>1, <2>1, <2>3, <3>1, <3>2 DEF FinalizesWait, With
    <2> QED BY <2>3, <2>5, <2>7, <2>8, <2>9 DEF IInv
<1> QED BY <1>3, <1>4 DEF Finalize

LEMMA FaultyCounts ==
    ASSUME faults \in [Kinds -> Nat], NEW kind \in Kinds, Faulty(kind)
    PROVE  /\ faults' \in [Kinds -> Nat] /\ Hidden \in Nat
           /\ Hidden' = IF kind \in {"crash", "write", "lost"} THEN Hidden + 1 ELSE Hidden
BY DEF Faulty, Kinds, Hidden

\* What the next recipient's answer makes of it.
LEMMA AttemptShape ==
    ASSUME NEW r \in DOMAIN tick.todo, tick.todo[r] \in Nat, tick.todo[r] < MaxAttempts,
           NEW answer \in {"taken", "refused", "limited", "lost"}
    PROVE  /\ Attempt(r, answer) \in Recipient /\ Untried(Attempt(r, answer))
           /\ Attempt(r, answer).status \in {"PENDING", "SENT", "FAILED"}
           /\ Attempt(r, answer).status = "SENT" => answer = "taken"
<1> PICK n : n = tick.todo[r]
    OBVIOUS
<1>1. n \in Nat /\ n < MaxAttempts /\ MaxAttempts \in Nat
    BY BroadcastAssumption
<1>2. n \in 0 .. MaxAttempts /\ n + 1 \in 0 .. MaxAttempts
    BY <1>1
<1> PICK waiting : waiting = [status |-> "PENDING", attempts |-> n + 1, later |-> TRUE]
    OBVIOUS
<1>3. waiting \in Recipient /\ waiting.status = "PENDING" /\ waiting.attempts = n + 1
    BY <1>2 DEF Recipient, RecipientStatus
<1>4. CASE answer = "taken"
    <2>1. Attempt(r, answer) = [status |-> "SENT", attempts |-> n + 1, later |-> FALSE]
        BY <1>4 DEF Attempt
    <2>2. Attempt(r, answer) \in Recipient
        BY <1>1, <2>1 DEF Recipient, RecipientStatus
    <2>3. Attempt(r, answer).status = "SENT"
        BY <2>1
    <2> QED BY <1>4, <2>2, <2>3 DEF Untried
<1>5. CASE answer = "limited"
    <2>1. Attempt(r, answer) = [waiting EXCEPT !.attempts = n]
        BY <1>5 DEF Attempt
    <2>2. Attempt(r, answer) \in Recipient /\ Attempt(r, answer).status = "PENDING"
          /\ Attempt(r, answer).attempts = n
        BY <1>2, <1>3, <2>1 DEF Recipient
    <2> QED BY <1>1, <2>2 DEF Untried
<1>6. CASE answer \in {"refused", "lost"}
    <2>1. Attempt(r, answer) =
            IF n + 1 < MaxAttempts THEN waiting
            ELSE [waiting EXCEPT !.status = "FAILED", !.later = FALSE]
        BY <1>6 DEF Attempt
    <2>2. CASE n + 1 < MaxAttempts
        BY <1>3, <2>1, <2>2 DEF Untried
    <2>3. CASE ~ (n + 1 < MaxAttempts)
        <3>1. Attempt(r, answer) \in Recipient /\ Attempt(r, answer).status = "FAILED"
            BY <1>3, <2>1, <2>3 DEF Recipient, RecipientStatus
        <3> QED BY <3>1 DEF Untried
    <2> QED BY <2>2, <2>3
<1> QED BY <1>4, <1>5, <1>6

LEMMA SendStep ==
    ASSUME IInv, NEW r \in Recipients, Send(r)
    PROVE  IInv'
<1> USE WorkerIsNoAdmin
<1> PICK j : j = tick.job
    OBVIOUS
<1>1. /\ tick.at = "sending" /\ r \in Next1 /\ queue' = Append(queue, Worker) /\ UNCHANGED doc
    BY DEF Send
<1>2. /\ tick = [at |-> tick.at, job |-> j, todo |-> tick.todo] /\ j \in Jobs
      /\ doc[j].status \notin {"NONE", "PREPARED"} /\ request[Worker] = NoRequest
      /\ DOMAIN tick.todo \subseteq Recipients
      /\ \A s \in DOMAIN tick.todo : tick.todo[s] \in Nat /\ tick.todo[s] < MaxAttempts
    BY <1>1 DEF IInv, Ticking, NoTick
<1>3. r \in DOMAIN tick.todo
    BY <1>1 DEF Next1, First
<1>4. PICK answer \in {"taken", "refused", "limited", "lost"}, arrives \in BOOLEAN :
        /\ answer = "taken" => arrives
        /\ arrives => answer \in {"taken", "lost"}
        /\ IF answer = "taken" THEN UNCHANGED faults ELSE Faulty(answer)
        /\ received' = [received EXCEPT ![j][r] = IF arrives THEN @ + 1 ELSE @]
        /\ request' = [request EXCEPT ![Worker] =
                [op |-> "answer", job |-> j, arg |-> r, outcome |-> Attempt(r, answer)]]
        /\ tick' = [tick EXCEPT !.at = IF answer = "limited" THEN "limiting" ELSE "storing"]
    BY DEF Send
<1> DEFINE o == Attempt(r, answer)
<1> DEFINE q == [op |-> "answer", job |-> j, arg |-> r, outcome |-> o]
<1>5. /\ o \in Recipient /\ Untried(o) /\ o.status \in {"PENDING", "SENT", "FAILED"}
      /\ o.status = "SENT" => answer = "taken"
    BY <1>2, <1>3, AttemptShape
<1> HIDE DEF o
<1>6. /\ q \in AnswerRequest /\ q.op = "answer" /\ q.job = j /\ q.arg = r /\ q.outcome = o
    BY <1>2, <1>5 DEF AnswerRequest
<1>7. request' = [request EXCEPT ![Worker] = q]
    BY <1>4 DEF o
<1> HIDE DEF q
<1>8. /\ faults' \in [Kinds -> Nat] /\ Hidden \in Nat /\ Hidden' \in Nat /\ Hidden <= Hidden'
      /\ answer = "lost" => Hidden' = Hidden + 1
    <2>1. faults \in [Kinds -> Nat]
        BY DEF IInv, Types
    <2>2. CASE answer = "taken"
        BY <1>4, <2>1, <2>2 DEF Hidden, Kinds
    <2>3. CASE answer # "taken"
        BY <1>4, <2>1, <2>3, FaultyCounts DEF Kinds
    <2> QED BY <2>2, <2>3
<1>9. received \in [Jobs -> [Recipients -> Nat]]
    BY DEF IInv, Types
<1>10. /\ received' \in [Jobs -> [Recipients -> Nat]]
       /\ received'[j][r] = IF arrives THEN received[j][r] + 1 ELSE received[j][r]
       /\ \A i \in Jobs, s \in Recipients : <<i, s>> # <<j, r>> => received'[i][s] = received[i][s]
    BY <1>2, <1>4, <1>9
<1>11. /\ Types' /\ Queued' /\ PreparesAlone' /\ RetriesWait' /\ NobodyIsLeftWaiting'
       /\ request'[Worker] = q /\ \A i, s : ~ Answers(i, s)
    BY <1>1, <1>2, <1>6, <1>7, <1>8, <1>10, WorkerAsksKeeps
<1>12. tick' = [at |-> IF answer = "limited" THEN "limiting" ELSE "storing", job |-> j,
                todo |-> tick.todo]
    BY <1>2, <1>4
<1>13. Ticking'
    BY <1>1, <1>2, <1>6, <1>11, <1>12 DEF Ticking
<1>14. \A i \in Jobs : Ahead(i)' \subseteq Ahead(i) /\ r \notin Ahead(j)' /\ r \in Ahead(j)
    BY <1>1, <1>2, <1>3, <1>12 DEF Ahead, Next1
<1>15. \A i \in Jobs, s \in Recipients : Answers(i, s)' <=> i = j /\ s = r
    BY <1>6, <1>11 DEF Answers
<1>16. BatchIsOpen'
    BY <1>1, <1>2, <1>14, <1>15 DEF IInv, BatchIsOpen
<1>17. received[j][r] <= Hidden
    BY <1>2, <1>14 DEF IInv, MessagesAreCounted
<1>18. OutcomesAreRight'
    BY <1>4, <1>5, <1>6, <1>9, <1>10, <1>11, <1>2 DEF OutcomesAreRight
<1>19. MessagesAreCounted'
    <2> SUFFICES ASSUME NEW i \in Jobs, NEW s \in Recipients
                 PROVE  /\ received'[i][s] <= 1 + Hidden'
                        /\ doc[i].to[s].status = "SENT" => received'[i][s] > 0
                        /\ \/ s \in Ahead(i)'
                           \/ /\ doc[i].to[s].status \notin {"SENT", "SKIPPED"}
                              /\ ~ (Answers(i, s)' /\ request'[Worker].outcome.status = "SENT")
                           => received'[i][s] <= Hidden'
        BY <1>1 DEF MessagesAreCounted
    <2>1. received[i][s] \in Nat /\ received'[i][s] \in Nat
        BY <1>9, <1>10
    <2>2. CASE i = j /\ s = r
        <3>1. doc[i].to[s].status # "SENT"
            BY <1>14, <2>2 DEF IInv, BatchIsOpen
        <3>2. CASE answer = "taken"
            <4>1. o.status = "SENT"
                BY <3>2 DEF o, Attempt
            <4> QED BY <1>2, <1>4, <1>6, <1>8, <1>10, <1>11, <1>14, <1>15, <1>17, <2>1, <2>2,
                       <3>1, <3>2, <4>1
        <3>3. CASE answer = "lost"
            BY <1>4, <1>8, <1>10, <1>17, <2>1, <2>2, <3>1, <3>3
        <3>4. CASE answer \notin {"taken", "lost"}
            BY <1>4, <1>8, <1>10, <1>17, <2>1, <2>2, <3>1, <3>4
        <3> QED BY <3>2, <3>3, <3>4
    <2>3. CASE ~ (i = j /\ s = r)
        <3>1. /\ received[i][s] <= 1 + Hidden
              /\ doc[i].to[s].status = "SENT" => received[i][s] > 0
              /\ s \in Ahead(i) \/ doc[i].to[s].status \notin {"SENT", "SKIPPED"}
                    => received[i][s] <= Hidden
            BY <1>11 DEF IInv, MessagesAreCounted
        <3>2. received'[i][s] = received[i][s]
            BY <1>10, <2>3
        <3> QED BY <1>8, <1>14, <2>1, <3>1, <3>2
    <2> QED BY <2>2, <2>3
<1>20. FinalizesWait'
    BY <1>6, <1>11 DEF FinalizesWait
<1> QED BY <1>11, <1>13, <1>16, <1>18, <1>19, <1>20 DEF IInv

-----------------------------------------------------------------------------
(* The process dies, times pass *)

LEMMA CrashStep ==
    ASSUME IInv, Crash
    PROVE  IInv'
<1> USE WorkerIsNoAdmin
<1>1. /\ Faulty("crash") /\ queue' = <<>> /\ tick' = NoTick /\ UNCHANGED <<doc, received>>
      /\ request' = [c \in Callers |-> NoRequest]
    BY DEF Crash, IInv, Types
<1>2. \A c \in Callers : request'[c] = NoRequest /\ request'[c].op = "none"
    BY <1>1 DEF NoRequest
<1>3. faults' \in [Kinds -> Nat] /\ Hidden \in Nat /\ Hidden' = Hidden + 1
    BY <1>1, FaultyCounts DEF IInv, Types, Kinds
<1>4. Types'
    BY <1>1, <1>2, <1>3 DEF IInv, Types
<1>5. Queued'
    BY <1>1, <1>2, EmptySeq DEF Queued
<1>6. Ticking'
    BY <1>1, <1>2 DEF Ticking
<1>7. \A j, r : ~ Answers(j, r)' /\ r \notin Ahead(j)'
    BY <1>1, <1>2 DEF Answers, Ahead, NoTick
<1>8. BatchIsOpen' /\ OutcomesAreRight' /\ FinalizesWait' /\ PreparesAlone' /\ RetriesWait'
    BY <1>2, <1>7 DEF BatchIsOpen, OutcomesAreRight, FinalizesWait, PreparesAlone, RetriesWait
<1>9. MessagesAreCounted'
    <2> SUFFICES ASSUME NEW j \in Jobs, NEW r \in Recipients
                 PROVE  /\ received[j][r] <= Hidden'
                        /\ doc[j].to[r].status = "SENT" => received[j][r] > 0
        BY <1>1, <1>3 DEF MessagesAreCounted, IInv, Types
    <2> QED BY <1>3 DEF IInv, MessagesAreCounted
<1>10. NobodyIsLeftWaiting'
    BY <1>1 DEF IInv, NobodyIsLeftWaiting, With
<1> QED BY <1>4, <1>5, <1>6, <1>8, <1>9, <1>10 DEF IInv

LEMMA BackoffElapsesStep ==
    ASSUME IInv, NEW j \in Jobs, BackoffElapses(j)
    PROVE  IInv'
<1> PICK to : to = [r \in Recipients |-> [doc[j].to[r] EXCEPT !.later = FALSE]]
    OBVIOUS
<1>1. /\ doc' = [doc EXCEPT ![j].later = FALSE, ![j].to = to]
      /\ UNCHANGED <<queue, request, tick, faults, received>>
    BY DEF BackoffElapses
<1>2. doc \in [Jobs -> Job] /\ doc[j] \in Job /\ doc[j].to \in [Recipients -> Recipient]
    BY DEF IInv, Types, Job
<1>3. /\ to \in [Recipients -> Recipient]
      /\ \A r \in Recipients : /\ to[r].status = doc[j].to[r].status
                              /\ to[r].attempts = doc[j].to[r].attempts
    BY <1>2 DEF Recipient
<1>4. /\ doc' \in [Jobs -> Job]
      /\ doc'[j].status = doc[j].status /\ doc'[j].retries = doc[j].retries /\ doc'[j].to = to
      /\ \A i \in Jobs : i # j => doc'[i] = doc[i]
    BY <1>1, <1>2, <1>3 DEF Job
<1>5. \A i \in Jobs :
        /\ doc'[i].status = doc[i].status /\ doc'[i].retries = doc[i].retries
        /\ \A r \in Recipients : /\ doc'[i].to[r].status = doc[i].to[r].status
                                /\ doc'[i].to[r].attempts = doc[i].to[r].attempts
    BY <1>3, <1>4
<1>6. \A i \in Jobs, s \in {"PENDING", "FAILED"} : With(doc'[i], s) = With(doc[i], s)
    BY <1>5 DEF With
<1>7. Types'
    <2>1. \A i \in Jobs : JobShape(doc'[i])
        <3> TAKE i \in Jobs
        <3>1. JobShape(doc[i]) /\ doc'[i].status = doc[i].status
            BY <1>5 DEF IInv, Types
        <3>2. \A r \in Recipients : /\ doc'[i].to[r].status = doc[i].to[r].status
                                 /\ doc'[i].to[r].attempts = doc[i].to[r].attempts
            BY <1>5
        <3> QED BY <3>1, <3>2 DEF JobShape, Untried
    <2> QED BY <1>1, <1>4, <2>1 DEF IInv, Types
<1>8. Queued'
    BY <1>1 DEF IInv, Queued
<1>9. Ticking'
    BY <1>1, <1>5 DEF IInv, Ticking
<1>10. \A i, r : (Answers(i, r)' <=> Answers(i, r)) /\ Ahead(i)' = Ahead(i)
    BY <1>1 DEF Answers, Ahead, Next1, First
<1>11. BatchIsOpen'
    BY <1>5, <1>10 DEF IInv, BatchIsOpen
<1>12. OutcomesAreRight' /\ MessagesAreCounted'
    <2>1. OutcomesAreRight'
        BY <1>1 DEF IInv, OutcomesAreRight
    <2>2. MessagesAreCounted'
        <3> SUFFICES ASSUME NEW i \in Jobs, NEW r \in Recipients
                     PROVE  /\ received[i][r] <= 1 + Hidden
                            /\ doc'[i].to[r].status = "SENT" => received[i][r] > 0
                            /\ \/ r \in Ahead(i)
                               \/ /\ doc'[i].to[r].status \notin {"SENT", "SKIPPED"}
                                  /\ ~ (Answers(i, r) /\ request[Worker].outcome.status = "SENT")
                               => received[i][r] <= Hidden
            BY <1>1, <1>10 DEF MessagesAreCounted, Hidden
        <3>1. doc'[i].to[r].status = doc[i].to[r].status
            BY <1>5
        <3> QED BY <3>1 DEF IInv, MessagesAreCounted
    <2> QED BY <2>1, <2>2
<1>13. PreparesAlone'
    <2>1. \A p \in Admins : request[p].op # "none" =>
            request[p].job \in Jobs /\ doc'[request[p].job].status = doc[request[p].job].status
        BY <1>5, RequestShapes DEF IInv
    <2> QED BY <1>1, <2>1 DEF IInv, PreparesAlone
<1>14. NobodyIsLeftWaiting'
    BY <1>5, <1>6 DEF IInv, NobodyIsLeftWaiting
<1>15. \A c, d : Before(c, d)' <=> Before(c, d)
    BY <1>1 DEF Before
<1>16. RetriesWait'
    <2> SUFFICES ASSUME NEW p \in Admins, NEW i, request[p].op = "retry", request[p].job = i
                 PROVE  /\ \/ doc'[i].status # "RUNNING" /\ doc'[i].retries < MaxManualRetries
                           \/ With(doc'[i], "FAILED") = {}
                        /\ \A r \in Recipients :
                            Answers(i, r)' /\ Before(Worker, p)' => doc'[i].to[r].status # "PENDING"
        BY <1>1 DEF RetriesWait, Answers
    <2>1. i \in Jobs
        BY RequestShapes DEF IInv
    <2>2. /\ \/ doc[i].status # "RUNNING" /\ doc[i].retries < MaxManualRetries
             \/ With(doc[i], "FAILED") = {}
          /\ \A r \in Recipients :
                Answers(i, r) /\ Before(Worker, p) => doc[i].to[r].status # "PENDING"
        BY DEF IInv, RetriesWait
    <2>3. \A r \in Recipients :
            Answers(i, r)' /\ Before(Worker, p)' => doc'[i].to[r].status # "PENDING"
        BY <1>5, <1>10, <1>15, <2>1, <2>2
    <2> QED BY <1>5, <1>6, <2>1, <2>2, <2>3
<1>17. FinalizesWait'
    BY <1>1, <1>5, <1>6, <1>15, RequestShapes DEF IInv, FinalizesWait
<1> QED BY <1>7, <1>8, <1>9, <1>11, <1>12, <1>13, <1>14, <1>16, <1>17 DEF IInv

-----------------------------------------------------------------------------
(* The first transaction runs *)

\* What a transaction of c may make of job j for the others to go on.
Fits(c, j, N) ==
    /\ N \in Job /\ JobShape(N) /\ N.status # "NONE"
    /\ tick # NoTick /\ tick.job = j => N.status # "PREPARED"
    /\ N.status \in Over => With(N, "PENDING") = {}
    /\ \A r \in Recipients :
        /\ r \in Ahead(j) \/ (c # Worker /\ Answers(j, r)) => N.to[r].status \in {"PENDING", "SKIPPED"}
        /\ N.to[r].status = "SENT" => received[j][r] > 0
        /\ N.to[r].status \in {"NONE", "PENDING", "FAILED"} =>
            \/ received[j][r] <= Hidden
            \/ c # Worker /\ Answers(j, r) /\ request[Worker].outcome.status = "SENT"
    /\ \A p \in Admins : p # c /\ request[p].op = "prepare" => request[p].job # j
    /\ \A p \in Admins : p # c /\ request[p].op = "retry" /\ request[p].job = j =>
        /\ \/ N.status # "RUNNING" /\ N.retries < MaxManualRetries
           \/ With(N, "FAILED") = {}
        /\ \A r \in Recipients :
            c # Worker /\ Answers(j, r) /\ Before(Worker, p) => N.to[r].status # "PENDING"
    /\ c # Worker /\ request[Worker].op = "finalize" /\ request[Worker].job = j =>
        /\ N.status = "RUNNING" => With(N, "PENDING") = {}
        /\ \A p \in Admins :
            p # c /\ request[p].op = "retry" /\ request[p].job = j /\ Before(p, Worker) =>
                With(N, "FAILED") = {}

\* Who is served asks for nothing any more; the others still do.
LEMMA ServeRequests ==
    ASSUME IInv, queue # <<>>, UNCHANGED tick,
           request' = [request EXCEPT ![Head(queue)] = NoRequest], queue' = Tail(queue),
           faults' \in [Kinds -> Nat], doc' \in [Jobs -> Job], UNCHANGED received,
           \A j \in Jobs : JobShape(doc'[j])
    PROVE  /\ Types' /\ Queued' /\ OutcomesAreRight'
           /\ Head(queue) \in Callers /\ request[Head(queue)] # NoRequest
           /\ \A d, e \in Callers : Before(d, e)' => Before(d, e)
           /\ \A d \in Callers : d # Head(queue) /\ request[d] # NoRequest => Before(Head(queue), d)
           /\ \A d \in Callers : IF d = Head(queue) THEN request'[d].op = "none"
                                ELSE request'[d] = request[d]
           /\ \A j, r : Answers(j, r)' <=> Head(queue) # Worker /\ Answers(j, r)
           /\ \A j : Ahead(j)' = Ahead(j)
<1> USE WorkerIsNoAdmin
<1>1. DOMAIN request = Callers
    BY DEF IInv, Types
<1>2. /\ Head(queue) \in Callers /\ request[Head(queue)] # NoRequest /\ Queued'
      /\ \A d, e \in Callers : Before(d, e)' => Before(d, e)
      /\ \A d \in Callers : d # Head(queue) /\ request[d] # NoRequest => Before(Head(queue), d)
    BY <1>1, ServeQueues DEF IInv
<1>3. \A d \in Callers : IF d = Head(queue) THEN request'[d] = NoRequest ELSE request'[d] = request[d]
    BY <1>1, <1>2
<1>4. NoRequest.op = "none"
    BY DEF NoRequest
<1>5. Types'
    BY <1>1, <1>2, <1>3 DEF IInv, Types
<1>6. OutcomesAreRight'
    BY <1>3, <1>4 DEF IInv, OutcomesAreRight
<1>7. \A j, r : Answers(j, r)' <=> Head(queue) # Worker /\ Answers(j, r)
    BY <1>3, <1>4 DEF Answers
<1>8. \A j : Ahead(j)' = Ahead(j)
    BY DEF Ahead, Next1, First
<1> QED BY <1>2, <1>3, <1>4, <1>5, <1>6, <1>7, <1>8

LEMMA ServeStep ==
    ASSUME IInv, queue # <<>>, NEW c, c = Head(queue), NEW j \in Jobs, j = request[c].job, NEW N,
           Fits(c, j, N), doc' = [doc EXCEPT ![j] = N],
           request' = [request EXCEPT ![c] = NoRequest], queue' = Tail(queue),
           UNCHANGED <<tick, faults, received>>
    PROVE  IInv'
<1> USE WorkerIsNoAdmin
<1>1. /\ doc' \in [Jobs -> Job] /\ \A i \in Jobs : JobShape(doc'[i])
      /\ doc'[j] = N /\ \A i \in Jobs : i # j => doc'[i] = doc[i]
    BY DEF IInv, Types, Fits
<1>2. faults' \in [Kinds -> Nat]
    BY DEF IInv, Types
<1>3. /\ Types' /\ Queued' /\ OutcomesAreRight'
      /\ c \in Callers /\ request[c] # NoRequest
      /\ \A d, e \in Callers : Before(d, e)' => Before(d, e)
      /\ \A d \in Callers : d # c /\ request[d] # NoRequest => Before(c, d)
      /\ \A d \in Callers : IF d = c THEN request'[d].op = "none" ELSE request'[d] = request[d]
      /\ \A i, r : Answers(i, r)' <=> c # Worker /\ Answers(i, r)
      /\ \A i : Ahead(i)' = Ahead(i)
    BY <1>1, <1>2, ServeRequests
<1>4. \A i \in Jobs, r \in Recipients : doc'[i].to[r].status \in RecipientStatus
    BY <1>1 DEF Job, Recipient
<1>5. Ticking'
    <2>1. CASE tick = NoTick
        <3>1. c # Worker
            BY <1>3, <2>1 DEF IInv, Ticking, NoTick
        <3> QED BY <1>3, <2>1, <3>1 DEF IInv, Ticking, NoTick
    <2>2. CASE tick # NoTick
        <3>1. /\ tick.job \in Jobs /\ doc'[tick.job].status \notin {"NONE", "PREPARED"}
            BY <1>1, <2>2 DEF IInv, Ticking, Fits
        <3>2. request'[Worker] = request[Worker] \/ request'[Worker] = NoRequest
            BY <1>3 DEF IInv, Types
        <3> QED BY <1>3, <2>2, <3>1, <3>2 DEF IInv, Ticking
    <2> QED BY <2>1, <2>2
<1>6. BatchIsOpen'
    <2> SUFFICES ASSUME NEW i \in Jobs, NEW r \in Recipients
                 PROVE  /\ (c # Worker /\ Answers(i, r)) \/ r \in Ahead(i)
                                => doc'[i].to[r].status \in {"PENDING", "SKIPPED"}
                        /\ c # Worker /\ Answers(i, r) => r \notin Ahead(i)
        BY <1>3 DEF BatchIsOpen
    <2>1. CASE i = j
        BY <1>1, <2>1 DEF Fits, IInv, BatchIsOpen
    <2>2. CASE i # j
        BY <1>1, <2>2 DEF IInv, BatchIsOpen
    <2> QED BY <2>1, <2>2
<1>7. MessagesAreCounted'
    <2> SUFFICES ASSUME NEW i \in Jobs, NEW r \in Recipients
                 PROVE  /\ received[i][r] <= 1 + Hidden
                        /\ doc'[i].to[r].status = "SENT" => received[i][r] > 0
                        /\ \/ r \in Ahead(i)
                           \/ /\ doc'[i].to[r].status \notin {"SENT", "SKIPPED"}
                              /\ ~ (c # Worker /\ Answers(i, r) /\ request[Worker].outcome.status = "SENT")
                           => received[i][r] <= Hidden
        BY <1>3 DEF MessagesAreCounted, Hidden
    <2>1. CASE i = j
        BY <1>1, <1>4, <2>1 DEF Fits, IInv, MessagesAreCounted, RecipientStatus
    <2>2. CASE i # j
        <3>1. c = Worker => ~ Answers(i, r)
            BY <2>2 DEF Answers
        <3> QED BY <1>1, <2>2, <3>1 DEF IInv, MessagesAreCounted
    <2> QED BY <2>1, <2>2
<1>8. PreparesAlone'
    <2>1. \A p \in Admins : request'[p].op # "none" =>
            p # c /\ request'[p] = request[p] /\ request[p].job \in Jobs
        BY <1>3, RequestShapes DEF IInv
    <2>2. \A p \in Admins : request'[p].op = "prepare" =>
            /\ doc'[request'[p].job].status = "NONE"
            /\ \A q \in Admins : request'[q].op = "prepare" => q = p
        BY <1>1, <2>1 DEF IInv, PreparesAlone, Fits
    <2>3. \A p \in Admins : request'[p].op \in {"confirm", "cancel", "retry"} =>
            doc'[request'[p].job].status # "NONE"
        BY <1>1, <2>1 DEF IInv, PreparesAlone, Fits
    <2> QED BY <2>2, <2>3 DEF PreparesAlone
<1>9. RetriesWait'
    <2> SUFFICES ASSUME NEW p \in Admins, NEW i, p # c, request[p].op = "retry", request[p].job = i
                 PROVE  /\ \/ doc'[i].status # "RUNNING" /\ doc'[i].retries < MaxManualRetries
                           \/ With(doc'[i], "FAILED") = {}
                        /\ \A r \in Recipients :
                            c # Worker /\ Answers(i, r) /\ Before(Worker, p)
                                => doc'[i].to[r].status # "PENDING"
        BY <1>3 DEF RetriesWait, Answers, With
    <2>1. i \in Jobs
        BY RequestShapes DEF IInv
    <2>2. CASE i = j
        BY <1>1, <2>2 DEF Fits
    <2>3. CASE i # j
        BY <1>1, <2>1, <2>3 DEF IInv, RetriesWait
    <2> QED BY <2>2, <2>3
<1>10. FinalizesWait'
    <2> SUFFICES ASSUME NEW i, c # Worker, request[Worker].op = "finalize", request[Worker].job = i
                 PROVE  /\ doc'[i].status = "RUNNING" => With(doc'[i], "PENDING") = {}
                        /\ \A p \in Admins :
                            p # c /\ request[p].op = "retry" /\ request[p].job = i /\ Before(p, Worker)
                                => With(doc'[i], "FAILED") = {}
        BY <1>3 DEF FinalizesWait, With
    <2>1. i \in Jobs
        BY RequestShapes DEF IInv
    <2>2. CASE i = j
        BY <1>1, <2>2 DEF Fits
    <2>3. CASE i # j
        BY <1>1, <2>1, <2>3 DEF IInv, FinalizesWait
    <2> QED BY <2>2, <2>3
<1>11. NobodyIsLeftWaiting'
    BY <1>1 DEF IInv, NobodyIsLeftWaiting, Fits, Over, With
<1> QED BY <1>3, <1>5, <1>6, <1>7, <1>8, <1>9, <1>10, <1>11 DEF IInv

\* What is known of whoever is served.
Served(c, j) ==
    /\ queue # <<>> /\ c = Head(queue) /\ c \in Callers /\ request[c].op # "none"
    /\ j \in Jobs /\ j = request[c].job
    /\ \A d \in Callers : d # c /\ request[d].op # "none" => Before(c, d)

\* A transaction that finds nothing to do.
LEMMA UnchangedFits ==
    ASSUME IInv, NEW c, NEW j, Served(c, j), request[c].op # "prepare",
           \A r \in Recipients : c = Worker /\ Answers(j, r) => doc[j].to[r].status # "PENDING"
    PROVE  Fits(c, j, doc[j])
<1> USE WorkerIsNoAdmin
<1>1. j \in Jobs /\ doc[j] \in Job /\ JobShape(doc[j])
    BY DEF IInv, Types, Served
<1>2. c = Worker => request[Worker].op \in {"answer", "backoff", "finalize"}
    BY RequestShapes DEF IInv, Served
<1>3. doc[j].status # "NONE"
    <2>1. CASE c = Worker
        BY <1>2, <2>1 DEF IInv, Ticking, Served, NoRequest
    <2>2. CASE c \in Admins
        BY <2>2, RequestShapes DEF IInv, PreparesAlone, Served
    <2> QED BY <2>1, <2>2 DEF Served, Callers
<1>4. tick # NoTick /\ tick.job = j => doc[j].status # "PREPARED"
    BY DEF IInv, Ticking
<1>5. doc[j].status \in Over => With(doc[j], "PENDING") = {}
    BY <1>1 DEF IInv, NobodyIsLeftWaiting, Over
<1>6. \A r \in Recipients :
        /\ r \in Ahead(j) \/ (c # Worker /\ Answers(j, r)) => doc[j].to[r].status \in {"PENDING", "SKIPPED"}
        /\ doc[j].to[r].status = "SENT" => received[j][r] > 0
        /\ doc[j].to[r].status \in {"NONE", "PENDING", "FAILED"} =>
            \/ received[j][r] <= Hidden
            \/ c # Worker /\ Answers(j, r) /\ request[Worker].outcome.status = "SENT"
    BY <1>1 DEF IInv, BatchIsOpen, MessagesAreCounted
<1>7. \A p \in Admins : request[p].op = "prepare" => request[p].job # j
    BY <1>3 DEF IInv, PreparesAlone
<1>8. \A p \in Admins : request[p].op = "retry" /\ request[p].job = j =>
        /\ \/ doc[j].status # "RUNNING" /\ doc[j].retries < MaxManualRetries
           \/ With(doc[j], "FAILED") = {}
        /\ \A r \in Recipients : Answers(j, r) /\ Before(Worker, p) => doc[j].to[r].status # "PENDING"
    BY DEF IInv, RetriesWait
<1>9. request[Worker].op = "finalize" /\ request[Worker].job = j =>
        /\ doc[j].status = "RUNNING" => With(doc[j], "PENDING") = {}
        /\ \A p \in Admins : request[p].op = "retry" /\ request[p].job = j /\ Before(p, Worker) =>
            With(doc[j], "FAILED") = {}
    BY DEF IInv, FinalizesWait
<1> QED BY <1>1, <1>3, <1>4, <1>5, <1>6, <1>7, <1>8, <1>9 DEF Fits

LEMMA FreshRecipient ==
    /\ NoRecipient \in Recipient /\ NoRecipient.status = "NONE" /\ NoRecipient.attempts = 0
    /\ [NoRecipient EXCEPT !.status = "PENDING"] \in Recipient
    /\ [NoRecipient EXCEPT !.status = "PENDING"].status = "PENDING"
    /\ [NoRecipient EXCEPT !.status = "PENDING"].attempts = 0
<1>1. MaxAttempts \in Nat /\ 0 \in 0 .. MaxAttempts
    BY BroadcastAssumption
<1>2. NoRecipient \in Recipient /\ NoRecipient.status = "NONE" /\ NoRecipient.attempts = 0
    BY <1>1 DEF NoRecipient, Recipient, RecipientStatus
<1>3. [NoRecipient EXCEPT !.status = "PENDING"] \in Recipient
    BY <1>2 DEF Recipient, RecipientStatus
<1>4. /\ [NoRecipient EXCEPT !.status = "PENDING"].status = "PENDING"
      /\ [NoRecipient EXCEPT !.status = "PENDING"].attempts = 0
    BY <1>2 DEF Recipient
<1> QED BY <1>2, <1>3, <1>4

LEMMA PrepareFits ==
    ASSUME IInv, NEW c, NEW j, Served(c, j), request[c].op = "prepare"
    PROVE  Fits(c, j, Prepared(request[c].arg))
<1> USE WorkerIsNoAdmin
<1>1. c \in Admins
    BY RequestShapes DEF IInv, Served, Callers
<1> PICK S : S = request[c].arg
    OBVIOUS
<1>2. S \subseteq Recipients /\ doc[j].status = "NONE" /\ j \in Jobs
    BY <1>1, RequestShapes DEF IInv, PreparesAlone, Served
<1> PICK N : N = Prepared(S)
    OBVIOUS
<1>3. /\ NoRecipient \in Recipient /\ NoRecipient.status = "NONE"
      /\ [NoRecipient EXCEPT !.status = "PENDING"] \in Recipient
      /\ [NoRecipient EXCEPT !.status = "PENDING"].status = "PENDING"
      /\ [NoRecipient EXCEPT !.status = "PENDING"].attempts = 0
    BY FreshRecipient
<1>4. NoJob \in Job
    BY <1>3, BroadcastAssumption DEF NoJob, Job, JobStatus
<1>5. /\ N \in Job /\ N.status = "PREPARED"
      /\ \A r \in Recipients :
            N.to[r] = IF r \in S THEN [NoRecipient EXCEPT !.status = "PENDING"] ELSE NoRecipient
    BY <1>3, <1>4 DEF Prepared, Job, JobStatus
<1>6. \A r \in Recipients : /\ N.to[r].status \in {"NONE", "PENDING"} /\ Untried(N.to[r])
    BY <1>3, <1>5, BroadcastAssumption DEF Untried
<1>7. JobShape(N)
    BY <1>5, <1>6 DEF JobShape
<1>8. ~ (tick # NoTick /\ tick.job = j) /\ \A r : ~ Answers(j, r) /\ r \notin Ahead(j)
    BY <1>2 DEF IInv, Ticking, Answers, Ahead, NoTick, NoRequest
<1>9. \A r \in Recipients : received[j][r] <= Hidden
    BY <1>2, <1>8 DEF IInv, Types, JobShape, MessagesAreCounted
<1>10. \A p \in Admins : p # c /\ request[p].op \in {"prepare", "retry"} => request[p].job # j
    BY <1>1, <1>2 DEF IInv, PreparesAlone
<1>11. request[Worker].op = "finalize" => request[Worker].job # j
    BY <1>2 DEF IInv, Ticking, NoRequest
<1> QED BY <1>5, <1>6, <1>7, <1>8, <1>9, <1>10, <1>11 DEF Fits, Over

LEMMA ConfirmFits ==
    ASSUME IInv, NEW c, NEW j, Served(c, j), request[c].op = "confirm"
    PROVE  Fits(c, j, Confirmed(doc[j]))
<1> USE WorkerIsNoAdmin
<1>1. c \in Admins /\ c # Worker
    BY RequestShapes DEF IInv, Served, Callers
<1>2. CASE doc[j].status # "PREPARED"
    BY <1>1, <1>2, UnchangedFits DEF Confirmed
<1>3. CASE doc[j].status = "PREPARED"
    <2> PICK N : N = [doc[j] EXCEPT !.status = "RUNNING"]
        OBVIOUS
    <2>1. j \in Jobs /\ doc[j] \in Job /\ JobShape(doc[j])
        BY DEF IInv, Types, Served
    <2>2. N \in Job /\ N.status = "RUNNING" /\ N.to = doc[j].to
        BY <2>1 DEF Job, JobStatus
    <2>3. \A r \in Recipients : N.to[r].status \in {"NONE", "PENDING"}
        BY <1>3, <2>1, <2>2 DEF JobShape
    <2>4. JobShape(N)
        BY <2>1, <2>2 DEF JobShape
    <2>5. ~ (tick # NoTick /\ tick.job = j) /\ \A r : ~ Answers(j, r) /\ r \notin Ahead(j)
        BY <1>3 DEF IInv, Ticking, Answers, Ahead, NoTick, NoRequest
    <2>6. \A r \in Recipients : received[j][r] <= Hidden
        BY <2>1, <2>2, <2>3, <2>5 DEF IInv, MessagesAreCounted
    <2>7. \A p \in Admins : request[p].op = "prepare" => request[p].job # j
        BY <1>3 DEF IInv, PreparesAlone
    <2>8. With(N, "FAILED") = {}
        BY <2>3 DEF With
    <2>9. request[Worker].op = "finalize" => request[Worker].job # j
        BY <1>3 DEF IInv, Ticking, NoRequest
    <2>10. Fits(c, j, N)
        BY <2>2, <2>3, <2>4, <2>5, <2>6, <2>7, <2>8, <2>9 DEF Fits, Over
    <2> QED BY <1>3, <2>10 DEF Confirmed
<1> QED BY <1>2, <1>3

LEMMA CancelFits ==
    ASSUME IInv, NEW c, NEW j, Served(c, j), request[c].op = "cancel"
    PROVE  Fits(c, j, Cancelled(doc[j]))
<1> USE WorkerIsNoAdmin
<1>1. c \in Admins /\ c # Worker
    BY RequestShapes DEF IInv, Served, Callers
<1>2. Fits(c, j, doc[j])
    BY <1>1, UnchangedFits
<1> PICK N : N = Cancelled(doc[j])
    OBVIOUS
<1>3. j \in Jobs /\ doc[j] \in Job /\ JobShape(doc[j]) /\ doc[j].to \in [Recipients -> Recipient]
    BY DEF IInv, Types, Served, Job
<1> PICK to : to = [r \in Recipients |->
                        IF r \in With(doc[j], "PENDING") THEN [doc[j].to[r] EXCEPT !.status = "SKIPPED"]
                        ELSE doc[j].to[r]]
    OBVIOUS
<1>4. /\ to \in [Recipients -> Recipient]
      /\ \A r \in Recipients : to[r].status = IF doc[j].to[r].status = "PENDING" THEN "SKIPPED"
                                             ELSE doc[j].to[r].status
    BY <1>3 DEF Recipient, RecipientStatus, With
<1>5. N = [doc[j] EXCEPT !.status = "CANCELLED", !.to = to]
    BY DEF Cancelled
<1>6. N \in Job /\ N.status = "CANCELLED" /\ N.to = to /\ N.retries = doc[j].retries
    BY <1>3, <1>4, <1>5 DEF Job, JobStatus
<1>7. JobShape(N)
    BY <1>4, <1>6 DEF JobShape, Untried
<1>8. With(N, "PENDING") = {} /\ With(N, "FAILED") = With(doc[j], "FAILED")
    BY <1>4, <1>6 DEF With
<1>9. \A r \in Recipients :
        /\ r \in Ahead(j) \/ (c # Worker /\ Answers(j, r)) => N.to[r].status \in {"PENDING", "SKIPPED"}
        /\ N.to[r].status = "SENT" => received[j][r] > 0
        /\ N.to[r].status \in {"NONE", "PENDING", "FAILED"} =>
            \/ received[j][r] <= Hidden
            \/ c # Worker /\ Answers(j, r) /\ request[Worker].outcome.status = "SENT"
    BY <1>2, <1>4, <1>6 DEF Fits
<1>10. \A p \in Admins : p # c /\ request[p].op = "retry" /\ request[p].job = j =>
        /\ \/ N.status # "RUNNING" /\ N.retries < MaxManualRetries
           \/ With(N, "FAILED") = {}
        /\ \A r \in Recipients : N.to[r].status # "PENDING"
    BY <1>2, <1>4, <1>6, <1>8 DEF Fits
<1>11. Fits(c, j, N)
    BY <1>2, <1>6, <1>7, <1>8, <1>9, <1>10 DEF Fits
<1> QED BY <1>11

LEMMA RetryFits ==
    ASSUME IInv, NEW c, NEW j, Served(c, j), request[c].op = "retry"
    PROVE  Fits(c, j, Retried(doc[j]))
<1> USE WorkerIsNoAdmin
<1>1. c \in Admins /\ c # Worker
    BY RequestShapes DEF IInv, Served, Callers
<1>2. Fits(c, j, doc[j])
    BY <1>1, UnchangedFits
<1>3. CASE With(doc[j], "FAILED") = {}
    BY <1>2, <1>3 DEF Retried
<1>4. CASE With(doc[j], "FAILED") # {}
    <2>1. j \in Jobs /\ doc[j] \in Job /\ JobShape(doc[j]) /\ doc[j].to \in [Recipients -> Recipient]
        BY DEF IInv, Types, Served, Job
    <2>2. doc[j].status # "RUNNING" /\ doc[j].retries < MaxManualRetries
        BY <1>1, <1>4 DEF IInv, RetriesWait, Served
    <2>3. doc[j].status \in Over
        BY <1>2, <1>4, <2>1, <2>2 DEF JobShape, With, Fits, Job, JobStatus, Over
    <2>4. With(doc[j], "PENDING") = {}
        BY <1>2, <2>3 DEF Fits
    <2> PICK to : to = [r \in Recipients |->
                            IF r \in With(doc[j], "FAILED") THEN [NoRecipient EXCEPT !.status = "PENDING"]
                            ELSE doc[j].to[r]]
        OBVIOUS
    <2>5. /\ [NoRecipient EXCEPT !.status = "PENDING"] \in Recipient
          /\ [NoRecipient EXCEPT !.status = "PENDING"].status = "PENDING"
          /\ [NoRecipient EXCEPT !.status = "PENDING"].attempts = 0
        BY FreshRecipient
    <2>6. /\ to \in [Recipients -> Recipient]
          /\ \A r \in Recipients :
                /\ to[r].status = IF doc[j].to[r].status = "FAILED" THEN "PENDING"
                                  ELSE doc[j].to[r].status
                /\ to[r].status = "PENDING" => to[r].attempts = 0
        BY <2>1, <2>4, <2>5 DEF With
    <2> PICK N : N = Retried(doc[j])
        OBVIOUS
    <2>7. N = [doc[j] EXCEPT !.status = "RUNNING", !.retries = @ + 1, !.later = FALSE, !.to = to]
        BY <1>4 DEF Retried
    <2>8. doc[j].retries + 1 \in 0 .. MaxManualRetries
        BY <2>1, <2>2, BroadcastAssumption DEF Job
    <2>9. N \in Job /\ N.status = "RUNNING" /\ N.to = to
        BY <2>1, <2>6, <2>7, <2>8 DEF Job, JobStatus
    <2>10. JobShape(N)
        BY <2>6, <2>9, BroadcastAssumption DEF JobShape, Untried
    <2>11. With(N, "FAILED") = {}
        BY <2>6, <2>9 DEF With
    <2>12. \A r \in Recipients :
            /\ r \in Ahead(j) \/ (c # Worker /\ Answers(j, r)) => N.to[r].status = "SKIPPED"
            /\ N.to[r].status = "SENT" => received[j][r] > 0
            /\ N.to[r].status \in {"NONE", "PENDING", "FAILED"} =>
                \/ received[j][r] <= Hidden
                \/ c # Worker /\ Answers(j, r) /\ request[Worker].outcome.status = "SENT"
        BY <1>2, <2>4, <2>6, <2>9 DEF Fits, With
    <2>13. \A p \in Admins : request[p].op = "prepare" => request[p].job # j
        BY <1>1, <1>2 DEF Fits, Served
    <2>14. ~ (request[Worker].op = "finalize" /\ request[Worker].job = j)
        BY <1>1, <1>4 DEF Served, IInv, FinalizesWait
    <2>15. Fits(c, j, N)
        BY <1>1, <2>9, <2>10, <2>11, <2>12, <2>13, <2>14 DEF Fits, Over
    <2> QED BY <2>15
<1> QED BY <1>3, <1>4

LEMMA AnswerFits ==
    ASSUME IInv, NEW j, Served(Worker, j), request[Worker].op = "answer"
    PROVE  Fits(Worker, j, Answered(doc[j], request[Worker].arg, request[Worker].outcome))
<1> USE WorkerIsNoAdmin
<1> PICK r, o : r = request[Worker].arg /\ o = request[Worker].outcome
    OBVIOUS
<1>1. /\ r \in Recipients /\ o \in Recipient /\ Answers(j, r)
      /\ \A s \in Recipients : Answers(j, s) => s = r
    BY RequestShapes DEF IInv, Served, Answers
<1>2. CASE doc[j].to[r].status # "PENDING"
    BY <1>1, <1>2, UnchangedFits DEF Answered
<1>3. CASE doc[j].to[r].status = "PENDING"
    <2>1. j \in Jobs /\ doc[j] \in Job /\ JobShape(doc[j]) /\ doc[j].to \in [Recipients -> Recipient]
        BY DEF IInv, Types, Served, Job
    <2>2. tick # NoTick /\ tick.job = j /\ doc[j].status \notin {"NONE", "PREPARED"}
        BY DEF IInv, Ticking, Served, NoRequest, NoTick
    <2>3. doc[j].status \notin Over
        BY <1>1, <1>3, <2>1 DEF IInv, NobodyIsLeftWaiting, Over, With
    <2>4. doc[j].status = "RUNNING"
        BY <2>1, <2>2, <2>3 DEF Job, JobStatus, Over
    <2>5. /\ o.status \in {"PENDING", "SENT", "FAILED"} /\ Untried(o)
          /\ o.status = "SENT" => received[j][r] > 0
        BY <1>1 DEF IInv, OutcomesAreRight, Answers
    <2> PICK to : to = [doc[j].to EXCEPT ![r] = o]
        OBVIOUS
    <2>6. /\ to \in [Recipients -> Recipient] /\ to[r] = o
          /\ \A s \in Recipients : s # r => to[s] = doc[j].to[s]
        BY <1>1, <2>1
    <2> PICK N : N = Answered(doc[j], r, o)
        OBVIOUS
    <2>7. N = [doc[j] EXCEPT !.to = to]
        BY <1>3 DEF Answered
    <2>8. N \in Job /\ N.status = "RUNNING" /\ N.to = to
        BY <2>1, <2>4, <2>6, <2>7 DEF Job
    <2>9. JobShape(N)
        BY <2>1, <2>5, <2>6, <2>8 DEF JobShape
    <2>10. \A s \in Recipients :
            /\ s \in Ahead(j) => N.to[s].status \in {"PENDING", "SKIPPED"}
            /\ N.to[s].status = "SENT" => received[j][s] > 0
            /\ N.to[s].status \in {"NONE", "PENDING", "FAILED"} => received[j][s] <= Hidden
        <3> TAKE s \in Recipients
        <3>1. CASE s = r
            BY <1>1, <1>3, <2>1, <2>5, <2>6, <2>8, <3>1 DEF IInv, BatchIsOpen, MessagesAreCounted, Answers
        <3>2. CASE s # r
            BY <1>1, <2>1, <2>6, <2>8, <3>2 DEF IInv, BatchIsOpen, MessagesAreCounted
        <3> QED BY <3>1, <3>2
    <2>11. \A p \in Admins : request[p].op = "prepare" => request[p].job # j
        BY <2>2 DEF IInv, PreparesAlone
    <2>12. \A p \in Admins : ~ (request[p].op = "retry" /\ request[p].job = j)
        BY <1>1, <1>3 DEF IInv, RetriesWait, Served, Callers
    <2>13. Fits(Worker, j, N)
        BY <2>8, <2>9, <2>10, <2>11, <2>12 DEF Fits, Over
    <2> QED BY <2>13
<1> QED BY <1>2, <1>3

LEMMA BackOffFits ==
    ASSUME IInv, NEW j, Served(Worker, j), request[Worker].op = "backoff"
    PROVE  Fits(Worker, j, BackedOff(doc[j]))
<1> USE WorkerIsNoAdmin
<1>1. Fits(Worker, j, doc[j])
    BY UnchangedFits DEF Answers
<1> PICK N : N = BackedOff(doc[j])
    OBVIOUS
<1>2. doc[j] \in Job
    BY DEF IInv, Types, Served
<1>3. N \in Job /\ N.status = doc[j].status /\ N.to = doc[j].to /\ N.retries = doc[j].retries
    BY <1>2 DEF BackedOff, Job
<1>4. Fits(Worker, j, N)
    BY <1>1, <1>3 DEF Fits, JobShape, With
<1> QED BY <1>4

LEMMA FinalizeFits ==
    ASSUME IInv, NEW j, Served(Worker, j), request[Worker].op = "finalize"
    PROVE  Fits(Worker, j, Finalized(doc[j], request[Worker].arg))
<1> USE WorkerIsNoAdmin
<1>1. Fits(Worker, j, doc[j])
    BY UnchangedFits DEF Answers
<1>2. CASE doc[j].status # "RUNNING"
    BY <1>1, <1>2 DEF Finalized
<1>3. CASE doc[j].status = "RUNNING"
    <2> PICK N : N = Finalized(doc[j], request[Worker].arg)
        OBVIOUS
    <2>1. doc[j] \in Job /\ request[Worker].arg \in {"COMPLETED", "FAILED"}
        BY RequestShapes DEF IInv, Types, Served
    <2>2. N \in Job /\ N.status \in {"COMPLETED", "FAILED"} /\ N.to = doc[j].to
        BY <1>3, <2>1 DEF Finalized, Job, JobStatus
    <2>3. With(N, "PENDING") = {} /\ With(N, "FAILED") = With(doc[j], "FAILED")
        BY <1>3, <2>2 DEF IInv, FinalizesWait, Served, With
    <2>4. JobShape(N)
        BY <1>1, <2>2 DEF Fits, JobShape
    <2>5. \A p \in Admins : request[p].op = "retry" /\ request[p].job = j => With(N, "FAILED") = {}
        BY <1>1, <1>3, <2>3 DEF Fits
    <2>6. Fits(Worker, j, N)
        BY <1>1, <2>2, <2>3, <2>4, <2>5 DEF Fits
    <2> QED BY <2>6
<1> QED BY <1>2, <1>3

\* What is lost with a failed write is a hidden outcome.
LEMMA FailedWrite ==
    ASSUME IInv, queue # <<>>, Faulty("write"), UNCHANGED <<doc, tick, received>>,
           request' = [request EXCEPT ![Head(queue)] = NoRequest], queue' = Tail(queue)
    PROVE  IInv'
<1> USE WorkerIsNoAdmin
<1> PICK c : c = Head(queue)
    OBVIOUS
<1>1. faults' \in [Kinds -> Nat] /\ Hidden \in Nat /\ Hidden' = Hidden + 1
    BY FaultyCounts DEF IInv, Types, Kinds
<1>2. doc' \in [Jobs -> Job] /\ \A j \in Jobs : JobShape(doc'[j])
    BY DEF IInv, Types
<1>3. /\ Types' /\ Queued' /\ OutcomesAreRight'
      /\ \A d, e \in Callers : Before(d, e)' => Before(d, e)
      /\ \A d \in Callers : IF d = c THEN request'[d].op = "none" ELSE request'[d] = request[d]
      /\ \A j, r : Answers(j, r)' <=> c # Worker /\ Answers(j, r)
      /\ \A j : Ahead(j)' = Ahead(j)
    BY <1>1, <1>2, ServeRequests
<1>4. Ticking'
    <2>1. request'[Worker] = request[Worker] \/ request'[Worker] = NoRequest
        BY <1>3 DEF IInv, Types
    <2> QED BY <2>1 DEF IInv, Ticking
<1>5. BatchIsOpen'
    BY <1>3 DEF IInv, BatchIsOpen
<1>6. MessagesAreCounted'
    <2> SUFFICES ASSUME NEW j \in Jobs, NEW r \in Recipients
                 PROVE  /\ received[j][r] <= Hidden'
                        /\ doc[j].to[r].status = "SENT" => received[j][r] > 0
        BY <1>1 DEF MessagesAreCounted, IInv, Types
    <2> QED BY <1>1 DEF IInv, MessagesAreCounted
<1>7. PreparesAlone'
    BY <1>3 DEF IInv, PreparesAlone
<1>8. RetriesWait'
    <2> SUFFICES ASSUME NEW p \in Admins, NEW j, p # c, request[p].op = "retry", request[p].job = j
                 PROVE  /\ \/ doc[j].status # "RUNNING" /\ doc[j].retries < MaxManualRetries
                           \/ With(doc[j], "FAILED") = {}
                        /\ \A r \in Recipients :
                            Answers(j, r) /\ Before(Worker, p) => doc[j].to[r].status # "PENDING"
        BY <1>3 DEF RetriesWait, Answers, With
    <2> QED BY DEF IInv, RetriesWait
<1>9. FinalizesWait'
    <2> SUFFICES ASSUME NEW j, c # Worker, request[Worker].op = "finalize", request[Worker].job = j
                 PROVE  /\ doc[j].status = "RUNNING" => With(doc[j], "PENDING") = {}
                        /\ \A p \in Admins :
                            request[p].op = "retry" /\ request[p].job = j /\ Before(p, Worker) =>
                                With(doc[j], "FAILED") = {}
        BY <1>3 DEF FinalizesWait, With
    <2> QED BY DEF IInv, FinalizesWait
<1>10. NobodyIsLeftWaiting'
    BY DEF IInv, NobodyIsLeftWaiting, With
<1> QED BY <1>3, <1>4, <1>5, <1>6, <1>7, <1>8, <1>9, <1>10 DEF IInv

LEMMA TransactStep ==
    ASSUME IInv, Transact
    PROVE  IInv'
<1> USE WorkerIsNoAdmin
<1> PICK c, q : c = Head(queue) /\ q = request[c]
    OBVIOUS
<1>1. /\ queue # <<>> /\ request' = [request EXCEPT ![c] = NoRequest] /\ queue' = Tail(queue)
      /\ UNCHANGED <<tick, received>>
      /\ \/ doc' = [doc EXCEPT ![q.job] = Result(q)] /\ UNCHANGED faults
         \/ Faulty("write") /\ UNCHANGED doc
    BY DEF Transact
<1>2. CASE Faulty("write") /\ UNCHANGED doc
    BY <1>1, <1>2, FailedWrite
<1>3. CASE doc' = [doc EXCEPT ![q.job] = Result(q)] /\ UNCHANGED faults
    <2> PICK j : j = q.job
        OBVIOUS
    <2>1. c \in Callers /\ q # NoRequest /\ \A d \in Callers :
            d # c /\ request[d] # NoRequest => Before(c, d)
        BY <1>1, ServeQueues DEF IInv, Types
    <2>2. q.op # "none" /\ j \in Jobs /\ (c \in Admins \/ c = Worker)
        BY <2>1, RequestShapes DEF IInv, Callers
    <2>3. Served(c, j)
        BY <1>1, <2>1, <2>2 DEF Served, NoRequest
    <2>4. Fits(c, j, Result(q))
        <3>1. CASE q.op = "prepare"
            BY <2>3, <3>1, PrepareFits DEF Result
        <3>2. CASE q.op = "confirm"
            BY <2>3, <3>2, ConfirmFits DEF Result
        <3>3. CASE q.op = "cancel"
            BY <2>3, <3>3, CancelFits DEF Result
        <3>4. CASE q.op = "retry"
            BY <2>3, <3>4, RetryFits DEF Result
        <3>5. CASE c = Worker
            <4>1. CASE q.op = "answer"
                BY <2>3, <3>5, <4>1, AnswerFits DEF Result
            <4>2. CASE q.op = "backoff"
                BY <2>3, <3>5, <4>2, BackOffFits DEF Result
            <4>3. CASE q.op = "finalize"
                BY <2>3, <3>5, <4>3, FinalizeFits DEF Result
            <4> QED BY <2>2, <3>5, <4>1, <4>2, <4>3, RequestShapes DEF IInv
        <3> QED BY <2>2, <3>1, <3>2, <3>3, <3>4, <3>5, RequestShapes DEF IInv
    <2> QED BY <1>1, <1>3, <2>2, <2>4, ServeStep
<1> QED BY <1>1, <1>2, <1>3

-----------------------------------------------------------------------------
(* The invariant *)

LEMMA Initially == Init => IInv
<1> SUFFICES ASSUME Init PROVE IInv
    OBVIOUS
<1> USE WorkerIsNoAdmin
<1>1. NoRecipient \in Recipient /\ NoRecipient.status = "NONE"
    BY FreshRecipient
<1>2. /\ NoJob \in Job /\ NoJob.status = "NONE"
      /\ \A r \in Recipients : NoJob.to[r].status = "NONE"
    BY <1>1, BroadcastAssumption DEF NoJob, Job, JobStatus
<1>3. /\ doc \in [Jobs -> Job] /\ \A j \in Jobs : doc[j] = NoJob
      /\ tick = NoTick /\ queue = <<>>
    BY <1>2 DEF Init
<1>4. \A c \in Callers : request[c] = NoRequest /\ request[c].op = "none"
    BY DEF Init, Callers, NoRequest
<1>5. Types
    <2>1. \A j \in Jobs : JobShape(doc[j])
        BY <1>2, <1>3 DEF JobShape, Untried
    <2>2. faults \in [Kinds -> Nat] /\ received \in [Jobs -> [Recipients -> Nat]]
        BY DEF Init
    <2>3. DOMAIN request = Callers /\ request = [c \in Callers |-> request[c]]
        BY DEF Init, Callers
    <2> QED BY <1>3, <1>4, <2>1, <2>2, <2>3 DEF Types
<1>6. Queued
    BY <1>3, <1>4, EmptySeq DEF Queued
<1>7. Ticking
    BY <1>3, <1>4 DEF Ticking
<1>8. \A j, r : ~ Answers(j, r) /\ r \notin Ahead(j)
    BY <1>3, <1>4 DEF Answers, Ahead, NoTick
<1>9. BatchIsOpen /\ OutcomesAreRight /\ FinalizesWait /\ PreparesAlone /\ RetriesWait
    BY <1>4, <1>8 DEF BatchIsOpen, OutcomesAreRight, FinalizesWait, PreparesAlone, RetriesWait
<1>10. MessagesAreCounted
    <2>1. \A j \in Jobs, r \in Recipients : received[j][r] = 0
        BY DEF Init
    <2>2. Hidden = 0
        BY DEF Init, Hidden, Kinds
    <2> QED BY <1>2, <1>3, <2>1, <2>2 DEF MessagesAreCounted
<1>11. NobodyIsLeftWaiting
    BY <1>2, <1>3 DEF NobodyIsLeftWaiting
<1> QED BY <1>5, <1>6, <1>7, <1>9, <1>10, <1>11 DEF IInv

LEMMA StutterStep ==
    ASSUME IInv, UNCHANGED vars
    PROVE  IInv'
<1> USE DEF vars
<1>1. Types'
    BY DEF IInv, Types
<1>2. Queued' /\ Ticking'
    BY DEF IInv, Queued, Ticking
<1>3. BatchIsOpen' /\ OutcomesAreRight' /\ MessagesAreCounted'
    BY DEF IInv, BatchIsOpen, OutcomesAreRight, MessagesAreCounted, Answers, Ahead, Next1,
           First, Hidden
<1>4. PreparesAlone' /\ NobodyIsLeftWaiting'
    BY DEF IInv, PreparesAlone, NobodyIsLeftWaiting, With
<1>5. RetriesWait'
    BY DEF IInv, RetriesWait, Answers, Before, With
<1>6. FinalizesWait'
    BY DEF IInv, FinalizesWait, Before, With
<1> QED BY <1>1, <1>2, <1>3, <1>4, <1>5, <1>6 DEF IInv

LEMMA Inductive == IInv /\ [Next]_vars => IInv'
<1> SUFFICES ASSUME IInv, [Next]_vars PROVE IInv'
    OBVIOUS
<1>1. CASE Administer
    BY <1>1, AdministerStep
<1>2. CASE Work
    BY <1>2, StartTickStep, SendStep, GoesStep, BackOffStep, FinalizeStep, EndTickStep DEF Work
<1>3. CASE Transact
    BY <1>3, TransactStep
<1>4. CASE \E j \in Jobs : BackoffElapses(j)
    BY <1>4, BackoffElapsesStep
<1>5. CASE Crash
    BY <1>5, CrashStep
<1>6. CASE UNCHANGED vars
    BY <1>6, StutterStep
<1> QED BY <1>1, <1>2, <1>3, <1>4, <1>5, <1>6 DEF Next

THEOREM InvariantHolds == Spec => []IInv
BY Initially, Inductive, PTL DEF Spec

\* Documents, requests, the worker's tick and the messages that arrive keep
\* their shape (the broadcasts of AdminDocument and the tick of processTick).
THEOREM TypeCorrect == Spec => []TypeOK
<1>1. IInv => TypeOK
    <2> SUFFICES ASSUME IInv PROVE TypeOK
        OBVIOUS
    <2>1. \A i \in DOMAIN queue : request[queue[i]] # NoRequest
        BY ElementOfSeq DEF IInv, Queued
    <2>2. tick.at \in {"idle", "sending", "storing", "limiting", "ending", "last"}
        BY DEF IInv, Ticking, NoTick
    <2> QED BY <2>1, <2>2 DEF IInv, Types, TypeOK
<1> QED BY <1>1, InvariantHolds, PTL

\* A job that is over has nobody waiting, whatever lands between the look of
\* finalize(), cancel() or retry() and its transaction.
THEOREM EverybodyIsServed == Spec => []NobodyIsLeftWaiting
BY InvariantHolds, PTL DEF IInv

\* SENT means the recipient got the message, and nobody gets it twice but
\* through a fault that hides the outcome (sendTo, storeOutcome, retry).
THEOREM MessagesAreExplained == Spec => []DuplicatesAreExplained
<1>1. IInv => DuplicatesAreExplained
    <2> SUFFICES ASSUME IInv, NEW j \in Jobs, NEW r \in Recipients
                 PROVE  /\ doc[j].to[r].status = "SENT" => received[j][r] > 0
                        /\ received[j][r] <= 1 + faults["crash"] + faults["write"] + faults["lost"]
        BY DEF DuplicatesAreExplained
    <2>1. \A k \in Kinds : faults[k] \in Nat
        BY DEF IInv, Types
    <2> QED BY <2>1 DEF IInv, MessagesAreCounted, Hidden, Kinds, Types
<1> QED BY <1>1, InvariantHolds, PTL

-----------------------------------------------------------------------------
(* Outcomes *)

\* What a transaction makes of a recipient.
LEMMA ResultIsFinal ==
    ASSUME IInv, NEW c, NEW j, Served(c, j), NEW r \in Recipients
    PROVE  LET old == doc[j].to[r].status
               N == Result(request[c])
           IN old # N.to[r].status =>
                \/ old \in {"NONE", "PENDING"}
                \/ old = "FAILED" /\ N.to[r].status = "PENDING" /\ N.retries > doc[j].retries
<1> USE WorkerIsNoAdmin
<1> PICK q, N : q = request[c] /\ N = Result(q)
    OBVIOUS
<1>1. /\ j \in Jobs /\ doc[j] \in Job /\ JobShape(doc[j]) /\ doc[j].to \in [Recipients -> Recipient]
      /\ j = q.job
    BY DEF IInv, Types, Served, Job
<1>2. c \in Admins \/ c = Worker
    BY DEF Served, Callers
<1>3. CASE q.op = "prepare"
    <2>1. c \in Admins
        BY <1>2, <1>3, RequestShapes DEF IInv
    <2> QED BY <1>1, <1>3, <2>1 DEF IInv, PreparesAlone, JobShape
<1>4. CASE q.op = "confirm"
    <2>1. N.to = doc[j].to
        BY <1>1, <1>4 DEF Result, Confirmed, Job
    <2> QED BY <2>1
<1>5. CASE q.op = "cancel"
    <2>1. doc[j].to[r].status # "PENDING" => N.to[r] = doc[j].to[r]
        BY <1>1, <1>5 DEF Result, Cancelled, Job, With
    <2> QED BY <2>1
<1>6. CASE q.op = "retry"
    <2>1. CASE doc[j].to[r].status # "FAILED"
        <3>1. N.to[r] = doc[j].to[r]
            BY <1>1, <1>6, <2>1 DEF Result, Retried, Job, With
        <3> QED BY <3>1
    <2>2. CASE doc[j].to[r].status = "FAILED"
        <3>1. r \in With(doc[j], "FAILED")
            BY <2>2 DEF With
        <3>2. N = [doc[j] EXCEPT !.status = "RUNNING", !.retries = @ + 1, !.later = FALSE,
                     !.to = [s \in Recipients |->
                               IF s \in With(doc[j], "FAILED")
                               THEN [NoRecipient EXCEPT !.status = "PENDING"] ELSE @[s]]]
            BY <1>1, <1>6, <3>1 DEF Result, Retried
        <3>3. N.to[r] = [NoRecipient EXCEPT !.status = "PENDING"] /\ N.retries = doc[j].retries + 1
            BY <1>1, <3>1, <3>2 DEF Job
        <3>4. doc[j].retries \in Nat
            BY <1>1, BroadcastAssumption DEF Job
        <3> QED BY <2>2, <3>3, <3>4, FreshRecipient
    <2> QED BY <2>1, <2>2
<1>7. CASE c = Worker
    <2>1. q.op \in {"answer", "backoff", "finalize"}
        BY <1>7, RequestShapes DEF IInv, Served
    <2>2. CASE q.op = "answer"
        <3>1. doc[j].to[r].status # "PENDING" => N.to[r] = doc[j].to[r]
            BY <1>1, <2>2 DEF Result, Answered, Job
        <3> QED BY <3>1
    <2>3. CASE q.op = "backoff"
        <3>1. N.to = doc[j].to
            BY <1>1, <2>3 DEF Result, BackedOff, Job
        <3> QED BY <3>1
    <2>4. CASE q.op = "finalize"
        <3>1. N.to = doc[j].to
            BY <1>1, <2>4 DEF Result, Finalized, Job
        <3> QED BY <3>1
    <2> QED BY <2>1, <2>2, <2>3, <2>4
<1>8. q.op \in {"prepare", "confirm", "cancel", "retry"} \/ c = Worker
    BY <1>2, RequestShapes DEF IInv, Served
<1> QED BY <1>3, <1>4, <1>5, <1>6, <1>7, <1>8

\* Only a retry of a FAILED recipient makes an outcome undone: what is SENT or
\* SKIPPED stays so, whatever stale tick or late handler ends.
THEOREM OutcomesStay == Spec => OutcomesAreFinal
<1> DEFINE A == \A j \in Jobs, r \in Recipients :
                    LET old == doc[j].to[r].status
                        new == doc'[j].to[r].status
                    IN old # new => \/ old \in {"NONE", "PENDING"}
                                    \/ old = "FAILED" /\ new = "PENDING" /\ doc'[j].retries > doc[j].retries
<1>1. IInv /\ [Next]_vars => A
    <2> SUFFICES ASSUME IInv, [Next]_vars PROVE A
        OBVIOUS
    <2>1. CASE UNCHANGED doc
        BY <2>1
    <2>2. CASE \E j \in Jobs : BackoffElapses(j)
        <3> PICK j \in Jobs : BackoffElapses(j)
            BY <2>2
        <3>1. doc' = [doc EXCEPT ![j].later = FALSE,
                                 ![j].to = [r \in Recipients |-> [doc[j].to[r] EXCEPT !.later = FALSE]]]
            BY DEF BackoffElapses
        <3>2. doc \in [Jobs -> Job] /\ doc[j] \in Job /\ doc[j].to \in [Recipients -> Recipient]
            BY DEF IInv, Types, Job
        <3>3. \A r \in Recipients : doc'[j].to[r].status = doc[j].to[r].status
            BY <3>1, <3>2 DEF Job, Recipient
        <3>4. \A i \in Jobs : i # j => doc'[i] = doc[i]
            BY <3>1, <3>2
        <3> QED BY <3>3, <3>4
    <2>3. CASE Transact /\ ~ UNCHANGED doc
        <3> PICK c, q, j : c = Head(queue) /\ q = request[c] /\ j = q.job
            OBVIOUS
        <3>1. /\ queue # <<>> /\ request' = [request EXCEPT ![c] = NoRequest] /\ queue' = Tail(queue)
              /\ doc' = [doc EXCEPT ![j] = Result(q)]
            BY <2>3 DEF Transact
        <3>2. c \in Callers /\ q # NoRequest /\ \A d \in Callers :
                d # c /\ request[d] # NoRequest => Before(c, d)
            BY <3>1, ServeQueues DEF IInv, Types
        <3>3. q.op # "none" /\ j \in Jobs
            BY <3>2, RequestShapes DEF IInv, Callers
        <3>4. Served(c, j)
            BY <3>1, <3>2, <3>3 DEF Served, NoRequest
        <3>5. \A i \in Jobs : doc'[i] = IF i = j THEN Result(q) ELSE doc[i]
            BY <3>1 DEF IInv, Types
        <3> QED BY <3>4, <3>5, ResultIsFinal
    <2>4. UNCHANGED doc \/ (\E j \in Jobs : BackoffElapses(j)) \/ Transact
        BY DEF Next, Administer, Work, Prepare, Confirm, Cancel, Retry, Watches, StartTick, Send,
               Goes, BackOff, Finalize, EndTick, Crash, vars
    <2> QED BY <2>1, <2>2, <2>3, <2>4
<1>2. Spec => [][A]_vars
    BY <1>1, InvariantHolds, PTL DEF Spec
<1> QED BY <1>2 DEF OutcomesAreFinal
=============================================================================
