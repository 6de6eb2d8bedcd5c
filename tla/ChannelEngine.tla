--------------------------- MODULE ChannelEngine ---------------------------
(***************************************************************************)
(* Publication of content and prices to the channels (source:              *)
(* channel/channel-engine.service.ts, channel/channel-publisher.service.ts)*)
(*                                                                         *)
(* The minute's tick, an administrator's button and the price cycle all    *)
(* end in runJob(); nothing excludes two of them at a time.  A worker is   *)
(* one such call; `worker[w].at` is what it awaits, `worker[w].to[d]` what *)
(* its delivery to destination d awaits: the deliveries of a job run side  *)
(* by side (Promise.all).                                                  *)
(***************************************************************************)
EXTENDS ContentService

CONSTANTS
    PriceSlots,     \* the minutes in which a price update is published
    Workers,        \* publications going on at a time
    MaxAttempts,    \* CHANNEL_PUBLICATION_MAX_ATTEMPTS
    Grace,          \* CHANNEL_MISSED_JOB_GRACE_MINUTES, in ticks
    MaxStarts,      \* bounds: publications asked for, and disturbances: process
    MaxCrashes,
    MaxDisturbances \* deaths, switches of publishing, calls that fail or whose
                    \* answer is lost

ASSUME ChannelAssumption ==
    /\ PriceSlots \subseteq Slots
    /\ MaxAttempts \in Nat \ {0} /\ Grace \in Nat
    /\ MaxStarts \in Nat /\ MaxCrashes \in Nat /\ MaxDisturbances \in Nat

VARIABLES
    scope,      \* bound: a behaviour is about "content", "prices" or "events"
    channels,   \* the destinations that are configured (of events, one)
    worker,     \* the publications in progress
    recovery,   \* recover(): what it has yet to do, with the jobs it found interrupted
    starts, crashes, switches, troubles,
    accepted    \* history: messages each channel has taken for each job

engineVars == <<scope, channels, worker, recovery, starts, crashes, switches, troubles, accepted>>

NoKey == <<<<>>, 0>>

\* A delivery that is not tried is "over"; `tries` counts the calls.
Delivery == [at : {"over", "saving", "calling", "SENT", "FAILED", "UNKNOWN", "RETRYABLE"},
             result : DeliveryStatus \cup {"NONE"}, tries : 0 .. MaxAttempts]
Over(result) == [at |-> "over", result |-> result, tries |-> 0]

Worker ==
    [at : {"idle", "listing", "missing", "creating", "entering", "claiming", "deciding",
           "skipping", "delivering", "concluding", "failing", "marking"},
     todo : SUBSET Contents,    \* the due items a tick has listed
     since : 0 .. MaxTime,      \* the `now` it was started with
     key : Key \cup {NoKey},
     priced : BOOLEAN,          \* the execution carries its price update
     to : [Destinations -> Delivery]]

Idle == [at |-> "idle", todo |-> {}, since |-> 0, key |-> NoKey, priced |-> FALSE,
         to |-> [d \in Destinations |-> Over("NONE")]]

\* recover() has the process to itself: ticks and price cycles start after it; what
\* administrators ask for meanwhile is left out.
Up == recovery = {}
Disturbable == crashes + switches + troubles < MaxDisturbances

Becomes(w, step) == worker' = [worker EXCEPT ![w] = step]
Goes(w, at) == worker' = [worker EXCEPT ![w].at = at]

\* A publication ends; a tick goes on with the items it has listed.
Ends(w) ==
    Becomes(w, IF worker[w].todo = {} THEN Idle
               ELSE [Idle EXCEPT !.at = "listing", !.todo = worker[w].todo,
                                 !.since = worker[w].since])

Reads == UNCHANGED <<memory, disk, failures>>
Bystanders == UNCHANGED <<scope, channels, request, asked, now, approved, recovery, starts, crashes, switches>>
Quiet == Bystanders /\ UNCHANGED <<troubles, accepted>>

ItemOf(k) == memory.contents[k[1]]
IsEditorial(k) == k[1] \in Contents
KeyOf(c) == <<c, memory.contents[c].revision>>

JobIn(d, k) == At(d.jobs, k, "NONE")
DeliveryIn(d, k, x) == At(d.deliveries, <<k, x>>, "NONE")
Taken(k, d) == At(accepted, <<k, d>>, 0)
WithJob(d, k, status) == [d EXCEPT !.jobs = Put(@, k, status)]

-----------------------------------------------------------------------------
(* What starts a publication. *)

Starts(w, step) ==
    /\ Up /\ worker[w].at = "idle"
    /\ starts < MaxStarts
    /\ starts' = starts + 1
    /\ Becomes(w, step)
    /\ Reads
    /\ UNCHANGED <<scope, channels, request, asked, now, approved, recovery, crashes, switches, troubles, accepted>>

Due(c) ==
    LET item == memory.contents[c] IN
    item.status = "SCHEDULED" /\ item.scheduledAt <= now

\* schedulerTick(): nothing is touched while publishing is off.
StartTick(w) ==
    /\ memory.enabled
    /\ \E c \in Contents : Due(c)
    /\ Starts(w, [Idle EXCEPT !.at = "listing", !.todo = {c \in Contents : Due(c)},
                              !.since = now])

\* The next listed item: too late, or published like any other.
NextDue(w, c) ==
    /\ worker[w].at = "listing" /\ c \in worker[w].todo
    /\ LET late == worker[w].since > memory.contents[c].scheduledAt + Grace IN
        Becomes(w, [worker[w] EXCEPT !.at = IF late THEN "missing" ELSE "creating",
                                     !.todo = @ \ {c}, !.key = KeyOf(c)])
    /\ Reads /\ Quiet

MarkContentMissed(w) ==
    /\ worker[w].at = "missing"
    /\ LET c == worker[w].key[1] IN
        IF memory.contents[c].status = "SCHEDULED"
        THEN Save([memory EXCEPT !.contents[c].status = "FAILED"])
        ELSE Reads
    /\ Ends(w)
    /\ Quiet

\* publishContent() as an administrator asks for it.
PublishNow(w, c) ==
    /\ memory.contents[c].status # "NONE"
    /\ Starts(w, [Idle EXCEPT !.at = "creating", !.key = KeyOf(c), !.since = now])

PublishPrices(w, s) ==
    /\ scope = "prices"
    /\ Starts(w, [Idle EXCEPT !.at = "creating", !.key = <<s, 0>>, !.since = now,
                           !.priced = TRUE])

\* An administrator retries a failed job: execute() without its inputs.
Retry(w, k) ==
    /\ JobIn(memory, k) = "FAILED"
    /\ Starts(w, [Idle EXCEPT !.at = "entering", !.key = k, !.since = now])

-----------------------------------------------------------------------------
(* runJob() and execute(). *)

\* A key has one job; one that is over, unsuccessfully, is executed again.
CreateJob(w) ==
    /\ worker[w].at = "creating"
    /\ LET k == worker[w].key IN
        CASE JobIn(memory, k) = "NONE" ->
                Save(WithJob(memory, k, "PENDING")) /\ Goes(w, "entering")
          [] JobIn(memory, k) \in {"PENDING", "FAILED", "SKIPPED"} -> Reads /\ Goes(w, "entering")
          [] OTHER -> Reads /\ Ends(w)
    /\ Quiet

Enter(w) ==
    /\ worker[w].at = "entering"
    /\ IF memory.enabled THEN Goes(w, "claiming") ELSE Ends(w)
    /\ Reads /\ Quiet

\* Mutant: a claim that trusts the job it was given.
ClaimUnchecked(w) ==
    /\ worker[w].at = "claiming"
    /\ Save(WithJob(memory, worker[w].key, "PUBLISHING"))
    /\ Goes(w, "deciding")
    /\ Quiet

Claim(w) ==
    /\ worker[w].at = "claiming"
    /\ LET k == worker[w].key IN
        IF JobIn(memory, k) \in {"PUBLISHED", "PUBLISHING"}
        THEN Reads /\ Ends(w)
        ELSE /\ Save(WithJob(memory, k, "PUBLISHING"))
             /\ Goes(w, "deciding")
    /\ Quiet

\* Mutant: a decision that trusts the status of the item.
PublishableByStatus(k, today) ==
    LET item == ItemOf(k) IN
    /\ item.status \notin {"CANCELLED", "DRAFT"}
    /\ item.revision = k[2]
    /\ k[1] \in Nightly => item.day = today

\* decideEditorialContent(): the item as it is now, for the revision of the job.
Publishable(k, today) ==
    LET item == ItemOf(k) IN
    /\ item.status \notin {"CANCELLED", "DRAFT"}
    /\ item.revision = k[2]
    /\ item.approved
    /\ k[1] \in Nightly => item.day = today

\* deliverTo(): what has been sent, or may have been, is not sent again.
FirstStep(k, d) ==
    LET known == DeliveryIn(memory, k, d) IN
    IF known \in {"SENT", "UNKNOWN"} THEN Over(known)
    ELSE [at |-> "saving", result |-> "NONE", tries |-> 0]

Deliver(w) ==
    /\ worker[w].at = "deciding"
    /\ LET k == worker[w].key IN
        /\ IF IsEditorial(k) THEN Publishable(k, worker[w].since) ELSE worker[w].priced
        /\ Becomes(w, [worker[w] EXCEPT !.at = "delivering",
                         !.to = [d \in Destinations |->
                            IF d \in channels THEN FirstStep(k, d) ELSE Over("NONE")]])
    /\ Reads /\ Quiet

\* A market message may also be refused by the gate of the policy.
Refuse(w) ==
    /\ worker[w].at = "deciding"
    /\ IsEditorial(worker[w].key) => ~ Publishable(worker[w].key, worker[w].since)
    /\ Goes(w, "skipping")
    /\ Reads /\ Quiet

\* A formatter throws.
DecideThrows(w) ==
    /\ worker[w].at = "deciding"
    /\ Disturbable
    /\ troubles' = troubles + 1
    /\ Goes(w, "failing")
    /\ Reads /\ Bystanders /\ UNCHANGED accepted

\* finish()
Finish(w, status) == Save(WithJob(memory, worker[w].key, status))

SkipJob(w) ==
    /\ worker[w].at = "skipping"
    /\ Finish(w, "SKIPPED")
    /\ Ends(w)
    /\ Quiet

FailJob(w) ==
    /\ worker[w].at = "failing"
    /\ Finish(w, "FAILED")
    /\ IF IsEditorial(worker[w].key) THEN Goes(w, "marking") ELSE Ends(w)
    /\ Quiet

MarkContentFailed(w) ==
    /\ worker[w].at = "marking"
    /\ Save([memory EXCEPT !.contents[worker[w].key[1]].status = "FAILED"])
    /\ Ends(w)
    /\ Quiet

-----------------------------------------------------------------------------
(* deliverTo() *)

Delivering(w, d, at) == worker[w].at = "delivering" /\ worker[w].to[d].at = at

SaveDelivery(w, d, status) ==
    Save([memory EXCEPT !.deliveries = Put(@, <<worker[w].key, d>>, status)])

SaveSending(w, d) ==
    /\ Delivering(w, d, "saving")
    /\ SaveDelivery(w, d, "SENDING")
    /\ worker' = [worker EXCEPT ![w].to[d].at = "calling"]
    /\ Quiet

\* publish(): the call is taken, refused for good or for now, or its outcome is
\* not known.  A photo that is refused for good is replaced by the text alone,
\* one that fails after its text does not count.
Call(w, d) ==
    /\ Delivering(w, d, "calling")
    /\ \E outcome \in {"SENT", "FAILED", "RETRYABLE", "UNKNOWN"}, taken \in BOOLEAN :
        /\ outcome = "SENT" => taken
        /\ outcome \in {"FAILED", "RETRYABLE"} => ~ taken
        /\ IF outcome = "SENT" THEN UNCHANGED troubles
           ELSE Disturbable /\ troubles' = troubles + 1
        /\ worker' = [worker EXCEPT ![w].to[d].at = outcome, ![w].to[d].tries = @ + 1]
        /\ accepted' = IF taken
                       THEN Put(accepted, <<worker[w].key, d>>, 1 + Taken(worker[w].key, d))
                       ELSE accepted
    /\ Reads /\ Bystanders

\* The record of the call; only what may be retried is, after a delay.
RecordDelivery(w, d) ==
    /\ worker[w].at = "delivering"
    /\ LET step == worker[w].to[d]
           result == IF step.at = "RETRYABLE" THEN "FAILED" ELSE step.at
       IN /\ step.at \in {"SENT", "FAILED", "UNKNOWN", "RETRYABLE"}
          /\ SaveDelivery(w, d, result)
          /\ worker' = [worker EXCEPT ![w].to[d] =
                IF step.at = "RETRYABLE" /\ step.tries < MaxAttempts
                THEN [@ EXCEPT !.at = "calling"] ELSE Over(result)]
    /\ Quiet

\* Mutant: a job whose deliveries are over is published.
FinishJobBlindly(w) ==
    /\ worker[w].at = "delivering"
    /\ \A d \in Destinations : worker[w].to[d].at = "over"
    /\ Finish(w, "PUBLISHED")
    /\ IF IsEditorial(worker[w].key) THEN Goes(w, "concluding") ELSE Ends(w)
    /\ Quiet

\* Promise.all() is over: one destination that has the message makes it published.
FinishJob(w) ==
    /\ worker[w].at = "delivering"
    /\ \A d \in Destinations : worker[w].to[d].at = "over"
    /\ IF \E d \in Destinations : worker[w].to[d].result = "SENT"
       THEN /\ Finish(w, "PUBLISHED")
            /\ IF IsEditorial(worker[w].key) THEN Goes(w, "concluding") ELSE Ends(w)
       ELSE Finish(w, "FAILED") /\ Ends(w)
    /\ Quiet

\* The item is published, whatever it has become since the decision.
AfterSuccess(w) ==
    /\ worker[w].at = "concluding"
    /\ Save([memory EXCEPT !.contents[worker[w].key[1]].status = "PUBLISHED"])
    /\ Ends(w)
    /\ Quiet

-----------------------------------------------------------------------------
SetPublishingEnabled ==
    /\ Up /\ Disturbable
    /\ switches' = switches + 1
    /\ Save([memory EXCEPT !.enabled = ~ @])
    /\ UNCHANGED <<scope, channels, request, asked, now, approved, worker, recovery, starts, crashes, troubles, accepted>>

Interrupted(d) == {k \in DOMAIN d.jobs : d.jobs[k] \in {"PENDING", "PUBLISHING"}}

Crash ==
    /\ Disturbable /\ crashes < MaxCrashes
    /\ crashes' = crashes + 1
    /\ memory' = disk
    /\ worker' = [w \in Workers |-> Idle]
    /\ request' = [p \in Admins |-> NoRequest]
    /\ recovery' = {[at |-> "settle", key |-> k] : k \in Interrupted(disk)}
    /\ UNCHANGED <<scope, channels, disk, failures, asked, now, approved, starts, switches, troubles, accepted>>

\* What was sent stays published, what may have been is failed, the rest is skipped.
Outcome(d, k) ==
    LET found == {DeliveryIn(d, k, x) : x \in Destinations} IN
    IF JobIn(d, k) = "PUBLISHING" /\ "SENT" \in found THEN "PUBLISHED"
    ELSE IF JobIn(d, k) = "PUBLISHING" /\ "UNKNOWN" \in found THEN "FAILED"
    ELSE "SKIPPED"

\* finish(); then, of an item that was being sent, markContentFailed().
Recovered(d, e) ==
    IF e.at = "settle" THEN WithJob(d, e.key, Outcome(d, e.key))
    ELSE [d EXCEPT !.contents[e.key[1]].status = "FAILED"]

Marking(e) ==
    IF /\ e.at = "settle" /\ IsEditorial(e.key)
       /\ JobIn(memory, e.key) = "PUBLISHING" /\ Outcome(memory, e.key) = "SKIPPED"
    THEN {[at |-> "mark", key |-> e.key]} ELSE {}

\* recover(), a transaction at a time: an item is marked before the next job is
\* settled, and jobs that never ran come last.
Recover(e) ==
    /\ e \in recovery
    /\ e.at = "mark" \/ \A o \in recovery : o.at = "settle"
    /\ JobIn(memory, e.key) = "PENDING" =>
          \A o \in recovery : JobIn(memory, o.key) # "PUBLISHING"
    /\ Save(Recovered(memory, e))
    /\ recovery' = (recovery \ {e}) \cup Marking(e)
    /\ UNCHANGED <<scope, channels, request, asked, now, approved, worker, starts, crashes, switches, troubles, accepted>>

-----------------------------------------------------------------------------
EngineInit ==
    /\ ContentInit
    /\ scope \in {"content", "prices", "events"}
    /\ now = IF scope = "events" THEN 0 ELSE 1
    /\ channels \in (IF scope = "events" THEN {{d} : d \in Destinations} ELSE {Destinations})
    /\ worker = [w \in Workers |-> Idle]
    /\ recovery = {}
    /\ starts = (IF scope = "events" THEN MaxStarts ELSE 0) /\ crashes = 0 /\ switches = 0 /\ troubles = 0
    /\ accepted = NoMap

Step(w) ==
    \/ \E c \in Contents : NextDue(w, c)
    \/ MarkContentMissed(w) \/ CreateJob(w) \/ Enter(w) \/ Claim(w)
    \/ Deliver(w) \/ Refuse(w) \/ DecideThrows(w)
    \/ SkipJob(w) \/ FailJob(w) \/ MarkContentFailed(w)
    \/ \E d \in Destinations : SaveSending(w, d) \/ Call(w, d) \/ RecordDelivery(w, d)
    \/ FinishJob(w) \/ AfterSuccess(w)

Administer ==
    /\ Up
    /\ \/ \E c \in Contents : scope = "content" /\ Create(c)
       \/ \E p \in Admins, kind \in Requests, c \in Contents, at \in 0 .. MaxTime :
            Ask(p, kind, c, at)
       \/ \E p \in Admins : Change(p)
    /\ UNCHANGED engineVars

EngineNext ==
    \/ Administer
    \/ \E w \in Workers :
        \/ StartTick(w)
        \/ \E c \in Contents : PublishNow(w, c)
        \/ \E s \in PriceSlots : PublishPrices(w, s)
        \/ \E k \in DOMAIN memory.jobs : Retry(w, k)
        \/ Step(w)
    \/ SetPublishingEnabled
    \/ \E e \in recovery : Recover(e)

-----------------------------------------------------------------------------
EngineTypeOK ==
    /\ memory \in Document /\ disk \in Document
    /\ worker \in [Workers -> Worker]
    /\ recovery \subseteq [at : {"settle", "mark"}, key : Key]
    /\ channels \subseteq Destinations
    /\ approved \subseteq Contents \X Revisions
    /\ accepted \in Maps(Key \X Destinations, Nat)
    /\ now \in 0 .. MaxTime /\ failures \in 0 .. MaxWriteFailures
    /\ {crashes, switches, troubles} \subseteq Nat
    /\ crashes + switches + troubles <= MaxDisturbances

(* However many ticks, buttons and cycles ask for the same publication, and  *)
(* however often a failed one is retried, each channel takes its message     *)
(* once; only a process that dies between the message and its record makes   *)
(* it possible a second time (channel-engine.service.ts runJob, execute,     *)
(* deliverTo, recover).                                                      *)
TakenOnce == \A x \in DOMAIN accepted : accepted[x] <= 1 + crashes

(* What a channel took was approved at that very revision, whatever edits,   *)
(* cancellations and schedules landed around it: the checks of the service   *)
(* outside its transactions are backed by those of the decision              *)
(* (channel-engine.service.ts decideEditorialContent).                       *)
TakenWasApproved ==
    \A c \in Contents, r \in Revisions, d \in Destinations :
        Taken(<<c, r>>, d) > 0 => <<c, r>> \in approved

(* The records tell what happened: a delivery SENT was taken, a job          *)
(* PUBLISHED has one, an item PUBLISHED has such a job -- in memory, and in  *)
(* the file after any crash (channel-engine.service.ts finish, recover).     *)
Tells(d) ==
    /\ \A x \in DOMAIN d.deliveries : d.deliveries[x] = "SENT" => Taken(x[1], x[2]) > 0
    /\ \A k \in DOMAIN d.jobs : d.jobs[k] = "PUBLISHED" =>
            \E x \in Destinations : DeliveryIn(d, k, x) = "SENT"
    /\ \A c \in Contents : d.contents[c].status = "PUBLISHED" =>
            \E r \in Revisions : JobIn(d, <<c, r>>) = "PUBLISHED"

RecordsTellTheTruth == Tells(memory) /\ Tells(disk)
=============================================================================
