----------------------------- MODULE Monitoring -----------------------------
(***************************************************************************)
(* The monitoring engine (source: monitoring/monitoring.service.ts, with   *)
(* monitoring.rules.ts, monitoring.store.ts and, under common/,            *)
(* persistence-monitor.service.ts).                                        *)
(*                                                                         *)
(* Producers report failures and successes.  Each report is a chain of     *)
(* awaited transactions over two documents: the watch of the condition and *)
(* the outbox are in the monitoring document, incidents in the admin       *)
(* document.  The transactions of a document run one after the other; a    *)
(* caller resumes right after its commit, before the next write can end,   *)
(* and what it reads of the other document then may be about to change.    *)
(***************************************************************************)
EXTENDS Incidents

CONSTANTS
    AdminKey,           \* the watch of the admin document's own writes
    Observers,          \* reports under way
    Listener,           \* the report of the persistence monitor's queue
    Human,              \* an administrator in the error centre
    Dispatcher,         \* the periodic tick
    Threshold,          \* failures that make an incident
    Stability,          \* MONITORING_RECOVERY_STABILITY_SECONDS
    RepeatAfter,        \* MONITORING_REPEAT_NOTIFY_MINUTES, not less than the cooldown
    MaxTime,            \* bound: the clock
    MaxObservations,    \* bound: reports
    MaxFaults           \* bound: failed writes, lost or refused calls, crashes

ASSUME MonitoringAssumption ==
    /\ AdminKey \in Keys
    /\ {Threshold, RepeatAfter} \subseteq Nat \ {0}
    /\ {Stability, MaxTime, MaxObservations, MaxFaults} \subseteq Nat
    /\ {Listener, Human, Dispatcher} \cap Observers = {}
    /\ Listener # Human /\ Human # Dispatcher /\ Dispatcher # Listener

VARIABLES
    watch,          \* watches of the monitoring document
    outbox,         \* its notifications; arrived is history: messages that got through
    incidents,      \* the list of the admin document
    chain,          \* the callers whose transactions wait, by document
    at,             \* what each caller is in the middle of
    failing,        \* the admin document's last write failed
    events,         \* the queue of the persistence monitor
    now,            \* the clock
    observations,   \* reports so far
    faults          \* faults, reopenings and overlaps so far, by kind

durable == <<watch, outbox, incidents>>
engineVars == <<durable, chain, at, failing, events, now, observations, faults>>

Callers == Observers \cup {Listener, Human, Dispatcher}
Documents == {"monitoring", "admin"}
Kinds == {"write", "lost", "refused", "limited", "crash", "reopen", "overlap"}
Phases == {"HEALTHY", "DEGRADED", "OPEN", "RECOVERED"}
Never == 0      \* the clock starts at 1

Watch == [failures : 0 .. Threshold, phase : Phases, incident : Nat, generation : Nat,
          notified : Nat, candidate : Nat]

NoWatch == [failures |-> 0, phase |-> "none", incident |-> 0, generation |-> 0,
            notified |-> Never, candidate |-> Never]
Tracked(k) == watch[k] # NoWatch

Idle == [op |-> "idle"]
FaultCount == faults["write"] + faults["lost"] + faults["refused"] + faults["limited"]
              + faults["crash"]
Counts(kind) == faults' = [faults EXCEPT ![kind] = @ + 1]
Faulty(kind) == FaultCount < MaxFaults /\ Counts(kind)

\* A caller asks for a transaction of a document, or the head of a chain is done.
Ask(c, d) == chain' = [chain EXCEPT ![d] = Append(@, c)]
Turn(c, d) == chain[d] # <<>> /\ c = Head(chain[d])
Done(d) == chain' = [chain EXCEPT ![d] = Tail(@)]
Then(c, d, e) ==
    chain' = [q \in Documents |->
                LET rest == IF q = d THEN Tail(chain[q]) ELSE chain[q]
                IN IF q = e THEN Append(rest, c) ELSE rest]

Becomes(c, state) == at' = [at EXCEPT ![c] = state]

-----------------------------------------------------------------------------
(* What the transactions make of a watch. *)

AtMost(n) == IF n > Threshold THEN Threshold ELSE n
ThresholdOf(k) == IF k = AdminKey THEN 1 ELSE Threshold

Failed(k) ==
    LET w == watch[k]
        streak == AtMost(w.failures + 1)
    IN [w EXCEPT !.failures = streak, !.candidate = Never,
                 !.phase = IF w.phase = "OPEN" \/ streak >= ThresholdOf(k)
                           THEN "OPEN" ELSE "DEGRADED"]

\* The first success is a candidate; with time it is a recovery.
Candidate(w, time) ==
    /\ Stability > 0 /\ w.incident # 0
    /\ w.candidate = Never \/ time < w.candidate + Stability

Succeeded(w, time) ==
    IF w.incident = 0 /\ w.failures = 0 THEN w
    ELSE IF Candidate(w, time)
    THEN [w EXCEPT !.failures = 0, !.candidate = IF @ = Never THEN time ELSE @]
    ELSE [w EXCEPT !.failures = 0, !.candidate = Never,
                   !.phase = IF w.incident # 0 THEN "RECOVERED" ELSE "HEALTHY"]

\* Mutant: an incident that is no longer the watch's is its previous one.
RecoversWithoutIncident(w, time) == w.failures > 0 /\ w.incident # 0 /\ ~ Candidate(w, time)

Recovers(w, time) == w.incident # 0 /\ ~ Candidate(w, time)

MayNotify(notified, time) == notified = Never \/ time >= notified + RepeatAfter

\* The periods of an incident, from when it was first seen.
Bucket(first, time) == IF time <= first THEN 0 ELSE (time - first) \div RepeatAfter

Notification(kind, i, g, bucket, time) ==
    [kind |-> kind, incident |-> i, generation |-> g, bucket |-> bucket, created |-> time,
     status |-> "PENDING", attempts |-> 0, later |-> FALSE, arrived |-> 0]

SameKey(m, n) == /\ m.kind = n.kind /\ m.incident = n.incident
                 /\ m.generation = n.generation /\ m.bucket = n.bucket

-----------------------------------------------------------------------------
(* A failure is counted, recorded, linked and told. *)

Count(c, k, time) ==
    /\ Becomes(c, [op |-> "count", key |-> k, time |-> time])
    /\ Ask(c, "monitoring")

Fail(o, k) ==
    /\ at[o] = Idle /\ observations < MaxObservations
    /\ observations' = observations + 1
    /\ Count(o, k, now)
    /\ UNCHANGED <<durable, failing, events, now, faults>>

\* openIncident(): the episode is a new one when the incident the watch knows
\* is resolved by now.
Generation(w) ==
    IF w.incident # 0 /\ incidents[w.incident].status = "RESOLVED"
    THEN w.generation + 1 ELSE w.generation

Counted(c) ==
    LET s == at[c]
        w == Failed(s.key)
    IN /\ Turn(c, "monitoring") /\ s.op = "count"
       /\ watch' = [watch EXCEPT ![s.key] = w]
       /\ IF w.failures >= ThresholdOf(s.key)
          THEN /\ Becomes(c, [op |-> "record", key |-> s.key, time |-> s.time,
                              generation |-> Generation(w), notified |-> w.notified])
               /\ Then(c, "monitoring", "admin")
          ELSE Becomes(c, Idle) /\ Done("monitoring")
       /\ UNCHANGED <<outbox, incidents, failing, events, now, observations, faults>>

\* A write of the admin document that succeeds after one that failed is evidence.
AdminWritten ==
    /\ failing' = FALSE
    /\ events' = IF failing THEN Append(events, "success") ELSE events

RecordedBy(c) ==
    LET s == at[c]
        list == Recorded(incidents, s.key, s.generation, s.time)
        late == \E i \in Found(incidents, s.key, s.generation) : incidents[i].status = "RESOLVED"
    IN /\ Turn(c, "admin") /\ s.op = "record"
       /\ incidents' = list
       /\ Becomes(c, [op |-> "link", key |-> s.key, time |-> s.time, generation |-> s.generation,
                      notified |-> s.notified, incident |-> RecordOf(list, s.key, s.generation)])
       /\ Then(c, "admin", "monitoring")
       /\ AdminWritten
       /\ IF late THEN Counts("reopen") ELSE UNCHANGED faults
       /\ UNCHANGED <<watch, outbox, now, observations>>

\* requestNotification(): the cooldown is that of the watch as it was counted.
Linked(c) ==
    LET s == at[c]
        bucket == Bucket(incidents[s.incident].first, s.time)
    IN /\ Turn(c, "monitoring") /\ s.op = "link"
       /\ watch' = [watch EXCEPT ![s.key].incident = s.incident,
                                 ![s.key].generation = s.generation,
                                 ![s.key].phase = "OPEN"]
       /\ IF MayNotify(s.notified, s.time)
          THEN /\ Becomes(c, [op |-> "tell", key |-> s.key, time |-> s.time, left |-> {},
                              notified |-> s.notified,
                              what |-> Notification("INCIDENT", s.incident, s.generation,
                                                    bucket, s.time)])
               /\ Then(c, "monitoring", "monitoring")
          ELSE Becomes(c, Idle) /\ Done("monitoring")
       /\ UNCHANGED <<outbox, incidents, failing, events, now, observations, faults>>

-----------------------------------------------------------------------------
(* A success is noted, watch after watch; it resolves and tells. *)

Note(c, K, time) ==
    \E k \in K :
        /\ Becomes(c, [op |-> "note", key |-> k, time |-> time, left |-> K \ {k}])
        /\ Ask(c, "monitoring")

\* The watches are those tracked when the report arrives.
Succeed(o) ==
    /\ at[o] = Idle /\ observations < MaxObservations
    /\ observations' = observations + 1
    /\ Note(o, {k \in Keys \ {AdminKey} : Tracked(k)}, now)
    /\ UNCHANGED <<durable, failing, events, now, faults>>

\* The next watch of the report, or its end.
Onward(c, d, left, time) ==
    IF left = {} THEN Becomes(c, Idle) /\ Done(d)
    ELSE \E k \in left :
            /\ Becomes(c, [op |-> "note", key |-> k, time |-> time, left |-> left \ {k}])
            /\ Then(c, d, "monitoring")

\* closeIncident(): an incident that is resolved already is left alone.
Noted(c) ==
    LET s == at[c]
        w == watch[s.key]
    IN /\ Turn(c, "monitoring") /\ s.op = "note"
       /\ watch' = [watch EXCEPT ![s.key] = Succeeded(w, s.time)]
       /\ IF Recovers(w, s.time) /\ incidents[w.incident].status # "RESOLVED"
          THEN /\ Becomes(c, [op |-> "resolve", key |-> s.key, time |-> s.time, left |-> s.left,
                              incident |-> w.incident, generation |-> w.generation])
               /\ Then(c, "monitoring", "admin")
          ELSE Onward(c, "monitoring", s.left, s.time)
       /\ UNCHANGED <<outbox, incidents, failing, events, now, observations, faults>>

\* resolve() returns null when its write fails: the recovery is told all the same.
Tells(c) ==
    LET s == at[c] IN
    /\ Becomes(c, [op |-> "tell", key |-> s.key, time |-> s.time, left |-> s.left,
                   notified |-> Never,
                   what |-> Notification("RECOVERY", s.incident, s.generation, 0, s.time)])
    /\ Then(c, "admin", "monitoring")

Resolved(c) ==
    /\ Turn(c, "admin") /\ at[c].op = "resolve"
    /\ incidents' = Updated(incidents, at[c].incident, "RESOLVED")
    /\ Tells(c)
    /\ AdminWritten
    /\ UNCHANGED <<watch, outbox, now, observations, faults>>

\* The condition was told of by another report since this one looked at the
\* time of the last notice, or at a later time than its own.
Overlaps(s) ==
    LET last == watch[s.key].notified
    IN IF s.what.kind = "INCIDENT" THEN last # s.notified ELSE s.time < last

Queued(s) ==
    /\ outbox' = Append(outbox, s.what)
    /\ watch' = [watch EXCEPT ![s.key].notified = s.time]
    /\ IF Overlaps(s) THEN Counts("overlap") ELSE UNCHANGED faults

\* Mutant: the key of a notification is not looked up.
QueuedAgain(s) == Queued(s)

QueuedOnce(s) ==
    IF \E n \in DOMAIN outbox : outbox[n].status # "GONE" /\ SameKey(outbox[n], s.what)
    THEN UNCHANGED <<outbox, watch, faults>>
    ELSE Queued(s)

Told(c) ==
    LET s == at[c] IN
    /\ Turn(c, "monitoring") /\ s.op = "tell"
    /\ QueuedOnce(s)
    /\ Onward(c, "monitoring", s.left, s.time)
    /\ UNCHANGED <<incidents, failing, events, now, observations>>

-----------------------------------------------------------------------------
(* The error centre: what a person decides of an incident. *)

Decide(i, status) ==
    /\ at[Human] = Idle /\ i \in DOMAIN incidents
    /\ incidents[i].status # status
    /\ observations < MaxObservations /\ observations' = observations + 1
    /\ Becomes(Human, [op |-> "decide", incident |-> i, status |-> status])
    /\ Ask(Human, "admin")
    /\ UNCHANGED <<durable, failing, events, now, faults>>

Decided ==
    /\ Turn(Human, "admin") /\ at[Human].op = "decide"
    /\ incidents' = Updated(incidents, at[Human].incident, at[Human].status)
    /\ IF incidents[at[Human].incident].status = "RESOLVED"
       THEN Counts("reopen") ELSE UNCHANGED faults
    /\ Becomes(Human, Idle) /\ Done("admin")
    /\ AdminWritten
    /\ UNCHANGED <<watch, outbox, now, observations>>

-----------------------------------------------------------------------------
(* A write fails: the transaction has changed nothing.  Of the admin        *)
(* document it is reported to the persistence monitor.                      *)

MonitoringWriteFails(c) ==
    /\ Turn(c, "monitoring") /\ c # Dispatcher
    /\ Faulty("write")
    /\ Becomes(c, Idle) /\ Done("monitoring")
    /\ UNCHANGED <<durable, failing, events, now, observations>>

AdminWriteFails(c) ==
    /\ Turn(c, "admin")
    /\ Faulty("write")
    /\ IF at[c].op = "resolve" THEN Tells(c) ELSE Becomes(c, Idle) /\ Done("admin")
    /\ failing' = TRUE
    /\ events' = Append(events, "failure")
    /\ UNCHANGED <<durable, now, observations>>

\* The listener takes the events one after the other.
Listen ==
    /\ at[Listener] = Idle /\ events # <<>>
    /\ events' = Tail(events)
    /\ \/ Head(events) = "failure" /\ Count(Listener, AdminKey, now)
       \/ Head(events) = "success" /\ Tracked(AdminKey) /\ Note(Listener, {AdminKey}, now)
       \/ Head(events) = "success" /\ ~ Tracked(AdminKey) /\ UNCHANGED <<at, chain>>
    /\ UNCHANGED <<durable, failing, now, observations, faults>>

TimePasses ==
    /\ now < MaxTime /\ now' = now + 1
    /\ UNCHANGED <<durable, chain, at, failing, events, observations, faults>>

-----------------------------------------------------------------------------
EngineInit ==
    /\ watch = [k \in Keys |-> NoWatch]
    /\ outbox = <<>> /\ incidents = <<>>
    /\ chain = [d \in Documents |-> <<>>]
    /\ at = [c \in Callers |-> Idle]
    /\ failing = FALSE /\ events = <<>>
    /\ now = 1 /\ observations = 0
    /\ faults = [k \in Kinds |-> 0]

Report ==
    \/ \E o \in Observers : Succeed(o) \/ \E k \in Keys \ {AdminKey} : Fail(o, k)
    \/ \E i \in DOMAIN incidents, status \in IncidentStatus : Decide(i, status)

Commits ==
    \/ \E c \in Observers \cup {Listener} :
        Counted(c) \/ RecordedBy(c) \/ Linked(c) \/ Noted(c) \/ Resolved(c) \/ Told(c)
    \/ Decided

WriteFails ==
    \E c \in Observers \cup {Listener, Human} : MonitoringWriteFails(c) \/ AdminWriteFails(c)

EngineNext == Report \/ Commits \/ WriteFails \/ Listen \/ TimePasses
=============================================================================
