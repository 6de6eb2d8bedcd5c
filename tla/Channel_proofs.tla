--------------------------- MODULE Channel_proofs ---------------------------
(***************************************************************************)
(* The safety of the channel (ContentService, ChannelEngine,               *)
(* ChannelEvents), proved for any number of workers, channels, items and   *)
(* symbols, whatever the bounds.                                           *)
(*                                                                         *)
(* The engine: a job that is being published has one holder, the worker    *)
(* between its claim and its end; a delivery that was sent, or may have    *)
(* been, is shut, in the record or in the hands of that holder; so a       *)
(* channel takes a message once in a life of the process.                  *)
(*                                                                         *)
(* The movements: the last message about a symbol is settled on its        *)
(* record, or is on its way to it through the cycle in progress, or is     *)
(* owed a record by an accident that has been counted; what was told       *)
(* without cause is at most what those accidents have paid for.            *)
(***************************************************************************)
EXTENDS ChannelEvents, FiniteSetTheorems, TLAPS

-----------------------------------------------------------------------------
(* The invariant of the engine, in parts; s is a worker, m a document.     *)

\* A worker that has claimed its job and not yet settled it.
Holds(s) == s.at \in {"deciding", "skipping", "delivering", "failing"}

\* A delivery that is not over is one that the decision has allowed, and that the
\* records do not exclude.
DeliveryOK(k, d, s, m, acc, app, chs) ==
    /\ s.at # "over" =>
         /\ d \in chs
         /\ DeliveryIn(m, k, d) \notin {"SENT", "UNKNOWN"}
         /\ k[1] \in Contents => k \in app
    /\ s.at = "over" /\ s.result = "SENT" => DeliveryIn(m, k, d) = "SENT"
    /\ s.at = "SENT" => At(acc, <<k, d>>, 0) > 0
    /\ s.at \in {"saving", "calling"} => s.tries < MaxAttempts

\* What a worker relies on since an earlier step is still so in the document.
WorkerOK(s, m, acc, app, chs) ==
    /\ \A c \in s.todo : m.contents[c].status # "NONE"
    /\ s.at = "idle" => s = Idle
    /\ s.at = "listing" => s.key = NoKey
    /\ s.at \notin {"idle", "listing"} => s.key \in Key
    /\ s.at \notin {"idle", "listing"} /\ s.key[1] \in Contents =>
            m.contents[s.key[1]].status # "NONE"
    /\ s.at \in {"missing", "marking", "concluding"} => s.key[1] \in Contents
    /\ s.at = "concluding" => JobIn(m, s.key) = "PUBLISHED"
    /\ Holds(s) => JobIn(m, s.key) = "PUBLISHING"
    /\ s.at = "delivering" =>
         \A d \in Destinations : DeliveryOK(s.key, d, s.to[d], m, acc, app, chs)

WorkersOK == \A w \in Workers : WorkerOK(worker[w], memory, accepted, approved, channels)

\* A job has one holder.
Alone ==
    \A v, w \in Workers :
        Holds(worker[v]) /\ Holds(worker[w]) /\ worker[v].key = worker[w].key => v = w

\* An approval is of the revision that the item has; only an item has jobs.
ItemsOK(m, app) ==
    \A c \in Contents :
        /\ m.contents[c].status # "NONE" => m.contents[c].revision \in Revisions
        /\ m.contents[c].approved => <<c, m.contents[c].revision>> \in app
        /\ \A k \in Key : k[1] = c /\ JobIn(m, k) # "NONE" => m.contents[c].status # "NONE"

Request == [kind : Requests, content : Contents, at : 0 .. MaxTime]

\* An item that a handler is about to change does not go away.
RequestsOK ==
    /\ request \in [Admins -> Request \cup {NoRequest}]
    /\ \A p \in Admins : request[p] # NoRequest =>
            memory.contents[request[p].content].status # "NONE"

\* What recover() has yet to do of a job, in document m.
ToRecover(m, e) ==
    /\ e.at = "settle" => JobIn(m, e.key) \in {"PENDING", "PUBLISHING"}
    /\ e.at = "mark" => JobIn(m, e.key) = "SKIPPED" /\ e.key[1] \in Contents

\* The recovery has the process to itself.
RecoveryOK ==
    /\ recovery # {} => \A w \in Workers : worker[w] = Idle
    /\ \A e \in recovery : ToRecover(memory, e)

\* The message was sent or may have been: a record says so, or a worker is about to.
Shuts(s, k, d) == s.at = "delivering" /\ s.key = k /\ s.to[d].at \in {"SENT", "UNKNOWN"}
Shut(k, d) ==
    \/ DeliveryIn(memory, k, d) \in {"SENT", "UNKNOWN"}
    \/ \E w \in Workers : Shuts(worker[w], k, d)

One(b) == IF b THEN 1 ELSE 0

\* Each life of the process adds one message at most, and shuts the delivery by it.
OnceALife == \A k \in Key, d \in Destinations : Taken(k, d) <= crashes + One(Shut(k, d))

\* RecordsTellTheTruth, for the whole of the maps.
Truth(m, acc) ==
    /\ \A k \in Key, d \in Destinations :
            DeliveryIn(m, k, d) = "SENT" => At(acc, <<k, d>>, 0) > 0
    /\ \A k \in Key : JobIn(m, k) = "PUBLISHED" =>
            \E d \in Destinations : DeliveryIn(m, k, d) = "SENT"
    /\ \A c \in Contents : m.contents[c].status = "PUBLISHED" =>
            \E r \in Revisions : JobIn(m, <<c, r>>) = "PUBLISHED"

EngineInv ==
    /\ EngineTypeOK /\ WorkersOK /\ Alone /\ RequestsOK /\ RecoveryOK
    /\ ItemsOK(memory, approved) /\ ItemsOK(disk, approved)
    /\ Truth(memory, accepted) /\ Truth(disk, accepted)
    /\ OnceALife /\ TakenWasApproved

-----------------------------------------------------------------------------
(* The invariant of the movements. *)

Moves == (SUBSET Symbols) \ {{}}
MoveKey(t, S) == <<MovementSlot(t, S), 0>>
MoveKeys == {MoveKey(t, S) : t \in 0 .. MaxTime, S \in Moves}

\* Nobody but the cycle publishes movements, and where it does nobody publishes else.
EventsOnly ==
    /\ scope \in {"content", "prices", "events"}
    /\ scope # "events" =>
         /\ ~ cycle.busy
         /\ \A w \in Workers : worker[w].key \notin MoveKeys
         /\ \A k \in MoveKeys : JobIn(memory, k) = "NONE" /\ JobIn(disk, k) = "NONE"
         /\ \A k \in MoveKeys, d \in Destinations : Taken(k, d) = 0
    /\ scope = "events" =>
         /\ starts = MaxStarts
         /\ \E d \in Destinations : channels = {d}
         /\ \A w \in Workers : worker[w].todo = {} /\
                (worker[w] # Idle => cycle.busy /\ worker[w].key = cycle.key)

\* The cycle in progress is of this very tick, and tells of symbols that moved; no
\* tick is told of, or seen calm, before its cycle.
CycleOK ==
    /\ cycle.busy =>
         /\ cycle.since = now /\ due = now + 1
         /\ \E S \in Moves :
              /\ cycle.key = MoveKey(now, S) /\ cycle.todo \subseteq S
              /\ \A s \in S : market[s].move >= Threshold
         /\ \A s \in Symbols : FallenBack(market[s]) => now \in calm[s]
         /\ \A s \in Symbols : now \in ToldAt(s) => market[s].move >= Threshold
    /\ due <= now + 1
    /\ \A s \in Symbols : \A t \in ToldAt(s) \cup calm[s] : t < due

\* When the symbol was last told, and that its record says so: re-armed only if it
\* was seen calm since.
LastTold(s, u) == u \in ToldAt(s) /\ \A v \in ToldAt(s) : v <= u

Settled(s) ==
    LET event == memory.movements[s] IN
    /\ event.known /\ LastTold(s, event.at)
    /\ event.armed => \E c \in calm[s] : event.at < c

\* A message that was taken and answered, and is not yet on the record of its job.
Answers(s, d) ==
    /\ s.at = "delivering"
    /\ \/ s.to[d].at = "SENT"
       \/ s.to[d].at = "over" /\ s.to[d].result = "SENT"

WillTell(s, d) == s.key = cycle.key /\ Answers(s, d)

\* The record of the last message is on its way, through the cycle in progress.
Coming(s) ==
    /\ cycle.busy /\ s \in cycle.todo /\ LastTold(s, cycle.since)
    /\ Published \/ \E w \in Workers, d \in channels : WillTell(worker[w], d)

\* Neither on record nor on its way: an accident has lost it.
Owed(s) == ToldAt(s) # {} /\ ~ Settled(s) /\ ~ Coming(s)

IsNews(s) ==
    \A u \in ToldAt(s) : LastTold(s, u) =>
        /\ now - u >= Cooldown
        /\ \E c \in calm[s] : u < c /\ c < now

\* What the cycle picked by the records, and has not told yet, is news.
NewsOK ==
    cycle.busy /\ (\A d \in channels : Taken(cycle.key, d) = 0) =>
        \A s \in cycle.todo : ~ Settled(s) \/ IsNews(s)

\* Until something is published the cycle has all of its symbols to record.
TodoOK ==
    cycle.busy /\ ~ Published => \E S \in Moves : cycle.key = MoveKey(now, S) /\ cycle.todo = S

\* The messages that nothing explains, and who has paid for them.
Unexplained(s) ==
    {t \in ToldAt(s) : \E u \in ToldAt(s) :
        /\ u < t /\ \A v \in ToldAt(s) : ~ (u < v /\ v < t)
        /\ t - u < Cooldown \/ ~ \E c \in calm[s] : u < c /\ c < t}

EachExplained ==
    \A s \in Symbols : Cardinality(Unexplained(s)) + One(Owed(s)) <= crashes + troubles

EventsInv == EventsOnly /\ CycleOK /\ NewsOK /\ TodoOK /\ EachExplained
-----------------------------------------------------------------------------
(* Maps, documents and workers *)

\* What a map finds after a write.
LEMMA PutMap ==
    ASSUME NEW S, NEW T, NEW f \in Maps(S, T), NEW x \in S, NEW v \in T
    PROVE  /\ Put(f, x, v) \in Maps(S, T)
           /\ \A y, n : At(Put(f, x, v), y, n) = IF y = x THEN v ELSE At(f, y, n)
<1> DEFINE g == Put(f, x, v)
<1>1. PICK D \in SUBSET S : f \in [D -> T]
    BY DEF Maps
<1>2. g = [y \in D \cup {x} |-> IF y = x THEN v ELSE f[y]]
    BY <1>1 DEF Put
<1> HIDE DEF g
<1>3. g \in [D \cup {x} -> T]
    BY <1>1, <1>2
<1>4. D \cup {x} \in SUBSET S
    BY <1>1
<1>5. g \in Maps(S, T)
    BY <1>3, <1>4 DEF Maps
<1>6. \A y, n : At(g, y, n) = IF y = x THEN v ELSE At(f, y, n)
    BY <1>1, <1>2 DEF At
<1> QED BY <1>5, <1>6 DEF g

LEMMA NoMapIsMap ==
    ASSUME NEW S, NEW T
    PROVE  NoMap \in Maps(S, T) /\ \A y, n : At(NoMap, y, n) = n
<1>1. NoMap \in [{} -> T] /\ DOMAIN NoMap = {}
    BY DEF NoMap
<1>2. {} \in SUBSET S
    OBVIOUS
<1> QED BY <1>1, <1>2 DEF Maps, At

\* What is found in a map is of its range, and nothing is found outside its domain.
LEMMA MapFinds ==
    ASSUME NEW S, NEW T, NEW f \in Maps(S, T), NEW n
    PROVE  /\ \A y \in DOMAIN f : y \in S /\ f[y] \in T /\ At(f, y, n) = f[y]
           /\ \A y : y \notin DOMAIN f => At(f, y, n) = n
<1>1. PICK D \in SUBSET S : f \in [D -> T]
    BY DEF Maps
<1> QED BY <1>1 DEF At

\* What each kind of write to the document changes, and what it leaves.
LEMMA JobSaved ==
    ASSUME NEW m \in Document, NEW k \in Key, NEW status \in JobStatus
    PROVE  LET n == WithJob(m, k, status) IN
           /\ n \in Document
           /\ n.contents = m.contents /\ n.movements = m.movements
           /\ n.deliveries = m.deliveries
           /\ \A j : JobIn(n, j) = IF j = k THEN status ELSE JobIn(m, j)
<1> DEFINE n == WithJob(m, k, status)
<1>1. n = [m EXCEPT !.jobs = Put(m.jobs, k, status)]
    BY DEF WithJob, Document
<1>2. m.jobs \in Maps(Key, JobStatus)
    BY DEF Document
<1>3. /\ Put(m.jobs, k, status) \in Maps(Key, JobStatus)
      /\ \A y, v : At(Put(m.jobs, k, status), y, v) = IF y = k THEN status ELSE At(m.jobs, y, v)
    BY <1>2, PutMap
<1> HIDE DEF n
<1>4. /\ n.jobs = Put(m.jobs, k, status)
      /\ n.contents = m.contents /\ n.movements = m.movements /\ n.deliveries = m.deliveries
    BY <1>1 DEF Document
<1>5. n \in Document
    BY <1>1, <1>3 DEF Document
<1>6. \A j : JobIn(n, j) = IF j = k THEN status ELSE JobIn(m, j)
    BY <1>3, <1>4 DEF JobIn
<1> QED BY <1>4, <1>5, <1>6 DEF n

LEMMA DeliverySaved ==
    ASSUME NEW m \in Document, NEW k \in Key, NEW d \in Destinations,
           NEW status \in DeliveryStatus
    PROVE  LET n == [m EXCEPT !.deliveries = Put(@, <<k, d>>, status)] IN
           /\ n \in Document
           /\ n.contents = m.contents /\ n.movements = m.movements /\ n.jobs = m.jobs
           /\ \A j, x : DeliveryIn(n, j, x) =
                IF j = k /\ x = d THEN status ELSE DeliveryIn(m, j, x)
<1> DEFINE n == [m EXCEPT !.deliveries = Put(m.deliveries, <<k, d>>, status)]
<1>1. m.deliveries \in Maps(Key \X Destinations, DeliveryStatus)
    BY DEF Document
<1>2. <<k, d>> \in Key \X Destinations
    OBVIOUS
<1>3. /\ Put(m.deliveries, <<k, d>>, status) \in Maps(Key \X Destinations, DeliveryStatus)
      /\ \A y, v : At(Put(m.deliveries, <<k, d>>, status), y, v)
                    = IF y = <<k, d>> THEN status ELSE At(m.deliveries, y, v)
    BY <1>1, <1>2, PutMap
<1>4. /\ n.deliveries = Put(m.deliveries, <<k, d>>, status)
      /\ n.contents = m.contents /\ n.movements = m.movements /\ n.jobs = m.jobs
    BY DEF Document
<1>5. n \in Document
    BY <1>3 DEF Document
<1>6. \A j, x : DeliveryIn(n, j, x) = IF j = k /\ x = d THEN status ELSE DeliveryIn(m, j, x)
    BY <1>3, <1>4 DEF DeliveryIn
<1>7. n = [m EXCEPT !.deliveries = Put(@, <<k, d>>, status)]
    OBVIOUS
<1> QED BY <1>4, <1>5, <1>6, <1>7

LEMMA ItemSaved ==
    ASSUME NEW m \in Document, NEW c \in Contents, NEW item \in Item
    PROVE  LET n == [m EXCEPT !.contents[c] = item] IN
           /\ n \in Document
           /\ n.jobs = m.jobs /\ n.deliveries = m.deliveries /\ n.movements = m.movements
           /\ \A e \in Contents : n.contents[e] = IF e = c THEN item ELSE m.contents[e]
<1> DEFINE n == [m EXCEPT !.contents[c] = item]
<1>1. m.contents \in [Contents -> Item]
    BY DEF Document
<1>2. n = [m EXCEPT !.contents = [m.contents EXCEPT ![c] = item]]
    BY DEF Document
<1> HIDE DEF n
<1>3. /\ n.contents = [m.contents EXCEPT ![c] = item]
      /\ n.jobs = m.jobs /\ n.deliveries = m.deliveries /\ n.movements = m.movements
    BY <1>2 DEF Document
<1>4. n \in Document
    BY <1>1, <1>2 DEF Document
<1>5. \A e \in Contents : n.contents[e] = IF e = c THEN item ELSE m.contents[e]
    BY <1>1, <1>3
<1> QED BY <1>3, <1>4, <1>5 DEF n

LEMMA StatusSaved ==
    ASSUME NEW m \in Document, NEW c \in Contents, NEW status \in ContentStatus
    PROVE  LET n == [m EXCEPT !.contents[c].status = status] IN
           /\ n \in Document
           /\ n.jobs = m.jobs /\ n.deliveries = m.deliveries /\ n.movements = m.movements
           /\ n.contents[c].status = status
           /\ \A e \in Contents :
                /\ n.contents[e].approved = m.contents[e].approved
                /\ n.contents[e].revision = m.contents[e].revision
                /\ e # c => n.contents[e] = m.contents[e]
<1> DEFINE n == [m EXCEPT !.contents[c].status = status]
           item == [m.contents[c] EXCEPT !.status = status]
<1>1. m.contents[c] \in Item
    BY DEF Document
<1>2. /\ item \in Item /\ item.status = status
      /\ item.approved = m.contents[c].approved /\ item.revision = m.contents[c].revision
    BY <1>1 DEF Item
<1>3. n = [m EXCEPT !.contents[c] = item]
    BY DEF Document
<1> HIDE DEF n, item
<1> QED BY <1>2, <1>3, ItemSaved DEF n

\* What the records a worker starts with hold.
LEMMA IdleShape ==
    /\ Idle \in Worker
    /\ Idle.at = "idle" /\ Idle.todo = {} /\ Idle.key = NoKey
<1>1. Over("NONE") \in Delivery
    BY ChannelAssumption DEF Over, Delivery
<1>2. 0 \in 0 .. MaxTime
    BY ContentAssumption
<1> QED BY <1>1, <1>2 DEF Idle, Worker

\* A worker that is given items to see to, or a key.
LEMMA ListingShape ==
    ASSUME NEW todo \in SUBSET Contents, NEW since \in 0 .. MaxTime
    PROVE  LET s == [Idle EXCEPT !.at = "listing", !.todo = todo, !.since = since] IN
           s \in Worker /\ s.at = "listing" /\ s.todo = todo /\ s.key = NoKey
BY IdleShape DEF Worker

LEMMA KeyedShape ==
    ASSUME NEW at \in {"creating", "entering"}, NEW key \in Key, NEW since \in 0 .. MaxTime
    PROVE  LET s == [Idle EXCEPT !.at = at, !.key = key, !.since = since] IN
           s \in Worker /\ s.at = at /\ s.todo = {} /\ s.key = key
BY IdleShape DEF Worker

LEMMA PricedShape ==
    ASSUME NEW key \in Key, NEW since \in 0 .. MaxTime
    PROVE  LET s == [Idle EXCEPT !.at = "creating", !.key = key, !.since = since,
                                 !.priced = TRUE] IN
           s \in Worker /\ s.at = "creating" /\ s.todo = {} /\ s.key = key
BY IdleShape DEF Worker

-----------------------------------------------------------------------------
(* What the steps keep: s and n are a worker before and after it, m the document *)
(* after it, acc and app what was taken and approved by then.                     *)

NothingKnown(m, k) ==
    JobIn(m, k) = "NONE"

SameFor(m, n, k) ==
    /\ JobIn(n, k) = JobIn(m, k)
    /\ \A d \in Destinations : DeliveryIn(n, k, d) = DeliveryIn(m, k, d)

Grows(acc) ==
    /\ acc \in Maps(Key \X Destinations, Nat)
    /\ \A k \in Key, d \in Destinations : At(acc, <<k, d>>, 0) >= Taken(k, d)

KeepsItems(m) ==
    \A c \in Contents : memory.contents[c].status # "NONE" => m.contents[c].status # "NONE"

LEMMA TakenIsNat ==
    ASSUME NEW acc \in Maps(Key \X Destinations, Nat), NEW x
    PROVE  At(acc, x, 0) \in Nat
<1>1. \A y \in DOMAIN acc : acc[y] \in Nat
    BY MapFinds
<1> QED BY <1>1 DEF At

LEMMA IdleIsOK ==
    ASSUME NEW m, NEW acc, NEW app, NEW chs
    PROVE  WorkerOK(Idle, m, acc, app, chs)
BY IdleShape DEF WorkerOK, Holds

\* What a worker relies on outlives the step of another, which keeps the items and
\* does not touch the job that this one holds.
LEMMA OthersAreSpared ==
    ASSUME NEW s \in Worker, NEW m, NEW acc, NEW app,
           WorkerOK(s, memory, accepted, approved, channels),
           accepted \in Maps(Key \X Destinations, Nat),
           KeepsItems(m), Grows(acc), approved \subseteq app,
           SameFor(memory, m, s.key) \/ s.at \in {"idle", "listing", "missing", "creating", "entering",
                                                  "claiming", "marking"}
    PROVE  WorkerOK(s, m, acc, app, channels)
<1>1. s.todo \subseteq Contents /\ \A d \in Destinations : s.to[d] \in Delivery
    BY DEF Worker
<1>2. \A c \in s.todo : m.contents[c].status # "NONE"
    BY <1>1 DEF WorkerOK, KeepsItems
<1>3. ASSUME s.at = "delivering", NEW d \in Destinations
      PROVE  DeliveryOK(s.key, d, s.to[d], m, acc, app, channels)
    <2>1. DeliveryOK(s.key, d, s.to[d], memory, accepted, approved, channels) /\ s.key \in Key
        BY <1>3 DEF WorkerOK
    <2>2. DeliveryIn(m, s.key, d) = DeliveryIn(memory, s.key, d)
        BY <1>3 DEF SameFor
    <2>3. At(acc, <<s.key, d>>, 0) >= At(accepted, <<s.key, d>>, 0)
        BY <2>1 DEF Grows, Taken
    <2>4. At(acc, <<s.key, d>>, 0) \in Nat /\ At(accepted, <<s.key, d>>, 0) \in Nat
        BY TakenIsNat DEF Grows
    <2> QED BY <2>1, <2>2, <2>3, <2>4 DEF DeliveryOK
<1>4. /\ s.at = "concluding" => JobIn(m, s.key) = "PUBLISHED"
      /\ Holds(s) => JobIn(m, s.key) = "PUBLISHING"
    BY DEF WorkerOK, SameFor, Holds
<1>5. s.at \notin {"idle", "listing"} /\ s.key[1] \in Contents => m.contents[s.key[1]].status # "NONE"
    BY DEF WorkerOK, KeepsItems
<1> QED BY <1>2, <1>3, <1>4, <1>5 DEF WorkerOK

\* A worker's step: the jobs and deliveries of its key are its own to write once it
\* holds the job, and the job it takes is one that nobody holds.
Own(s, m) ==
    /\ \A k : k # s.key => SameFor(memory, m, k)
    /\ \/ Holds(s)
       \/ JobIn(memory, s.key) \notin {"PUBLISHING", "PUBLISHED"}
       \/ SameFor(memory, m, s.key)

Takes(s, n) ==
    Holds(n) => n.key = s.key /\ (Holds(s) \/ JobIn(memory, n.key) # "PUBLISHING")

\* A step of one worker, which writes its own job only, and only if it holds it or
\* nobody does, leaves every worker right and every job with one holder.
LEMMA WorkersKept ==
    ASSUME NEW w \in Workers, NEW n \in Worker, NEW m, NEW acc, NEW app,
           worker \in [Workers -> Worker],
           accepted \in Maps(Key \X Destinations, Nat),
           WorkersOK, Alone,
           KeepsItems(m), Grows(acc), approved \subseteq app,
           Own(worker[w], m), Takes(worker[w], n),
           WorkerOK(n, m, acc, app, channels),
           NEW W, W = [worker EXCEPT ![w] = n]
    PROVE  /\ \A v \in Workers : WorkerOK(W[v], m, acc, app, channels)
           /\ \A u, v \in Workers : Holds(W[u]) /\ Holds(W[v]) /\ W[u].key = W[v].key => u = v
<1>1. \A v \in Workers : v # w => W[v] = worker[v] /\ worker[v] \in Worker
    OBVIOUS
<1>2. W[w] = n
    OBVIOUS
<1>3. ASSUME NEW v \in Workers, v # w
      PROVE  WorkerOK(worker[v], m, acc, app, channels)
    <2>1. WorkerOK(worker[v], memory, accepted, approved, channels) /\ worker[v] \in Worker
        BY <1>1, <1>3 DEF WorkersOK
    <2>2. CASE worker[v].key # worker[w].key
        BY <2>1, <2>2, OthersAreSpared DEF Own
    <2>3. CASE worker[v].key = worker[w].key /\ SameFor(memory, m, worker[w].key)
        BY <2>1, <2>3, OthersAreSpared
    <2>4. CASE worker[v].key = worker[w].key /\ Holds(worker[w])
        <3>1. ~ Holds(worker[v])
            BY <1>3, <2>4 DEF Alone
        <3>2. JobIn(memory, worker[w].key) = "PUBLISHING"
            BY <2>4 DEF WorkersOK, WorkerOK
        <3>3. worker[v].at # "concluding"
            BY <2>1, <2>4, <3>2 DEF WorkerOK
        <3> QED BY <2>1, <3>1, <3>3, OthersAreSpared DEF Holds, Worker
    <2>5. CASE /\ worker[v].key = worker[w].key
               /\ JobIn(memory, worker[w].key) \notin {"PUBLISHING", "PUBLISHED"}
        <3>1. ~ Holds(worker[v]) /\ worker[v].at # "concluding"
            BY <2>1, <2>5 DEF WorkerOK
        <3> QED BY <2>1, <3>1, OthersAreSpared DEF Holds, Worker
    <2> QED BY <2>2, <2>3, <2>4, <2>5 DEF Own
<1>4. \A v \in Workers : WorkerOK(W[v], m, acc, app, channels)
    BY <1>1, <1>2, <1>3
<1>5. ASSUME NEW v \in Workers, v # w, Holds(n), Holds(worker[v]), n.key = worker[v].key
      PROVE  FALSE
    <2>1. n.key = worker[w].key
        BY <1>5 DEF Takes
    <2>2. CASE Holds(worker[w])
        BY <1>5, <2>1, <2>2 DEF Alone
    <2>3. CASE JobIn(memory, n.key) # "PUBLISHING"
        BY <1>5, <2>3 DEF WorkersOK, WorkerOK
    <2> QED BY <1>5, <2>2, <2>3 DEF Takes
<1>6. \A u, v \in Workers : Holds(W[u]) /\ Holds(W[v]) /\ W[u].key = W[v].key => u = v
    BY <1>1, <1>2, <1>5 DEF Alone
<1> QED BY <1>4, <1>6

\* What is shut stays shut.
Closes(s, n, m) ==
    \A k \in Key, d \in Destinations :
        /\ DeliveryIn(memory, k, d) \in {"SENT", "UNKNOWN"} => DeliveryIn(m, k, d) \in {"SENT", "UNKNOWN"}
        /\ Shuts(s, k, d) => Shuts(n, k, d) \/ DeliveryIn(m, k, d) \in {"SENT", "UNKNOWN"}

\* A step that takes no message and opens no delivery that was shut.
LEMMA OnceKept ==
    ASSUME NEW w \in Workers, NEW n, NEW m,
           worker \in [Workers -> Worker], OnceALife, EngineTypeOK,
           Closes(worker[w], n, m),
           worker' = [worker EXCEPT ![w] = n], memory' = m,
           accepted' = accepted, crashes' = crashes
    PROVE  OnceALife'
<1> SUFFICES ASSUME NEW k \in Key, NEW d \in Destinations
             PROVE  Taken(k, d) <= crashes + One(Shut(k, d)')
    BY DEF OnceALife, Taken, One
<1>1. Taken(k, d) <= crashes + One(Shut(k, d))
    BY DEF OnceALife
<1>2. Shut(k, d) => Shut(k, d)'
    BY DEF Shut, Closes
<1>3. Taken(k, d) \in Nat /\ crashes \in Nat
    BY TakenIsNat DEF Taken, EngineTypeOK
<1> QED BY <1>1, <1>2, <1>3 DEF One

LEMMA SavedEitherWay ==
    ASSUME NEW m, Save(m), failures \in 0 .. MaxWriteFailures
    PROVE  /\ memory' = m /\ (disk' = m \/ disk' = disk)
           /\ failures' \in 0 .. MaxWriteFailures
BY ContentAssumption DEF Save

\* A step of a worker during which no channel takes anything.
LEMMA WorkerStepKeeps ==
    ASSUME EngineInv, recovery = {},
           NEW w \in Workers, NEW n \in Worker, NEW m \in Document,
           Becomes(w, n),
           Save(m) \/ (m = memory /\ Reads),
           UNCHANGED <<channels, request, now, approved, recovery, crashes, switches, accepted>>,
           troubles' = troubles \/ (Disturbable /\ troubles' = troubles + 1),
           KeepsItems(m), Own(worker[w], m), Takes(worker[w], n), Closes(worker[w], n, m),
           WorkerOK(n, m, accepted, approved, channels),
           ItemsOK(m, approved), Truth(m, accepted)
    PROVE  EngineInv'
<1> USE DEF EngineInv
<1>1. /\ worker \in [Workers -> Worker] /\ memory \in Document /\ disk \in Document
      /\ accepted \in Maps(Key \X Destinations, Nat)
      /\ failures \in 0 .. MaxWriteFailures
      /\ {crashes, switches, troubles} \subseteq Nat
      /\ crashes + switches + troubles <= MaxDisturbances
    BY DEF EngineTypeOK
<1>2. worker' = [worker EXCEPT ![w] = n]
    BY DEF Becomes
<1>3. /\ memory' = m /\ (disk' = m \/ disk' = disk)
      /\ failures' \in 0 .. MaxWriteFailures
    BY <1>1, SavedEitherWay DEF Reads
<1>4. EngineTypeOK'
    <2>1. worker' \in [Workers -> Worker] /\ memory' \in Document /\ disk' \in Document
        BY <1>1, <1>2, <1>3
    <2>2. /\ {crashes', switches', troubles'} \subseteq Nat
          /\ crashes' + switches' + troubles' <= MaxDisturbances
        BY <1>1, ChannelAssumption DEF Disturbable
    <2> QED BY <1>3, <2>1, <2>2 DEF EngineTypeOK
<1>5. Grows(accepted)
    <2>1. \A x : At(accepted, x, 0) \in Nat
        BY <1>1, TakenIsNat
    <2> QED BY <1>1, <2>1 DEF Grows, Taken
<1>6. WorkersOK' /\ Alone'
    <2>1. \A W : W = [worker EXCEPT ![w] = n] =>
            /\ \A v \in Workers : WorkerOK(W[v], m, accepted, approved, channels)
            /\ \A u, v \in Workers : Holds(W[u]) /\ Holds(W[v]) /\ W[u].key = W[v].key => u = v
        BY <1>1, <1>5, WorkersKept
    <2>2. /\ \A v \in Workers : WorkerOK(worker'[v], m, accepted, approved, channels)
          /\ \A u, v \in Workers :
                Holds(worker'[u]) /\ Holds(worker'[v]) /\ worker'[u].key = worker'[v].key => u = v
        BY <1>2, <2>1
    <2> QED BY <1>3, <2>2 DEF WorkersOK, Alone
<1>7. RequestsOK'
    <2>1. ASSUME NEW p \in Admins, request[p] # NoRequest
          PROVE  memory'.contents[request[p].content].status # "NONE"
        <3>1. request[p] \in Request
            BY <2>1 DEF RequestsOK
        <3>2. request[p].content \in Contents
            BY <3>1 DEF Request
        <3> QED BY <1>3, <2>1, <3>2 DEF RequestsOK, KeepsItems
    <2> QED BY <2>1 DEF RequestsOK
<1>8. RecoveryOK'
    BY DEF RecoveryOK
<1>9. ItemsOK(memory, approved)' /\ ItemsOK(disk, approved)'
    BY <1>3 DEF ItemsOK
<1>10. Truth(memory, accepted)' /\ Truth(disk, accepted)'
    BY <1>3 DEF Truth
<1>11. OnceALife'
    BY <1>1, <1>2, <1>3, OnceKept
<1>12. TakenWasApproved'
    BY DEF TakenWasApproved, Taken
<1> QED BY <1>4, <1>6, <1>7, <1>8, <1>9, <1>10, <1>11, <1>12

\* A step that only looks.
LEMMA LookingKeeps ==
    ASSUME EngineInv, recovery = {},
           NEW w \in Workers, NEW n \in Worker,
           Becomes(w, n), Reads,
           UNCHANGED <<channels, request, now, approved, recovery, crashes, switches, accepted>>,
           troubles' = troubles \/ (Disturbable /\ troubles' = troubles + 1),
           Takes(worker[w], n),
           \A k \in Key, d \in Destinations :
                Shuts(worker[w], k, d) => DeliveryIn(memory, k, d) \in {"SENT", "UNKNOWN"},
           WorkerOK(n, memory, accepted, approved, channels)
    PROVE  EngineInv'
<1>1. KeepsItems(memory) /\ Own(worker[w], memory)
    BY DEF KeepsItems, Own, SameFor
<1>2. Closes(worker[w], n, memory)
    BY DEF Closes
<1>3. memory \in Document /\ ItemsOK(memory, approved) /\ Truth(memory, accepted)
    BY DEF EngineInv, EngineTypeOK
<1> QED BY <1>1, <1>2, <1>3, WorkerStepKeeps

\* A step that writes the job of the worker's key.
LEMMA JobStepKeeps ==
    ASSUME EngineInv, recovery = {},
           NEW w \in Workers, NEW n \in Worker, NEW status \in JobStatus,
           worker[w].at \notin {"idle", "listing"}, worker[w].key \in Key,
           Becomes(w, n), Save(WithJob(memory, worker[w].key, status)),
           UNCHANGED <<channels, request, now, approved, recovery, crashes, switches, accepted>>,
           troubles' = troubles,
           Holds(worker[w]) \/ JobIn(memory, worker[w].key) \notin {"PUBLISHING", "PUBLISHED"},
           status = "PUBLISHED" =>
                \E d \in Destinations : DeliveryIn(memory, worker[w].key, d) = "SENT",
           Takes(worker[w], n),
           \A k \in Key, d \in Destinations :
                Shuts(worker[w], k, d) => DeliveryIn(memory, k, d) \in {"SENT", "UNKNOWN"},
           WorkerOK(n, WithJob(memory, worker[w].key, status), accepted, approved, channels)
    PROVE  EngineInv'
<1> DEFINE m == WithJob(memory, worker[w].key, status)
           k == worker[w].key
<1>1. memory \in Document /\ ItemsOK(memory, approved) /\ Truth(memory, accepted)
    BY DEF EngineInv, EngineTypeOK
<1>2. /\ m \in Document /\ m.contents = memory.contents
      /\ m.deliveries = memory.deliveries
      /\ \A j : JobIn(m, j) = IF j = k THEN status ELSE JobIn(memory, j)
    BY <1>1, JobSaved
<1>3. \A j, d : DeliveryIn(m, j, d) = DeliveryIn(memory, j, d)
    BY <1>2 DEF DeliveryIn
<1>4. Becomes(w, n) /\ Save(m) /\ WorkerOK(n, m, accepted, approved, channels)
    OBVIOUS
<1> HIDE DEF m
<1>5. KeepsItems(m) /\ Own(worker[w], m) /\ Closes(worker[w], n, m)
    BY <1>2, <1>3 DEF KeepsItems, Own, SameFor, Closes
<1>6. ItemsOK(m, approved)
    <2>1. ASSUME k[1] \in Contents PROVE memory.contents[k[1]].status # "NONE"
        BY <2>1 DEF EngineInv, WorkersOK, WorkerOK
    <2> QED BY <1>1, <1>2, <2>1 DEF ItemsOK
<1>7. JobIn(memory, k) # "PUBLISHED"
    BY DEF EngineInv, WorkersOK, WorkerOK
<1>8. Truth(m, accepted)
    <2>1. \A j \in Key : JobIn(m, j) = "PUBLISHED" =>
                \E d \in Destinations : DeliveryIn(m, j, d) = "SENT"
        BY <1>1, <1>2, <1>3 DEF Truth
    <2>2. \A c \in Contents : m.contents[c].status = "PUBLISHED" =>
                \E r \in Revisions : JobIn(m, <<c, r>>) = "PUBLISHED"
        BY <1>1, <1>2, <1>7 DEF Truth
    <2> QED BY <1>1, <1>3, <2>1, <2>2 DEF Truth
<1>9. m \in Document /\ n \in Worker /\ w \in Workers
    BY <1>2
<1>10. Save(m) \/ (m = memory /\ Reads)
    BY <1>4
<1> QED BY ONLY EngineInv, recovery = {}, Becomes(w, n),
           UNCHANGED <<channels, request, now, approved, recovery, crashes, switches, accepted>>,
           troubles' = troubles, Takes(worker[w], n),
           <1>4, <1>5, <1>6, <1>8, <1>9, <1>10, WorkerStepKeeps

\* A step that writes the status of the item of the worker's key.
LEMMA StatusStepKeeps ==
    ASSUME EngineInv, recovery = {},
           NEW w \in Workers, NEW n \in Worker, NEW c \in Contents,
           NEW status \in ContentStatus \ {"NONE"},
           memory.contents[c].status # "NONE" \/ memory.contents[c].revision \in Revisions,
           Becomes(w, n), Save([memory EXCEPT !.contents[c].status = status]),
           UNCHANGED <<channels, request, now, approved, recovery, crashes, switches, accepted>>,
           troubles' = troubles,
           status = "PUBLISHED" => \E r \in Revisions : JobIn(memory, <<c, r>>) = "PUBLISHED",
           ~ Holds(n), worker[w].at # "delivering",
           n.todo \subseteq worker[w].todo,
           n.at = "idle" => n = Idle,
           n.at = "listing" => n.key = NoKey,
           n.at \in {"idle", "listing"}
    PROVE  EngineInv'
<1> DEFINE m == [memory EXCEPT !.contents[c].status = status]
<1>1. memory \in Document /\ ItemsOK(memory, approved) /\ Truth(memory, accepted)
    BY DEF EngineInv, EngineTypeOK
<1>2. /\ m \in Document /\ m.jobs = memory.jobs /\ m.deliveries = memory.deliveries
      /\ m.contents[c].status = status
      /\ \A e \in Contents :
           /\ m.contents[e].approved = memory.contents[e].approved
           /\ m.contents[e].revision = memory.contents[e].revision
           /\ e # c => m.contents[e] = memory.contents[e]
    BY <1>1, StatusSaved
<1>3. Becomes(w, n) /\ Save(m)
    OBVIOUS
<1> HIDE DEF m
<1>4. /\ \A j : JobIn(m, j) = JobIn(memory, j)
      /\ \A j, d : DeliveryIn(m, j, d) = DeliveryIn(memory, j, d)
    BY <1>2 DEF JobIn, DeliveryIn
<1>5. KeepsItems(m)
    BY <1>2 DEF KeepsItems
<1>6. Own(worker[w], m) /\ Closes(worker[w], n, m) /\ Takes(worker[w], n)
    BY <1>4 DEF Own, SameFor, Closes, Takes, Shuts
<1>7. ItemsOK(m, approved)
    <2>1. ASSUME NEW e \in Contents
          PROVE  /\ m.contents[e].status # "NONE" => memory.contents[e].status # "NONE" \/ e = c
                 /\ m.contents[e].revision = memory.contents[e].revision
                 /\ m.contents[e].approved = memory.contents[e].approved
        BY <1>2
    <2>2. ASSUME NEW e \in Contents, memory.contents[e].status # "NONE"
          PROVE  m.contents[e].status # "NONE"
        BY <1>5, <2>2 DEF KeepsItems
    <2> QED BY <1>1, <1>4, <2>1, <2>2 DEF ItemsOK
<1>8. Truth(m, accepted)
    <2>1. \A e \in Contents : m.contents[e].status = "PUBLISHED" =>
                \E r \in Revisions : JobIn(m, <<e, r>>) = "PUBLISHED"
        BY <1>1, <1>2, <1>4 DEF Truth
    <2> QED BY <1>1, <1>4, <2>1 DEF Truth
<1>9. WorkerOK(n, m, accepted, approved, channels)
    <2>1. \A e \in n.todo : e \in Contents /\ memory.contents[e].status # "NONE"
        BY DEF EngineInv, WorkersOK, WorkerOK, EngineTypeOK, Worker
    <2>2. \A e \in n.todo : m.contents[e].status # "NONE"
        BY <2>1, <1>5 DEF KeepsItems
    <2> QED BY <2>2 DEF WorkerOK, Holds
<1>10. m \in Document /\ n \in Worker /\ w \in Workers
    BY <1>2
<1>11. Save(m) \/ (m = memory /\ Reads)
    BY <1>3
<1> QED BY ONLY EngineInv, recovery = {}, Becomes(w, n),
           UNCHANGED <<channels, request, now, approved, recovery, crashes, switches, accepted>>,
           troubles' = troubles,
           <1>5, <1>6, <1>7, <1>8, <1>9, <1>10, <1>11, WorkerStepKeeps

-----------------------------------------------------------------------------
(* The steps of a worker *)

EndOf(s) ==
    IF s.todo = {} THEN Idle
    ELSE [Idle EXCEPT !.at = "listing", !.todo = s.todo, !.since = s.since]

\* A worker that ends, and one that goes on to its next await.
LEMMA EndShape ==
    ASSUME NEW s \in Worker
    PROVE  /\ EndOf(s) \in Worker /\ EndOf(s).at \in {"idle", "listing"}
           /\ EndOf(s).todo = s.todo /\ EndOf(s).key = NoKey
           /\ EndOf(s).at = "idle" => EndOf(s) = Idle
<1>1. s.todo \in SUBSET Contents /\ s.since \in 0 .. MaxTime
    BY DEF Worker
<1>2. CASE s.todo = {}
    BY <1>2, IdleShape DEF EndOf
<1>3. CASE s.todo # {}
    <2> DEFINE n == [Idle EXCEPT !.at = "listing", !.todo = s.todo, !.since = s.since]
    <2>1. n \in Worker /\ n.at = "listing" /\ n.todo = s.todo /\ n.key = NoKey
        BY <1>1, ListingShape
    <2>2. EndOf(s) = n
        BY <1>3 DEF EndOf
    <2> QED BY <2>1, <2>2
<1> QED BY <1>2, <1>3

LEMMA WorkingShape ==
    ASSUME EngineInv, NEW w \in Workers, worker[w].at # "idle"
    PROVE  /\ recovery = {} /\ worker[w] \in Worker
           /\ WorkerOK(worker[w], memory, accepted, approved, channels)
           /\ worker[w].at # "listing" => worker[w].key \in Key
           /\ memory \in Document
<1>1. worker[w] # Idle
    BY IdleShape
<1> QED BY <1>1 DEF EngineInv, RecoveryOK, EngineTypeOK, WorkersOK, WorkerOK

LEMMA EndIsOK ==
    ASSUME NEW s \in Worker, NEW m, WorkerOK(s, m, accepted, approved, channels)
    PROVE  /\ WorkerOK(EndOf(s), m, accepted, approved, channels)
           /\ ~ Holds(EndOf(s))
BY EndShape DEF WorkerOK, Holds

\* A step from one await to the next.
At_(s, at) == [s EXCEPT !.at = at]

LEMMA GoesShape ==
    ASSUME worker \in [Workers -> Worker], NEW w \in Workers,
           NEW at \in {"entering", "claiming", "deciding", "skipping", "failing", "marking", "concluding"},
           Goes(w, at)
    PROVE  /\ Becomes(w, At_(worker[w], at))
           /\ At_(worker[w], at) \in Worker /\ At_(worker[w], at).at = at
           /\ At_(worker[w], at).key = worker[w].key
           /\ At_(worker[w], at).todo = worker[w].todo
           /\ At_(worker[w], at).to = worker[w].to
<1> DEFINE n == At_(worker[w], at)
<1>1. worker' = [worker EXCEPT ![w] = n]
    BY DEF Goes, At_
<1>2. worker[w] \in Worker
    OBVIOUS
<1>3. /\ n \in Worker /\ n.at = at /\ n.key = worker[w].key
      /\ n.todo = worker[w].todo /\ n.to = worker[w].to
    BY <1>2 DEF Worker, At_
<1> QED BY <1>1, <1>3 DEF Becomes

\* A job is given up, or gone on with, without a look at anything but the document.
LEMMA GoingKeeps ==
    ASSUME EngineInv, NEW w \in Workers,
           worker[w].at \in {"creating", "entering", "claiming", "deciding"},
           NEW at \in {"entering", "claiming", "skipping", "failing"},
           Goes(w, at), Reads, Bystanders, accepted' = accepted,
           troubles' = troubles \/ (Disturbable /\ troubles' = troubles + 1),
           at \in {"skipping", "failing"} => worker[w].at = "deciding"
    PROVE  EngineInv'
<1> DEFINE n == At_(worker[w], at)
<1>1. worker \in [Workers -> Worker]
    BY DEF EngineInv, EngineTypeOK
<1>2. /\ Becomes(w, n) /\ n \in Worker /\ n.at = at
      /\ n.key = worker[w].key /\ n.todo = worker[w].todo /\ n.to = worker[w].to
    BY <1>1, GoesShape
<1>3. /\ recovery = {} /\ worker[w].key \in Key
      /\ WorkerOK(worker[w], memory, accepted, approved, channels)
    BY WorkingShape
<1> HIDE DEF n
<1>4. Takes(worker[w], n) /\ WorkerOK(n, memory, accepted, approved, channels)
    BY <1>2, <1>3 DEF Takes, Holds, WorkerOK
<1>5. \A k \in Key, d \in Destinations :
        Shuts(worker[w], k, d) => DeliveryIn(memory, k, d) \in {"SENT", "UNKNOWN"}
    BY DEF Shuts
<1> QED BY <1>2, <1>3, <1>4, <1>5, LookingKeeps DEF Bystanders

\* A publication ends where nothing is delivered.
LEMMA EndingKeeps ==
    ASSUME EngineInv, NEW w \in Workers,
           worker[w].at \notin {"idle", "delivering"},
           Ends(w), Reads, Quiet
    PROVE  EngineInv'
<1> DEFINE n == EndOf(worker[w])
<1>1. /\ recovery = {} /\ worker[w] \in Worker
      /\ WorkerOK(worker[w], memory, accepted, approved, channels)
    BY WorkingShape
<1>2. Becomes(w, n)
    BY DEF Ends, EndOf
<1>3. n \in Worker /\ WorkerOK(n, memory, accepted, approved, channels) /\ Takes(worker[w], n)
    BY <1>1, EndShape, EndIsOK DEF Takes
<1>4. \A k \in Key, d \in Destinations :
        Shuts(worker[w], k, d) => DeliveryIn(memory, k, d) \in {"SENT", "UNKNOWN"}
    BY DEF Shuts
<1> QED BY <1>1, <1>2, <1>3, <1>4, LookingKeeps DEF Quiet, Bystanders

LEMMA KeyOfIsKey ==
    ASSUME EngineInv, NEW c \in Contents, memory.contents[c].status # "NONE"
    PROVE  KeyOf(c) \in Key /\ KeyOf(c)[1] = c
BY DEF EngineInv, ItemsOK, KeyOf, Key

LEMMA ContentKey ==
    ASSUME NEW k \in Key, k[1] \in Contents
    PROVE  k[2] \in Revisions /\ k = <<k[1], k[2]>>
BY ContentAssumption DEF Key

\* A tick takes the next of its items.
LEMMA NextDueKeeps ==
    ASSUME EngineInv, NEW w \in Workers, NEW c \in Contents, NextDue(w, c)
    PROVE  EngineInv'
<1> DEFINE late == worker[w].since > memory.contents[c].scheduledAt + Grace
           n == [worker[w] EXCEPT !.at = IF late THEN "missing" ELSE "creating",
                                  !.todo = @ \ {c}, !.key = KeyOf(c)]
<1>1. /\ worker[w].at = "listing" /\ c \in worker[w].todo
      /\ Becomes(w, n) /\ Reads /\ Quiet
    BY DEF NextDue
<1>2. /\ recovery = {} /\ worker[w] \in Worker
      /\ WorkerOK(worker[w], memory, accepted, approved, channels)
    BY <1>1, WorkingShape
<1>3. KeyOf(c) \in Key /\ KeyOf(c)[1] = c
    BY <1>1, <1>2, KeyOfIsKey DEF WorkerOK
<1>4. /\ n \in Worker /\ n.at \in {"missing", "creating"} /\ n.key = KeyOf(c)
      /\ n.todo = worker[w].todo \ {c}
    BY <1>2, <1>3 DEF Worker
<1> HIDE DEF n
<1>5. Takes(worker[w], n) /\ WorkerOK(n, memory, accepted, approved, channels)
    <2>1. \A e \in worker[w].todo : memory.contents[e].status # "NONE"
        BY <1>2 DEF WorkerOK
    <2> QED BY <1>1, <1>3, <1>4, <2>1 DEF Takes, Holds, WorkerOK
<1>6. \A k \in Key, d \in Destinations :
        Shuts(worker[w], k, d) => DeliveryIn(memory, k, d) \in {"SENT", "UNKNOWN"}
    BY <1>1 DEF Shuts
<1> QED BY <1>1, <1>2, <1>4, <1>5, <1>6, LookingKeeps DEF Quiet, Bystanders

\* Where the status of an item is written the publication ends.
LEMMA StatusEndKeeps ==
    ASSUME EngineInv, NEW w \in Workers, NEW status \in {"FAILED", "PUBLISHED"},
           worker[w].at \in {"missing", "marking", "concluding"},
           status = "PUBLISHED" => worker[w].at = "concluding",
           memory.contents[worker[w].key[1]].status # "NONE",
           Save([memory EXCEPT !.contents[worker[w].key[1]].status = status]),
           Ends(w), Quiet
    PROVE  EngineInv'
<1> DEFINE n == EndOf(worker[w])
           c == worker[w].key[1]
<1>1. /\ recovery = {} /\ worker[w] \in Worker /\ worker[w].key \in Key
      /\ WorkerOK(worker[w], memory, accepted, approved, channels)
    BY WorkingShape
<1>2. Becomes(w, n)
    BY DEF Ends, EndOf
<1>3. /\ n \in Worker /\ n.at \in {"idle", "listing"} /\ n.todo = worker[w].todo
      /\ n.key = NoKey /\ (n.at = "idle" => n = Idle)
    BY <1>1, EndShape
<1>4. c \in Contents /\ ~ Holds(n) /\ status \in ContentStatus \ {"NONE"}
    BY <1>1, <1>3 DEF WorkerOK, Holds, ContentStatus
<1>5. status = "PUBLISHED" => \E r \in Revisions : JobIn(memory, <<c, r>>) = "PUBLISHED"
    BY <1>1, <1>4, ContentKey DEF WorkerOK
<1>6. Save([memory EXCEPT !.contents[c].status = status])
    OBVIOUS
<1> HIDE DEF n, c
<1>7. memory.contents[c].status # "NONE"
    BY DEF c
<1> QED BY <1>1, <1>2, <1>3, <1>4, <1>5, <1>6, <1>7, StatusStepKeeps DEF Quiet, Bystanders

\* A step that writes the job, to the next await or to the end.
LEMMA JobGoesKeeps ==
    ASSUME EngineInv, NEW w \in Workers, NEW status \in JobStatus,
           NEW at \in {"entering", "deciding", "marking", "concluding"},
           worker[w].at \notin {"idle", "listing"},
           Save(WithJob(memory, worker[w].key, status)), Goes(w, at), Quiet,
           Holds(worker[w]) \/ JobIn(memory, worker[w].key) \notin {"PUBLISHING", "PUBLISHED"},
           status = "PUBLISHED" =>
                \E d \in Destinations : DeliveryIn(memory, worker[w].key, d) = "SENT",
           \A d \in Destinations : ~ Shuts(worker[w], worker[w].key, d),
           at = "deciding" => status = "PUBLISHING",
           at = "concluding" => status = "PUBLISHED",
           at \in {"marking", "concluding"} => worker[w].key[1] \in Contents
    PROVE  EngineInv'
<1> DEFINE n == At_(worker[w], at)
           m == WithJob(memory, worker[w].key, status)
<1>1. /\ recovery = {} /\ worker[w].key \in Key /\ memory \in Document
      /\ WorkerOK(worker[w], memory, accepted, approved, channels)
      /\ worker \in [Workers -> Worker]
    BY WorkingShape DEF EngineInv, EngineTypeOK
<1>2. /\ Becomes(w, n) /\ n \in Worker /\ n.at = at
      /\ n.key = worker[w].key /\ n.todo = worker[w].todo
    BY <1>1, GoesShape
<1>3. m.contents = memory.contents /\ JobIn(m, worker[w].key) = status
    BY <1>1, JobSaved
<1> HIDE DEF n, m
<1>4. Takes(worker[w], n)
    BY <1>2 DEF Takes, Holds
<1>5. WorkerOK(n, m, accepted, approved, channels)
    BY <1>1, <1>2, <1>3 DEF WorkerOK, Holds
<1>6. \A k \in Key, d \in Destinations :
        Shuts(worker[w], k, d) => DeliveryIn(memory, k, d) \in {"SENT", "UNKNOWN"}
    BY DEF Shuts
<1>7. WorkerOK(n, WithJob(memory, worker[w].key, status), accepted, approved, channels)
    BY <1>5 DEF m
<1> QED BY <1>1, <1>2, <1>4, <1>6, <1>7, JobStepKeeps DEF Quiet, Bystanders

LEMMA JobEndsKeeps ==
    ASSUME EngineInv, NEW w \in Workers, NEW status \in JobStatus,
           worker[w].at \notin {"idle", "listing"},
           Save(WithJob(memory, worker[w].key, status)), Ends(w), Quiet,
           Holds(worker[w]) \/ JobIn(memory, worker[w].key) \notin {"PUBLISHING", "PUBLISHED"},
           status = "PUBLISHED" =>
                \E d \in Destinations : DeliveryIn(memory, worker[w].key, d) = "SENT",
           \A d \in Destinations : ~ Shuts(worker[w], worker[w].key, d)
    PROVE  EngineInv'
<1> DEFINE n == EndOf(worker[w])
           m == WithJob(memory, worker[w].key, status)
<1>1. /\ recovery = {} /\ worker[w] \in Worker /\ worker[w].key \in Key /\ memory \in Document
      /\ WorkerOK(worker[w], memory, accepted, approved, channels)
    BY WorkingShape
<1>2. Becomes(w, n)
    BY DEF Ends, EndOf
<1>3. /\ n \in Worker /\ n.at \in {"idle", "listing"} /\ n.todo = worker[w].todo
      /\ n.key = NoKey /\ (n.at = "idle" => n = Idle)
    BY <1>1, EndShape
<1>4. m.contents = memory.contents
    BY <1>1, JobSaved
<1> HIDE DEF n, m
<1>5. WorkerOK(n, m, accepted, approved, channels) /\ Takes(worker[w], n)
    BY <1>1, <1>3, <1>4 DEF WorkerOK, Holds, Takes
<1>6. \A k \in Key, d \in Destinations :
        Shuts(worker[w], k, d) => DeliveryIn(memory, k, d) \in {"SENT", "UNKNOWN"}
    BY DEF Shuts
<1>7. WorkerOK(n, WithJob(memory, worker[w].key, status), accepted, approved, channels)
    BY <1>5 DEF m
<1> QED BY <1>1, <1>2, <1>3, <1>5, <1>6, <1>7, JobStepKeeps DEF Quiet, Bystanders

LEMMA NotShut ==
    ASSUME NEW s, s.at # "delivering" \/ \A d \in Destinations : s.to[d].at = "over"
    PROVE  \A d \in Destinations : ~ Shuts(s, s.key, d)
BY DEF Shuts

\* The steps that settle the job: created, claimed, skipped, failed, finished.
LEMMA JobStepsKeep ==
    ASSUME EngineInv, NEW w \in Workers,
           CreateJob(w) \/ Claim(w) \/ SkipJob(w) \/ FailJob(w)
    PROVE  EngineInv'
<1> DEFINE k == worker[w].key
<1>1. CASE CreateJob(w)
    <2>1. worker[w].at = "creating" /\ Quiet
        BY <1>1 DEF CreateJob
    <2>2. CASE JobIn(memory, k) = "NONE"
        <3>1. Save(WithJob(memory, k, "PENDING")) /\ Goes(w, "entering")
            BY <1>1, <2>2 DEF CreateJob
        <3> QED BY <2>1, <2>2, <3>1, JobGoesKeeps, NotShut DEF JobStatus
    <2>3. CASE JobIn(memory, k) \in {"PENDING", "FAILED", "SKIPPED"}
        <3>1. Reads /\ Goes(w, "entering")
            BY <1>1, <2>3 DEF CreateJob
        <3> QED BY <2>1, <3>1, GoingKeeps DEF Quiet
    <2>4. CASE JobIn(memory, k) \notin {"NONE", "PENDING", "FAILED", "SKIPPED"}
        <3>1. Reads /\ Ends(w)
            BY <1>1, <2>4 DEF CreateJob
        <3> QED BY <2>1, <3>1, EndingKeeps
    <2> QED BY <2>2, <2>3, <2>4
<1>2. CASE Claim(w)
    <2>1. worker[w].at = "claiming" /\ Quiet
        BY <1>2 DEF Claim
    <2>2. CASE JobIn(memory, k) \in {"PUBLISHED", "PUBLISHING"}
        <3>1. Reads /\ Ends(w)
            BY <1>2, <2>2 DEF Claim
        <3> QED BY <2>1, <3>1, EndingKeeps
    <2>3. CASE JobIn(memory, k) \notin {"PUBLISHED", "PUBLISHING"}
        <3>1. Save(WithJob(memory, k, "PUBLISHING")) /\ Goes(w, "deciding")
            BY <1>2, <2>3 DEF Claim
        <3> QED BY <2>1, <2>3, <3>1, JobGoesKeeps, NotShut DEF JobStatus
    <2> QED BY <2>2, <2>3
<1>3. CASE SkipJob(w)
    <2>1. /\ worker[w].at = "skipping" /\ Quiet
          /\ Save(WithJob(memory, k, "SKIPPED")) /\ Ends(w)
        BY <1>3 DEF SkipJob, Finish
    <2> QED BY <2>1, JobEndsKeeps, NotShut DEF JobStatus, Holds
<1>4. CASE FailJob(w)
    <2>1. /\ worker[w].at = "failing" /\ Quiet
          /\ Save(WithJob(memory, k, "FAILED"))
          /\ IF k[1] \in Contents THEN Goes(w, "marking") ELSE Ends(w)
        BY <1>4 DEF FailJob, Finish, IsEditorial
    <2>2. CASE k[1] \in Contents
        BY <2>1, <2>2, JobGoesKeeps, NotShut DEF JobStatus, Holds
    <2>3. CASE k[1] \notin Contents
        BY <2>1, <2>3, JobEndsKeeps, NotShut DEF JobStatus, Holds
    <2> QED BY <2>2, <2>3
<1> QED BY <1>1, <1>2, <1>3, <1>4

LEMMA FinishJobKeeps ==
    ASSUME EngineInv, NEW w \in Workers, FinishJob(w)
    PROVE  EngineInv'
<1> DEFINE k == worker[w].key
<1>1. /\ worker[w].at = "delivering" /\ Quiet
      /\ \A d \in Destinations : worker[w].to[d].at = "over"
    BY DEF FinishJob
<1>2. CASE \E d \in Destinations : worker[w].to[d].result = "SENT"
    <2>1. \E d \in Destinations : DeliveryIn(memory, k, d) = "SENT"
        BY <1>1, <1>2, WorkingShape DEF WorkerOK, DeliveryOK
    <2>2. /\ Save(WithJob(memory, k, "PUBLISHED"))
          /\ IF k[1] \in Contents THEN Goes(w, "concluding") ELSE Ends(w)
        BY <1>2 DEF FinishJob, Finish, IsEditorial
    <2>3. CASE k[1] \in Contents
        BY <1>1, <2>1, <2>2, <2>3, JobGoesKeeps, NotShut DEF JobStatus, Holds
    <2>4. CASE k[1] \notin Contents
        BY <1>1, <2>1, <2>2, <2>4, JobEndsKeeps, NotShut DEF JobStatus, Holds
    <2> QED BY <2>3, <2>4
<1>3. CASE ~ \E d \in Destinations : worker[w].to[d].result = "SENT"
    <2>1. Save(WithJob(memory, k, "FAILED")) /\ Ends(w)
        BY <1>3 DEF FinishJob, Finish
    <2> QED BY <1>1, <2>1, JobEndsKeeps, NotShut DEF JobStatus, Holds
<1> QED BY <1>2, <1>3

\* The steps that only look, and those that mark the item.
LEMMA LookingStepsKeep ==
    ASSUME EngineInv, NEW w \in Workers,
           Enter(w) \/ Refuse(w) \/ DecideThrows(w)
    PROVE  EngineInv'
<1>1. CASE Enter(w)
    <2>1. worker[w].at = "entering" /\ Reads /\ Quiet /\ (Goes(w, "claiming") \/ Ends(w))
        BY <1>1 DEF Enter
    <2> QED BY <2>1, GoingKeeps, EndingKeeps DEF Quiet
<1>2. CASE Refuse(w)
    <2>1. worker[w].at = "deciding" /\ Reads /\ Quiet /\ Goes(w, "skipping")
        BY <1>2 DEF Refuse
    <2> QED BY <2>1, GoingKeeps DEF Quiet
<1>3. CASE DecideThrows(w)
    <2>1. /\ worker[w].at = "deciding" /\ Reads /\ Bystanders /\ Goes(w, "failing")
          /\ accepted' = accepted /\ Disturbable /\ troubles' = troubles + 1
        BY <1>3 DEF DecideThrows
    <2> QED BY <2>1, GoingKeeps
<1> QED BY <1>1, <1>2, <1>3

LEMMA StatusStepsKeep ==
    ASSUME EngineInv, NEW w \in Workers,
           MarkContentMissed(w) \/ MarkContentFailed(w) \/ AfterSuccess(w)
    PROVE  EngineInv'
<1> DEFINE c == worker[w].key[1]
<1>1. ASSUME worker[w].at \in {"missing", "marking", "concluding"}
      PROVE  memory.contents[c].status # "NONE"
    BY <1>1, WorkingShape DEF WorkerOK
<1>2. CASE MarkContentMissed(w)
    <2>1. worker[w].at = "missing" /\ Ends(w) /\ Quiet
        BY <1>2 DEF MarkContentMissed
    <2>2. Reads \/ Save([memory EXCEPT !.contents[c].status = "FAILED"])
        BY <1>2 DEF MarkContentMissed
    <2> QED BY <1>1, <2>1, <2>2, EndingKeeps, StatusEndKeeps
<1>3. CASE MarkContentFailed(w)
    <2>1. /\ worker[w].at = "marking" /\ Ends(w) /\ Quiet
          /\ Save([memory EXCEPT !.contents[c].status = "FAILED"])
        BY <1>3 DEF MarkContentFailed
    <2> QED BY <1>1, <2>1, StatusEndKeeps
<1>4. CASE AfterSuccess(w)
    <2>1. /\ worker[w].at = "concluding" /\ Ends(w) /\ Quiet
          /\ Save([memory EXCEPT !.contents[c].status = "PUBLISHED"])
        BY <1>4 DEF AfterSuccess
    <2> QED BY <1>1, <2>1, StatusEndKeeps
<1> QED BY <1>2, <1>3, <1>4

-----------------------------------------------------------------------------
(* The deliveries *)

LEMMA StepShape ==
    ASSUME NEW s \in Worker, NEW d \in Destinations, NEW step \in Delivery
    PROVE  LET n == [s EXCEPT !.to[d] = step] IN
           /\ n \in Worker
           /\ n.at = s.at /\ n.key = s.key /\ n.todo = s.todo
           /\ \A x \in Destinations : n.to[x] = IF x = d THEN step ELSE s.to[x]
<1> DEFINE n == [s EXCEPT !.to = [s.to EXCEPT ![d] = step]]
<1>1. s.to \in [Destinations -> Delivery]
    BY DEF Worker
<1>2. n = [s EXCEPT !.to[d] = step]
    BY DEF Worker
<1>3. n \in Worker /\ n.at = s.at /\ n.key = s.key /\ n.todo = s.todo
    BY <1>1 DEF Worker
<1>4. n.to = [s.to EXCEPT ![d] = step]
    BY DEF Worker
<1>5. \A x \in Destinations : n.to[x] = IF x = d THEN step ELSE s.to[x]
    BY <1>1, <1>4
<1> QED BY <1>2, <1>3, <1>5

\* What is known of a delivery that goes on.
LEMMA DeliveringShape ==
    ASSUME EngineInv, NEW w \in Workers, NEW d \in Destinations,
           worker[w].at = "delivering", worker[w].to[d].at # "over"
    PROVE  /\ recovery = {} /\ worker[w] \in Worker /\ worker[w].key \in Key
           /\ memory \in Document
           /\ WorkerOK(worker[w], memory, accepted, approved, channels)
           /\ DeliveryOK(worker[w].key, d, worker[w].to[d], memory, accepted, approved, channels)
           /\ JobIn(memory, worker[w].key) = "PUBLISHING"
           /\ d \in channels /\ DeliveryIn(memory, worker[w].key, d) \notin {"SENT", "UNKNOWN"}
           /\ worker[w].key[1] \in Contents => worker[w].key \in approved
<1>1. /\ recovery = {} /\ worker[w] \in Worker /\ worker[w].key \in Key /\ memory \in Document
      /\ WorkerOK(worker[w], memory, accepted, approved, channels)
    BY WorkingShape
<1>2. /\ DeliveryOK(worker[w].key, d, worker[w].to[d], memory, accepted, approved, channels)
      /\ JobIn(memory, worker[w].key) = "PUBLISHING"
    BY <1>1 DEF WorkerOK, Holds
<1> QED BY <1>1, <1>2 DEF DeliveryOK

\* The record of a delivery is written.
LEMMA DeliveryStepKeeps ==
    ASSUME EngineInv, NEW w \in Workers, NEW d \in Destinations,
           NEW status \in DeliveryStatus, NEW step \in Delivery,
           worker[w].at = "delivering", worker[w].to[d].at # "over",
           SaveDelivery(w, d, status),
           Becomes(w, [worker[w] EXCEPT !.to[d] = step]), Quiet,
           status = "SENT" => Taken(worker[w].key, d) > 0,
           worker[w].to[d].at \in {"SENT", "UNKNOWN"} => status \in {"SENT", "UNKNOWN"},
           \/ step.at = "over" /\ step.result = status
           \/ /\ step.at = "calling" /\ step.tries < MaxAttempts
              /\ status \notin {"SENT", "UNKNOWN"}
    PROVE  EngineInv'
<1> DEFINE n == [worker[w] EXCEPT !.to[d] = step]
           k == worker[w].key
           m == [memory EXCEPT !.deliveries = Put(@, <<k, d>>, status)]
<1>1. /\ recovery = {} /\ worker[w] \in Worker /\ k \in Key
      /\ memory \in Document
      /\ WorkerOK(worker[w], memory, accepted, approved, channels)
      /\ JobIn(memory, k) = "PUBLISHING"
      /\ d \in channels /\ DeliveryIn(memory, k, d) \notin {"SENT", "UNKNOWN"}
      /\ k[1] \in Contents => k \in approved
    BY DeliveringShape
<1>2. /\ n \in Worker /\ n.at = "delivering" /\ n.key = k /\ n.todo = worker[w].todo
      /\ \A x \in Destinations : n.to[x] = IF x = d THEN step ELSE worker[w].to[x]
    BY <1>1, StepShape
<1>3. /\ m \in Document /\ m.contents = memory.contents /\ m.jobs = memory.jobs
      /\ \A j, x : DeliveryIn(m, j, x) =
            IF j = k /\ x = d THEN status ELSE DeliveryIn(memory, j, x)
    BY <1>1, DeliverySaved
<1>4. Save(m) /\ Becomes(w, n)
    BY DEF SaveDelivery
<1> HIDE DEF n, m
<1>5. \A j : JobIn(m, j) = JobIn(memory, j)
    BY <1>3 DEF JobIn
<1>6. KeepsItems(m) /\ Own(worker[w], m) /\ Takes(worker[w], n)
    BY <1>2, <1>3, <1>5 DEF KeepsItems, Own, SameFor, Takes, Holds
<1>7. Closes(worker[w], n, m)
    BY <1>1, <1>2, <1>3 DEF Closes, Shuts
<1>8. WorkerOK(n, m, accepted, approved, channels)
    <2>1. ASSUME NEW x \in Destinations
          PROVE  DeliveryOK(k, x, n.to[x], m, accepted, approved, channels)
        <3>1. CASE x = d
            BY <1>1, <1>2, <1>3, <3>1 DEF DeliveryOK
        <3>2. CASE x # d
            <4>1. DeliveryOK(k, x, worker[w].to[x], memory, accepted, approved, channels)
                BY <1>1 DEF WorkerOK
            <4>2. DeliveryIn(m, k, x) = DeliveryIn(memory, k, x) /\ n.to[x] = worker[w].to[x]
                BY <1>2, <1>3, <3>2
            <4> QED BY <4>1, <4>2 DEF DeliveryOK
        <3> QED BY <3>1, <3>2
    <2> QED BY <1>1, <1>2, <1>3, <1>5, <2>1 DEF WorkerOK, Holds
<1>9. ItemsOK(m, approved)
    BY <1>3, <1>5 DEF EngineInv, ItemsOK
<1>10. Truth(m, accepted)
    <2>1. Truth(memory, accepted)
        BY DEF EngineInv
    <2>2. ASSUME NEW j \in Key, JobIn(m, j) = "PUBLISHED"
          PROVE  \E x \in Destinations : DeliveryIn(m, j, x) = "SENT"
        <3>1. j # k
            BY <1>1, <1>5, <2>2
        <3> QED BY <1>3, <1>5, <2>1, <2>2, <3>1 DEF Truth
    <2>3. \A j \in Key, x \in Destinations :
            DeliveryIn(m, j, x) = "SENT" => At(accepted, <<j, x>>, 0) > 0
        BY <1>3, <2>1 DEF Truth, Taken
    <2> QED BY <1>3, <1>5, <2>1, <2>2, <2>3 DEF Truth
<1> QED BY <1>1, <1>2, <1>3, <1>4, <1>6, <1>7, <1>8, <1>9, <1>10, WorkerStepKeeps
        DEF Quiet, Bystanders

\* The decision opens the deliveries that no record excludes.
LEMMA DeliverKeeps ==
    ASSUME EngineInv, NEW w \in Workers, Deliver(w)
    PROVE  EngineInv'
<1> DEFINE k == worker[w].key
           to == [d \in Destinations |-> IF d \in channels THEN FirstStep(k, d) ELSE Over("NONE")]
           n == [worker[w] EXCEPT !.at = "delivering", !.to = to]
<1>1. /\ worker[w].at = "deciding" /\ Becomes(w, n) /\ Reads /\ Quiet
      /\ k[1] \in Contents => Publishable(k, worker[w].since)
    BY DEF Deliver, IsEditorial
<1>2. /\ recovery = {} /\ worker[w] \in Worker /\ k \in Key /\ memory \in Document
      /\ WorkerOK(worker[w], memory, accepted, approved, channels)
    BY <1>1, WorkingShape
<1>3. ASSUME NEW d \in Destinations
      PROVE  /\ to[d] \in Delivery /\ to[d].at \in {"over", "saving"}
             /\ DeliveryOK(k, d, to[d], memory, accepted, approved, channels)
    <2>1. DeliveryIn(memory, k, d) \in DeliveryStatus \cup {"NONE"}
        <3>1. memory.deliveries \in Maps(Key \X Destinations, DeliveryStatus)
            BY <1>2 DEF Document
        <3> QED BY <3>1, MapFinds DEF DeliveryIn, At
    <2>2. CASE d \notin channels
        <3>1. to[d] = [at |-> "over", result |-> "NONE", tries |-> 0]
            BY <2>2 DEF Over
        <3> QED BY <3>1, ChannelAssumption DEF Delivery, DeliveryOK
    <2>3. CASE d \in channels /\ DeliveryIn(memory, k, d) \in {"SENT", "UNKNOWN"}
        <3>1. to[d] = [at |-> "over", result |-> DeliveryIn(memory, k, d), tries |-> 0]
            BY <2>3 DEF Over, FirstStep
        <3> QED BY <2>1, <3>1, ChannelAssumption DEF Delivery, DeliveryOK
    <2>4. CASE d \in channels /\ DeliveryIn(memory, k, d) \notin {"SENT", "UNKNOWN"}
        <3>1. to[d] = [at |-> "saving", result |-> "NONE", tries |-> 0]
            BY <2>4 DEF FirstStep
        <3>2. k[1] \in Contents => k \in approved
            <4>1. ASSUME k[1] \in Contents
                  PROVE  <<k[1], memory.contents[k[1]].revision>> \in approved
                BY <1>1, <4>1 DEF Publishable, ItemOf, EngineInv, ItemsOK
            <4> QED BY <1>1, <1>2, <4>1, ContentKey DEF Publishable, ItemOf
        <3> QED BY <2>4, <3>1, <3>2, ChannelAssumption DEF Delivery, DeliveryOK
    <2> QED BY <2>2, <2>3, <2>4
<1>4. to \in [Destinations -> Delivery]
    BY <1>3
<1>5. /\ n \in Worker /\ n.at = "delivering" /\ n.key = k /\ n.todo = worker[w].todo
      /\ n.to = to
    BY <1>2, <1>4 DEF Worker
<1> HIDE DEF n, to
<1>6. WorkerOK(n, memory, accepted, approved, channels) /\ Takes(worker[w], n)
    BY <1>1, <1>2, <1>3, <1>5 DEF WorkerOK, Takes, Holds
<1>7. \A j \in Key, d \in Destinations :
        Shuts(worker[w], j, d) => DeliveryIn(memory, j, d) \in {"SENT", "UNKNOWN"}
    BY <1>1 DEF Shuts
<1> QED BY <1>1, <1>2, <1>5, <1>6, <1>7, LookingKeeps DEF Quiet, Bystanders

\* A delivery is recorded: what was shut in the hands of the worker is shut on record.
LEMMA RecordsKeep ==
    ASSUME EngineInv, NEW w \in Workers, NEW d \in Destinations,
           SaveSending(w, d) \/ RecordDelivery(w, d)
    PROVE  EngineInv'
<1> DEFINE s == worker[w].to[d]
<1>1. worker[w].at = "delivering" /\ s.at # "over" /\ Quiet
    BY DEF SaveSending, RecordDelivery, Delivering
<1>2. /\ worker[w] \in Worker /\ worker \in [Workers -> Worker] /\ s \in Delivery
      /\ DeliveryOK(worker[w].key, d, s, memory, accepted, approved, channels)
    BY <1>1, DeliveringShape DEF Worker, EngineInv, EngineTypeOK
<1>3. CASE SaveSending(w, d)
    <2> DEFINE step == [s EXCEPT !.at = "calling"]
    <2>1. /\ s.at = "saving" /\ SaveDelivery(w, d, "SENDING")
          /\ worker' = [worker EXCEPT ![w].to[d].at = "calling"]
        BY <1>3 DEF SaveSending, Delivering
    <2>2. step \in Delivery /\ step.at = "calling" /\ step.tries < MaxAttempts
        BY <1>2, <2>1 DEF Delivery, DeliveryOK
    <2>3. Becomes(w, [worker[w] EXCEPT !.to[d] = step])
        BY <1>2, <2>1 DEF Becomes, Worker
    <2> QED BY <1>1, <2>1, <2>2, <2>3, DeliveryStepKeeps DEF DeliveryStatus
<1>4. CASE RecordDelivery(w, d)
    <2> DEFINE result == IF s.at = "RETRYABLE" THEN "FAILED" ELSE s.at
    <2>1. /\ s.at \in {"SENT", "FAILED", "UNKNOWN", "RETRYABLE"} /\ SaveDelivery(w, d, result)
          /\ worker' = [worker EXCEPT ![w].to[d] =
                IF s.at = "RETRYABLE" /\ s.tries < MaxAttempts
                THEN [@ EXCEPT !.at = "calling"] ELSE Over(result)]
        BY <1>4 DEF RecordDelivery
    <2>2. /\ result \in DeliveryStatus
          /\ result = "SENT" => Taken(worker[w].key, d) > 0
          /\ s.at \in {"SENT", "UNKNOWN"} => result \in {"SENT", "UNKNOWN"}
        BY <1>2, <2>1 DEF DeliveryStatus, DeliveryOK, Taken
    <2>3. CASE s.at = "RETRYABLE" /\ s.tries < MaxAttempts
        <3> DEFINE step == [s EXCEPT !.at = "calling"]
        <3>1. step \in Delivery /\ step.at = "calling" /\ step.tries < MaxAttempts
            BY <1>2, <2>3 DEF Delivery
        <3>2. Becomes(w, [worker[w] EXCEPT !.to[d] = step])
            BY <1>2, <2>1, <2>3 DEF Becomes, Worker
        <3>3. SaveDelivery(w, d, "FAILED")
            BY <2>1, <2>3
        <3> QED BY <1>1, <2>3, <3>1, <3>2, <3>3, DeliveryStepKeeps DEF DeliveryStatus
    <2>4. CASE ~ (s.at = "RETRYABLE" /\ s.tries < MaxAttempts)
        <3> DEFINE step == Over(result)
        <3>1. step \in Delivery /\ step.at = "over" /\ step.result = result
            BY <2>2, ChannelAssumption DEF Delivery, Over
        <3>2. Becomes(w, [worker[w] EXCEPT !.to[d] = step])
            BY <1>2, <2>1, <2>4 DEF Becomes, Worker
        <3> HIDE DEF result, step
        <3> QED BY <1>1, <2>1, <2>2, <3>1, <3>2, DeliveryStepKeeps
    <2> QED BY <2>3, <2>4
<1> QED BY <1>3, <1>4

\* The workers after a call, written as Call writes them and in another way.
Called(w, d, outcome) == [worker EXCEPT ![w].to[d].at = outcome, ![w].to[d].tries = @ + 1]

LEMMA CallMoves ==
    ASSUME worker \in [Workers -> Worker], NEW w \in Workers, NEW d \in Destinations, NEW outcome
    PROVE  Called(w, d, outcome)
           = [worker EXCEPT ![w] = [worker[w] EXCEPT !.to[d] =
                [worker[w].to[d] EXCEPT !.at = outcome, !.tries = @ + 1]]]
<1> DEFINE s == worker[w].to[d]
           t == worker[w]
           a == [s EXCEPT !.at = outcome]
           x == [s EXCEPT !.at = outcome, !.tries = @ + 1]
           t1 == [t EXCEPT !.to[d] = a]
           W1 == [worker EXCEPT ![w] = t1]
<1>1. t \in Worker /\ s \in Delivery /\ t.to \in [Destinations -> Delivery]
    BY DEF Worker
<1>2. [worker EXCEPT ![w].to[d].at = outcome] = W1
    OBVIOUS
<1>3. t1.to[d] = a /\ W1[w] = t1
    BY <1>1 DEF Worker
<1>4. [a EXCEPT !.tries = s.tries + 1] = x
    BY <1>1 DEF Delivery
<1>5. [W1 EXCEPT ![w].to[d].tries = s.tries + 1] = [W1 EXCEPT ![w] = [t1 EXCEPT !.to[d] = x]]
    BY <1>3, <1>4
<1>6. [t1 EXCEPT !.to[d] = x] = [t EXCEPT !.to[d] = x]
    BY <1>1 DEF Worker
<1>7. [worker EXCEPT ![w].to[d].at = outcome, ![w].to[d].tries = @ + 1]
      = [[worker EXCEPT ![w].to[d].at = outcome] EXCEPT ![w].to[d].tries = s.tries + 1]
    OBVIOUS
<1> QED BY <1>2, <1>5, <1>6, <1>7 DEF Called

\* A channel takes the message, perhaps; nothing is written.
LEMMA CallKeeps ==
    ASSUME EngineInv, NEW w \in Workers, NEW d \in Destinations, Call(w, d)
    PROVE  EngineInv'
<1> DEFINE s == worker[w].to[d]
           k == worker[w].key
<1>1. /\ worker[w].at = "delivering" /\ s.at = "calling" /\ Reads /\ Bystanders
      /\ troubles' = troubles \/ (Disturbable /\ troubles' = troubles + 1)
    BY DEF Call, Delivering
<1>2. PICK outcome \in {"SENT", "FAILED", "RETRYABLE", "UNKNOWN"}, taken \in BOOLEAN :
        /\ outcome = "SENT" => taken
        /\ outcome \in {"FAILED", "RETRYABLE"} => ~ taken
        /\ worker' = Called(w, d, outcome)
        /\ accepted' = IF taken THEN Put(accepted, <<k, d>>, 1 + Taken(k, d)) ELSE accepted
    BY DEF Call, Called
<1>3. /\ recovery = {} /\ worker[w] \in Worker /\ k \in Key /\ memory \in Document
      /\ WorkerOK(worker[w], memory, accepted, approved, channels)
      /\ DeliveryOK(k, d, s, memory, accepted, approved, channels)
      /\ JobIn(memory, k) = "PUBLISHING"
      /\ d \in channels /\ DeliveryIn(memory, k, d) \notin {"SENT", "UNKNOWN"}
      /\ k[1] \in Contents => k \in approved
    BY <1>1, DeliveringShape
<1>4. /\ worker \in [Workers -> Worker] /\ disk \in Document
      /\ accepted \in Maps(Key \X Destinations, Nat)
      /\ failures \in 0 .. MaxWriteFailures
      /\ {crashes, switches, troubles} \subseteq Nat
      /\ crashes + switches + troubles <= MaxDisturbances
    BY DEF EngineInv, EngineTypeOK
<1> DEFINE step == [s EXCEPT !.at = outcome, !.tries = @ + 1]
           n == [worker[w] EXCEPT !.to[d] = step]
<1>5. s \in Delivery /\ s.tries < MaxAttempts
    BY <1>1, <1>3 DEF Worker, DeliveryOK
<1>6. step \in Delivery /\ step.at = outcome
    <2>1. s.tries \in 0 .. MaxAttempts /\ MaxAttempts \in Nat
        BY <1>5, ChannelAssumption DEF Delivery
    <2>2. s.tries + 1 \in 0 .. MaxAttempts
        BY <1>5, <2>1
    <2> QED BY <1>5, <2>2 DEF Delivery
<1>7. worker' = [worker EXCEPT ![w] = n]
    <2>1. Called(w, d, outcome)
          = [worker EXCEPT ![w] = [worker[w] EXCEPT !.to[d] =
                [worker[w].to[d] EXCEPT !.at = outcome, !.tries = @ + 1]]]
        BY ONLY <1>4, w \in Workers, d \in Destinations, CallMoves
    <2> QED BY <1>2, <2>1
<1>8. /\ n \in Worker /\ n.at = "delivering" /\ n.key = k /\ n.todo = worker[w].todo
      /\ \A x \in Destinations : n.to[x] = IF x = d THEN step ELSE worker[w].to[x]
    BY <1>1, <1>3, <1>6, StepShape
<1> HIDE DEF n, step
<1>9. \A x : At(accepted, x, 0) \in Nat
    BY <1>4, TakenIsNat
<1>10. /\ accepted' \in Maps(Key \X Destinations, Nat)
       /\ \A x : At(accepted', x, 0) =
            IF taken /\ x = <<k, d>> THEN 1 + Taken(k, d) ELSE At(accepted, x, 0)
    <2>1. Taken(k, d) \in Nat /\ <<k, d>> \in Key \X Destinations
        BY <1>3, <1>9 DEF Taken
    <2>2. CASE taken
        <3>1. 1 + Taken(k, d) \in Nat
            BY <2>1
        <3>2. accepted' = Put(accepted, <<k, d>>, 1 + Taken(k, d))
            BY <1>2, <2>2
        <3>3. /\ Put(accepted, <<k, d>>, 1 + Taken(k, d)) \in Maps(Key \X Destinations, Nat)
              /\ \A x : At(Put(accepted, <<k, d>>, 1 + Taken(k, d)), x, 0)
                        = IF x = <<k, d>> THEN 1 + Taken(k, d) ELSE At(accepted, x, 0)
            BY <1>4, <2>1, <3>1, PutMap
        <3> QED BY <2>2, <3>2, <3>3
    <2>3. CASE ~ taken
        BY <1>2, <1>4, <2>3
    <2> QED BY <2>2, <2>3
<1>11. Grows(accepted')
    BY <1>9, <1>10 DEF Grows, Taken
<1>12. KeepsItems(memory) /\ Own(worker[w], memory) /\ Takes(worker[w], n)
    BY <1>1, <1>8 DEF KeepsItems, Own, SameFor, Takes, Holds
<1>13. WorkerOK(n, memory, accepted', approved, channels)
    <2>1. ASSUME NEW x \in Destinations
          PROVE  DeliveryOK(k, x, n.to[x], memory, accepted', approved, channels)
        <3>1. CASE x = d
            <4>1. outcome = "SENT" => At(accepted', <<k, d>>, 0) > 0
                BY <1>2, <1>9, <1>10 DEF Taken
            <4> QED BY <1>3, <1>6, <1>8, <3>1, <4>1 DEF DeliveryOK
        <3>2. CASE x # d
            <4>1. DeliveryOK(k, x, worker[w].to[x], memory, accepted, approved, channels)
                BY <1>1, <1>3 DEF WorkerOK
            <4>2. At(accepted', <<k, x>>, 0) = At(accepted, <<k, x>>, 0)
                BY <1>10, <3>2
            <4> QED BY <1>8, <3>2, <4>1, <4>2 DEF DeliveryOK
        <3> QED BY <3>1, <3>2
    <2> QED BY <1>1, <1>3, <1>8, <2>1 DEF WorkerOK, Holds
<1>14. EngineTypeOK'
    <2>1. worker' \in [Workers -> Worker]
        BY <1>4, <1>7, <1>8
    <2>2. /\ {crashes', switches', troubles'} \subseteq Nat
          /\ crashes' + switches' + troubles' <= MaxDisturbances
        BY <1>1, <1>4, ChannelAssumption DEF Disturbable, Bystanders
    <2> QED BY <1>1, <1>10, <2>1, <2>2 DEF EngineInv, EngineTypeOK, Reads, Bystanders
<1>15. WorkersOK' /\ Alone'
    <2>1. \A acc, W : acc = accepted' /\ W = [worker EXCEPT ![w] = n] =>
            /\ \A v \in Workers : WorkerOK(W[v], memory, acc, approved, channels)
            /\ \A u, v \in Workers : Holds(W[u]) /\ Holds(W[v]) /\ W[u].key = W[v].key => u = v
        <3> SUFFICES ASSUME NEW acc, acc = accepted', NEW W, W = [worker EXCEPT ![w] = n]
                     PROVE  /\ \A v \in Workers : WorkerOK(W[v], memory, acc, approved, channels)
                            /\ \A u, v \in Workers :
                                Holds(W[u]) /\ Holds(W[v]) /\ W[u].key = W[v].key => u = v
            OBVIOUS
        <3>1. Grows(acc) /\ WorkerOK(n, memory, acc, approved, channels)
            BY <1>11, <1>13
        <3>2. WorkersOK /\ Alone /\ approved \subseteq approved
            BY DEF EngineInv
        <3>3. w \in Workers /\ n \in Worker /\ KeepsItems(memory)
            BY <1>8, <1>12
        <3>4. Own(worker[w], memory) /\ Takes(worker[w], n)
            BY <1>12
        <3>5. worker \in [Workers -> Worker] /\ accepted \in Maps(Key \X Destinations, Nat)
            BY <1>4
        <3> QED BY ONLY <3>1, <3>2, <3>3, <3>4, <3>5, W = [worker EXCEPT ![w] = n], WorkersKept
    <2>2. /\ \A v \in Workers : WorkerOK(worker'[v], memory, accepted', approved, channels)
          /\ \A u, v \in Workers :
                Holds(worker'[u]) /\ Holds(worker'[v]) /\ worker'[u].key = worker'[v].key => u = v
        BY <1>7, <2>1
    <2> QED BY <1>1, <2>2 DEF WorkersOK, Alone, Reads, Bystanders
<1>16. RequestsOK' /\ RecoveryOK'
    BY <1>1, <1>3 DEF EngineInv, RequestsOK, RecoveryOK, Reads, Bystanders
<1>17. ItemsOK(memory, approved)' /\ ItemsOK(disk, approved)'
    BY <1>1 DEF EngineInv, ItemsOK, Reads, Bystanders
<1>18. Truth(memory, accepted)' /\ Truth(disk, accepted)'
    <2>1. ASSUME NEW m, Truth(m, accepted) PROVE Truth(m, accepted')
        BY <1>9, <1>10, <2>1 DEF Truth, Taken
    <2>2. Truth(memory, accepted') /\ Truth(disk, accepted')
        BY <2>1 DEF EngineInv
    <2> QED BY <1>1, <2>2 DEF Reads
<1>19. OnceALife'
    <2> SUFFICES ASSUME NEW j \in Key, NEW x \in Destinations
                 PROVE  At(accepted', <<j, x>>, 0) <= crashes + One(Shut(j, x)')
        BY <1>1 DEF OnceALife, Taken, Bystanders, One
    <2>1. At(accepted, <<j, x>>, 0) <= crashes + One(Shut(j, x))
        BY DEF EngineInv, OnceALife, Taken
    <2>2. CASE taken /\ j = k /\ x = d
        <3>1. ~ Shut(j, x)
            <4>1. ASSUME NEW v \in Workers, Shuts(worker[v], j, x) PROVE FALSE
                <5>1. Holds(worker[v]) /\ Holds(worker[w]) /\ worker[v].key = worker[w].key
                    BY <1>1, <2>2, <4>1 DEF Shuts, Holds
                <5>2. v = w
                    BY <5>1 DEF EngineInv, Alone
                <5> QED BY <1>1, <2>2, <4>1, <5>2 DEF Shuts
            <4> QED BY <1>3, <2>2, <4>1 DEF Shut
        <3>2. Shut(j, x)'
            <4>1. Shuts(n, j, x)
                BY <1>2, <1>6, <1>8, <2>2 DEF Shuts
            <4>2. Shuts(worker'[w], j, x)
                BY <1>4, <1>7, <4>1
            <4> QED BY <4>2 DEF Shut
        <3> QED BY <1>4, <1>9, <1>10, <2>1, <2>2, <3>1, <3>2 DEF One, Taken
    <2>3. CASE ~ (taken /\ j = k /\ x = d)
        <3>1. At(accepted', <<j, x>>, 0) = At(accepted, <<j, x>>, 0)
            BY <1>10, <2>3
        <3>2. Shut(j, x) => Shut(j, x)'
            <4>1. ASSUME NEW v \in Workers, Shuts(worker[v], j, x)
                  PROVE  Shuts(worker'[v], j, x)
                <5>1. CASE v # w
                    BY <1>4, <1>7, <4>1, <5>1
                <5>2. CASE v = w
                    BY <1>1, <1>4, <1>7, <1>8, <4>1, <5>2 DEF Shuts
                <5> QED BY <5>1, <5>2
            <4> QED BY <1>1, <4>1 DEF Shut, Reads
        <3> QED BY <1>4, <1>9, <2>1, <3>1, <3>2 DEF One
    <2> QED BY <2>2, <2>3
<1>20. TakenWasApproved'
    <2>1. ASSUME NEW c \in Contents, NEW r \in Revisions, NEW x \in Destinations,
                 At(accepted', <<<<c, r>>, x>>, 0) > 0
          PROVE  <<c, r>> \in approved
        BY <1>3, <1>10, <2>1 DEF EngineInv, TakenWasApproved, Taken
    <2> QED BY <1>1, <2>1 DEF TakenWasApproved, Taken, Bystanders
<1> QED BY <1>14, <1>15, <1>16, <1>17, <1>18, <1>19, <1>20 DEF EngineInv

\* All the steps of a publication.
LEMMA StepKeeps ==
    ASSUME EngineInv, NEW w \in Workers, Step(w)
    PROVE  EngineInv'
BY NextDueKeeps, StatusStepsKeep, JobStepsKeep, LookingStepsKeep, DeliverKeeps,
   RecordsKeep, CallKeeps, FinishJobKeeps DEF Step

-----------------------------------------------------------------------------
(* What starts a publication *)

LEMMA StartKeeps ==
    ASSUME EngineInv, recovery = {}, NEW w \in Workers, NEW n \in Worker,
           worker[w].at = "idle", Becomes(w, n), Reads,
           UNCHANGED <<channels, request, now, approved, recovery, crashes, switches, troubles, accepted>>,
           n.at \in {"listing", "creating", "entering"},
           \A c \in n.todo : memory.contents[c].status # "NONE",
           n.at = "listing" => n.key = NoKey,
           n.at # "listing" => n.key \in Key,
           n.at # "listing" /\ n.key[1] \in Contents => memory.contents[n.key[1]].status # "NONE"
    PROVE  EngineInv'
<1>1. WorkerOK(n, memory, accepted, approved, channels) /\ Takes(worker[w], n)
    BY DEF WorkerOK, Takes, Holds
<1>2. \A k \in Key, d \in Destinations :
        Shuts(worker[w], k, d) => DeliveryIn(memory, k, d) \in {"SENT", "UNKNOWN"}
    BY DEF Shuts
<1> QED BY <1>1, <1>2, LookingKeeps

\* Ticks, buttons, price cycles and retries.
LEMMA StartTickKeeps ==
    ASSUME EngineInv, NEW w \in Workers, StartTick(w)
    PROVE  EngineInv'
<1> DEFINE n == [Idle EXCEPT !.at = "listing", !.todo = {c \in Contents : Due(c)}, !.since = now]
<1>1. /\ recovery = {} /\ worker[w].at = "idle" /\ Becomes(w, n) /\ Reads
      /\ UNCHANGED <<channels, request, now, approved, recovery, crashes, switches, troubles, accepted>>
    BY DEF StartTick, Starts, Up
<1>2. now \in 0 .. MaxTime /\ {c \in Contents : Due(c)} \in SUBSET Contents
    BY DEF EngineInv, EngineTypeOK
<1>3. n \in Worker /\ n.at = "listing" /\ n.todo = {c \in Contents : Due(c)} /\ n.key = NoKey
    BY <1>2, ListingShape
<1> HIDE DEF n
<1>4. \A c \in n.todo : memory.contents[c].status # "NONE"
    BY <1>3 DEF Due
<1> QED BY <1>1, <1>3, <1>4, StartKeeps

LEMMA AskedForKeeps ==
    ASSUME EngineInv, NEW w \in Workers,
           \/ \E c \in Contents : PublishNow(w, c)
           \/ \E s \in PriceSlots : PublishPrices(w, s)
           \/ \E k \in DOMAIN memory.jobs : Retry(w, k)
    PROVE  EngineInv'
<1>1. now \in 0 .. MaxTime /\ memory \in Document
    BY DEF EngineInv, EngineTypeOK
<1>2. ASSUME NEW c \in Contents, PublishNow(w, c) PROVE EngineInv'
    <2> DEFINE n == [Idle EXCEPT !.at = "creating", !.key = KeyOf(c), !.since = now]
    <2>1. /\ recovery = {} /\ worker[w].at = "idle" /\ Becomes(w, n) /\ Reads
          /\ UNCHANGED <<channels, request, now, approved, recovery, crashes, switches, troubles, accepted>>
          /\ memory.contents[c].status # "NONE"
        BY <1>2 DEF PublishNow, Starts, Up
    <2>2. KeyOf(c) \in Key /\ KeyOf(c)[1] = c
        BY <2>1, KeyOfIsKey
    <2>3. n \in Worker /\ n.at = "creating" /\ n.todo = {} /\ n.key = KeyOf(c)
        BY <1>1, <2>2, KeyedShape
    <2> HIDE DEF n
    <2> QED BY <2>1, <2>2, <2>3, StartKeeps
<1>3. ASSUME NEW s \in PriceSlots, PublishPrices(w, s) PROVE EngineInv'
    <2> DEFINE n == [Idle EXCEPT !.at = "creating", !.key = <<s, 0>>, !.since = now, !.priced = TRUE]
    <2>1. /\ recovery = {} /\ worker[w].at = "idle" /\ Becomes(w, n) /\ Reads
          /\ UNCHANGED <<channels, request, now, approved, recovery, crashes, switches, troubles, accepted>>
        BY <1>3 DEF PublishPrices, Starts, Up
    <2>2. <<s, 0>> \in Key /\ <<s, 0>>[1] \notin Contents
        BY ContentAssumption, ChannelAssumption DEF Key
    <2>3. n \in Worker /\ n.at = "creating" /\ n.todo = {} /\ n.key = <<s, 0>>
        BY <1>1, <2>2, PricedShape
    <2> HIDE DEF n
    <2> QED BY <2>1, <2>2, <2>3, StartKeeps
<1>4. ASSUME NEW k \in DOMAIN memory.jobs, Retry(w, k) PROVE EngineInv'
    <2> DEFINE n == [Idle EXCEPT !.at = "entering", !.key = k, !.since = now]
    <2>1. /\ recovery = {} /\ worker[w].at = "idle" /\ Becomes(w, n) /\ Reads
          /\ UNCHANGED <<channels, request, now, approved, recovery, crashes, switches, troubles, accepted>>
          /\ JobIn(memory, k) = "FAILED"
        BY <1>4 DEF Retry, Starts, Up
    <2>2. k \in Key
        BY <1>1, MapFinds DEF Document
    <2>3. k[1] \in Contents => memory.contents[k[1]].status # "NONE"
        BY <2>1, <2>2 DEF EngineInv, ItemsOK
    <2>4. n \in Worker /\ n.at = "entering" /\ n.todo = {} /\ n.key = k
        BY <1>1, <2>2, KeyedShape
    <2> HIDE DEF n
    <2> QED BY <2>1, <2>2, <2>3, <2>4, StartKeeps
<1> QED BY <1>2, <1>3, <1>4

-----------------------------------------------------------------------------
(* What changes the document beside the publications *)

\* A change of the document that concerns no job.
LEMMA DocumentKeeps ==
    ASSUME EngineInv, NEW m \in Document,
           Save(m) \/ (m = memory /\ Reads),
           m.jobs = memory.jobs, m.deliveries = memory.deliveries,
           KeepsItems(m),
           ItemsOK(m, approved'), approved \subseteq approved', approved' \subseteq Contents \X Revisions,
           \A c \in Contents : m.contents[c].status = "PUBLISHED" => memory.contents[c].status = "PUBLISHED",
           UNCHANGED <<channels, worker, recovery, crashes, troubles, accepted>>,
           now' \in 0 .. MaxTime,
           switches' = switches \/ (Disturbable /\ switches' = switches + 1),
           request' \in [Admins -> Request \cup {NoRequest}],
           \A p \in Admins : request'[p] # NoRequest =>
                memory.contents[request'[p].content].status # "NONE"
    PROVE  EngineInv'
<1>1. /\ worker \in [Workers -> Worker] /\ memory \in Document /\ disk \in Document
      /\ accepted \in Maps(Key \X Destinations, Nat)
      /\ failures \in 0 .. MaxWriteFailures
      /\ {crashes, switches, troubles} \subseteq Nat
      /\ crashes + switches + troubles <= MaxDisturbances
    BY DEF EngineInv, EngineTypeOK
<1>2. /\ memory' = m /\ (disk' = m \/ disk' = disk)
      /\ failures' \in 0 .. MaxWriteFailures
    BY <1>1, SavedEitherWay DEF Reads
<1>3. /\ \A j : JobIn(m, j) = JobIn(memory, j)
      /\ \A j, d : DeliveryIn(m, j, d) = DeliveryIn(memory, j, d)
    BY DEF JobIn, DeliveryIn
<1>4. EngineTypeOK'
    <2>1. /\ {crashes', switches', troubles'} \subseteq Nat
          /\ crashes' + switches' + troubles' <= MaxDisturbances
        BY <1>1, ChannelAssumption DEF Disturbable
    <2> QED BY <1>1, <1>2, <2>1 DEF EngineInv, EngineTypeOK
<1>5. Grows(accepted)
    <2>1. \A x : At(accepted, x, 0) \in Nat
        BY <1>1, TakenIsNat
    <2> QED BY <1>1, <2>1 DEF Grows, Taken
<1>6. WorkersOK'
    <2>1. ASSUME NEW v \in Workers
          PROVE  \A app : app = approved' => WorkerOK(worker[v], m, accepted, app, channels)
        <3>1. worker[v] \in Worker /\ WorkerOK(worker[v], memory, accepted, approved, channels)
            BY <1>1 DEF EngineInv, WorkersOK
        <3>2. SameFor(memory, m, worker[v].key)
            BY <1>3 DEF SameFor
        <3> QED BY <1>1, <1>5, <3>1, <3>2, OthersAreSpared
    <2>2. \A v \in Workers : WorkerOK(worker[v], m, accepted, approved', channels)
        BY <2>1
    <2> QED BY <1>2, <2>2 DEF WorkersOK
<1>7. Alone' /\ RecoveryOK'
    BY <1>2, <1>3 DEF EngineInv, Alone, RecoveryOK, ToRecover
<1>8. RequestsOK'
    <2>1. ASSUME NEW p \in Admins, request'[p] # NoRequest
          PROVE  m.contents[request'[p].content].status # "NONE"
        <3>1. request'[p] \in Request
            BY <2>1
        <3>2. request'[p].content \in Contents
            BY <3>1 DEF Request
        <3> QED BY <2>1, <3>2 DEF KeepsItems
    <2> QED BY <1>2, <2>1 DEF RequestsOK
<1>9. ItemsOK(memory, approved)' /\ ItemsOK(disk, approved)'
    BY <1>2 DEF EngineInv, ItemsOK
<1>10. Truth(memory, accepted)' /\ Truth(disk, accepted)'
    <2>1. Truth(m, accepted)
        BY <1>3 DEF EngineInv, Truth
    <2>2. Truth(disk, accepted)
        BY DEF EngineInv
    <2>3. Truth(memory', accepted) /\ Truth(disk', accepted)
        BY <1>2, <2>1, <2>2
    <2> QED BY <2>3 DEF Truth
<1>11. OnceALife'
    BY <1>2, <1>3 DEF EngineInv, OnceALife, Taken, Shut
<1>12. TakenWasApproved'
    BY DEF EngineInv, TakenWasApproved, Taken
<1> QED BY <1>4, <1>6, <1>7, <1>8, <1>9, <1>10, <1>11, <1>12 DEF EngineInv

\* The methods of the content service.
LEMMA CreateKeeps ==
    ASSUME EngineInv, NEW c \in Contents, Create(c), UNCHANGED engineVars
    PROVE  EngineInv'
<1> DEFINE item == [NoItem EXCEPT !.status = "DRAFT", !.revision = 1,
                                  !.day = IF c \in Nightly THEN now ELSE 0]
           m == [memory EXCEPT !.contents[c] = item]
<1>1. /\ memory.contents[c].status = "NONE" /\ Save(m)
      /\ UNCHANGED <<request, now, approved>>
    BY DEF Create
<1>2. memory \in Document /\ now \in 0 .. MaxTime /\ memory.contents[c] \in Item
    BY DEF EngineInv, EngineTypeOK, Document
<1>3. CASE 1 \in Revisions
    <2>1. NoItem \in Item /\ ~ NoItem.approved
        BY ContentAssumption DEF NoItem, Item, ContentStatus
    <2>2. item \in Item /\ item.status = "DRAFT" /\ item.revision = 1 /\ ~ item.approved
        <3>1. (IF c \in Nightly THEN now ELSE 0) \in 0 .. MaxTime /\ 1 \in 0 .. MaxRevision
            BY <1>2, ContentAssumption
        <3> QED BY <2>1, <3>1 DEF Item, ContentStatus
    <2> HIDE DEF item
    <2>3. /\ m \in Document /\ m.jobs = memory.jobs /\ m.deliveries = memory.deliveries
          /\ \A e \in Contents : m.contents[e] = IF e = c THEN item ELSE memory.contents[e]
        BY <1>2, <2>2, ItemSaved
    <2> HIDE DEF m
    <2>4. KeepsItems(m)
        BY <2>2, <2>3 DEF KeepsItems
    <2>5. ItemsOK(m, approved)
        BY <1>3, <2>2, <2>3 DEF EngineInv, ItemsOK, JobIn
    <2>6. \A e \in Contents : m.contents[e].status = "PUBLISHED" => memory.contents[e].status = "PUBLISHED"
        BY <2>2, <2>3
    <2>7. /\ request' \in [Admins -> Request \cup {NoRequest}]
          /\ \A p \in Admins : request'[p] # NoRequest =>
                memory.contents[request'[p].content].status # "NONE"
          /\ approved' \subseteq Contents \X Revisions
        BY <1>1 DEF EngineInv, RequestsOK, EngineTypeOK
    <2> QED BY <1>1, <1>2, <2>3, <2>4, <2>5, <2>6, <2>7, DocumentKeeps DEF engineVars
<1> QED BY <1>3, ContentAssumption DEF Revisions

LEMMA AskKeeps ==
    ASSUME EngineInv, NEW p \in Admins, NEW kind \in Requests, NEW c \in Contents,
           NEW at \in 0 .. MaxTime, Ask(p, kind, c, at), UNCHANGED engineVars
    PROVE  EngineInv'
<1> DEFINE r == [kind |-> kind, content |-> c, at |-> at]
<1>1. /\ Allowed(kind, memory.contents[c]) /\ Reads
      /\ request' = [request EXCEPT ![p] = r] /\ UNCHANGED <<now, approved>>
    BY DEF Ask, Reads
<1>2. memory.contents[c].status # "NONE"
    BY <1>1 DEF Allowed, Requests
<1>3. r \in Request /\ r.content = c
    BY DEF Request
<1> HIDE DEF r
<1>4. request \in [Admins -> Request \cup {NoRequest}]
    BY DEF EngineInv, RequestsOK
<1>5. /\ request' \in [Admins -> Request \cup {NoRequest}]
      /\ \A q \in Admins : request'[q] = IF q = p THEN r ELSE request[q]
    BY <1>1, <1>3, <1>4
<1>6. \A q \in Admins : request'[q] # NoRequest =>
            memory.contents[request'[q].content].status # "NONE"
    BY <1>2, <1>3, <1>5 DEF EngineInv, RequestsOK
<1>7. /\ memory \in Document /\ KeepsItems(memory) /\ ItemsOK(memory, approved)
      /\ approved \subseteq Contents \X Revisions /\ now \in 0 .. MaxTime
    BY DEF EngineInv, EngineTypeOK, KeepsItems
<1> QED BY <1>1, <1>5, <1>6, <1>7, DocumentKeeps DEF engineVars

\* What a request makes of an item.
LEMMA ChangedShape ==
    ASSUME NEW r \in Request, NEW old \in Item, old.status # "NONE",
           old.revision \in Revisions, Changed(r, old).revision <= MaxRevision
    PROVE  LET item == Changed(r, old) IN
           /\ item \in Item /\ item.status \notin {"NONE", "PUBLISHED"}
           /\ item.revision \in Revisions
           /\ item.approved => r.kind = "approve" \/ (old.approved /\ item.revision = old.revision)
<1> DEFINE item == Changed(r, old)
<1>1. old.revision \in 1 .. MaxRevision /\ MaxRevision \in Nat /\ 0 \in 0 .. MaxTime
    BY ContentAssumption DEF Revisions
<1>2. r.kind \in Requests /\ r.at \in 0 .. MaxTime
    BY DEF Request
<1>3. CASE r.kind = "edit"
    <2>1. item = Revised(old)
        BY <1>3 DEF Changed
    <2>2. old.revision + 1 \in 1 .. MaxRevision /\ old.revision + 1 \in 0 .. MaxRevision
        BY <1>1, <2>1 DEF Revised, Item
    <2> QED BY <1>1, <2>1, <2>2 DEF Revised, Item, Revisions, ContentStatus
<1>4. CASE r.kind = "approve"
    <2>1. item = Approved(old)
        BY <1>4 DEF Changed
    <2> QED BY <1>4, <2>1 DEF Approved, Item, Revisions, ContentStatus
<1>5. CASE r.kind = "schedule"
    <2>1. item = Scheduled(old, r.at)
        BY <1>5 DEF Changed
    <2> QED BY <1>2, <2>1 DEF Scheduled, Item, Revisions, ContentStatus
<1>6. CASE r.kind = "cancel"
    <2>1. item = Cancelled(old)
        BY <1>6 DEF Changed
    <2> QED BY <1>1, <2>1 DEF Cancelled, Item, Revisions, ContentStatus
<1>7. CASE r.kind = "reopen"
    <2>1. item = Reopened(old)
        BY <1>7 DEF Changed
    <2>2. old.revision + 1 \in 1 .. MaxRevision /\ old.revision + 1 \in 0 .. MaxRevision
        BY <1>1, <2>1 DEF Reopened, Item
    <2> QED BY <1>1, <2>1, <2>2 DEF Reopened, Item, Revisions, ContentStatus
<1> QED BY <1>2, <1>3, <1>4, <1>5, <1>6, <1>7 DEF Requests

LEMMA ChangeKeeps ==
    ASSUME EngineInv, NEW p \in Admins, Change(p), UNCHANGED engineVars
    PROVE  EngineInv'
<1> DEFINE r == request[p]
           c == r.content
           item == Changed(r, memory.contents[c])
           m == [memory EXCEPT !.contents[c] = item]
<1>1. /\ r # NoRequest /\ item.revision <= MaxRevision /\ Save(m)
      /\ approved' = IF r.kind = "approve" THEN approved \cup {<<c, item.revision>>} ELSE approved
      /\ request' = [request EXCEPT ![p] = NoRequest] /\ now' = now
    BY DEF Change
<1>2. /\ memory \in Document /\ now \in 0 .. MaxTime /\ approved \subseteq Contents \X Revisions
      /\ ItemsOK(memory, approved) /\ request \in [Admins -> Request \cup {NoRequest}]
    BY DEF EngineInv, EngineTypeOK, RequestsOK
<1>3. r \in Request /\ c \in Contents
    <2>1. r \in Request
        BY <1>1, <1>2
    <2> QED BY <2>1 DEF Request
<1>4. memory.contents[c].status # "NONE"
    BY <1>1 DEF EngineInv, RequestsOK
<1>5. memory.contents[c] \in Item /\ memory.contents[c].revision \in Revisions
    BY <1>2, <1>3, <1>4 DEF Document, ItemsOK
<1>6. /\ item \in Item /\ item.status \notin {"NONE", "PUBLISHED"} /\ item.revision \in Revisions
      /\ item.approved => \/ r.kind = "approve"
                          \/ /\ memory.contents[c].approved
                             /\ item.revision = memory.contents[c].revision
    BY <1>1, <1>3, <1>4, <1>5, ChangedShape
<1> HIDE DEF item
<1>7. /\ m \in Document /\ m.jobs = memory.jobs /\ m.deliveries = memory.deliveries
      /\ \A e \in Contents : m.contents[e] = IF e = c THEN item ELSE memory.contents[e]
    BY <1>2, <1>3, <1>6, ItemSaved
<1> HIDE DEF m
<1>8. approved \subseteq approved' /\ approved' \subseteq Contents \X Revisions
    BY <1>1, <1>2, <1>3, <1>6
<1>9. KeepsItems(m)
    BY <1>6, <1>7 DEF KeepsItems
<1>10. ItemsOK(m, approved')
    <2>1. ASSUME NEW e \in Contents
          PROVE  /\ m.contents[e].status # "NONE" => m.contents[e].revision \in Revisions
                 /\ m.contents[e].approved => <<e, m.contents[e].revision>> \in approved'
        <3>1. CASE e = c
            <4>1. item.approved => <<c, item.revision>> \in approved'
                BY <1>1, <1>2, <1>3, <1>6, <1>8 DEF ItemsOK
            <4> QED BY <1>6, <1>7, <3>1, <4>1
        <3>2. CASE e # c
            BY <1>2, <1>7, <1>8, <3>2 DEF ItemsOK
        <3> QED BY <3>1, <3>2
    <2>2. ASSUME NEW e \in Contents, NEW k \in Key, k[1] = e, JobIn(m, k) # "NONE"
          PROVE  m.contents[e].status # "NONE"
        <3>1. JobIn(memory, k) # "NONE"
            BY <1>7, <2>2 DEF JobIn
        <3> QED BY <1>2, <1>9, <2>2, <3>1 DEF ItemsOK, KeepsItems
    <2> QED BY <2>1, <2>2 DEF ItemsOK
<1>11. \A e \in Contents : m.contents[e].status = "PUBLISHED" => memory.contents[e].status = "PUBLISHED"
    BY <1>6, <1>7
<1>12. /\ request' \in [Admins -> Request \cup {NoRequest}]
       /\ \A q \in Admins : request'[q] # NoRequest => request'[q] = request[q]
    BY <1>1, <1>2
<1>13. \A q \in Admins : request'[q] # NoRequest =>
            memory.contents[request'[q].content].status # "NONE"
    BY <1>12 DEF EngineInv, RequestsOK
<1> QED BY <1>1, <1>2, <1>7, <1>8, <1>9, <1>10, <1>11, <1>12, <1>13, DocumentKeeps DEF engineVars

\* A document that differs in nothing the publications look at.
LEMMA AsideKeeps ==
    ASSUME EngineInv, NEW m \in Document,
           Save(m) \/ (m = memory /\ Reads),
           m.jobs = memory.jobs, m.deliveries = memory.deliveries, m.contents = memory.contents,
           UNCHANGED <<channels, worker, recovery, crashes, troubles, accepted, request, approved>>,
           now' \in 0 .. MaxTime,
           switches' = switches \/ (Disturbable /\ switches' = switches + 1)
    PROVE  EngineInv'
<1>1. KeepsItems(m) /\ ItemsOK(m, approved)
    BY DEF KeepsItems, EngineInv, ItemsOK, JobIn
<1>2. /\ request' \in [Admins -> Request \cup {NoRequest}]
      /\ \A p \in Admins : request'[p] # NoRequest =>
            memory.contents[request'[p].content].status # "NONE"
      /\ approved' \subseteq Contents \X Revisions
    BY DEF EngineInv, RequestsOK, EngineTypeOK
<1> QED BY <1>1, <1>2, DocumentKeeps

LEMMA TickKeeps ==
    ASSUME EngineInv, Tick, UNCHANGED engineVars
    PROVE  EngineInv'
<1>1. Reads /\ UNCHANGED <<request, approved>> /\ now < MaxTime /\ now' = now + 1
    BY DEF Tick, Reads
<1>2. memory \in Document /\ now' \in 0 .. MaxTime
    BY <1>1, ContentAssumption DEF EngineInv, EngineTypeOK
<1> QED BY <1>1, <1>2, AsideKeeps DEF engineVars

LEMMA SwitchKeeps ==
    ASSUME EngineInv, SetPublishingEnabled
    PROVE  EngineInv'
<1> DEFINE m == [memory EXCEPT !.enabled = ~ @]
<1>1. memory \in Document /\ now \in 0 .. MaxTime
    BY DEF EngineInv, EngineTypeOK
<1>2. /\ m \in Document /\ m.jobs = memory.jobs /\ m.deliveries = memory.deliveries
      /\ m.contents = memory.contents
    BY <1>1 DEF Document
<1>3. Save(m) /\ Disturbable /\ switches' = switches + 1
      /\ UNCHANGED <<channels, worker, recovery, crashes, troubles, accepted, request, approved, now>>
    BY DEF SetPublishingEnabled
<1> HIDE DEF m
<1> QED BY <1>1, <1>2, <1>3, AsideKeeps

-----------------------------------------------------------------------------
(* Crashes and the recovery *)

LEMMA CrashKeeps ==
    ASSUME EngineInv, Crash
    PROVE  EngineInv'
<1>1. /\ worker \in [Workers -> Worker] /\ memory \in Document /\ disk \in Document
      /\ accepted \in Maps(Key \X Destinations, Nat)
      /\ {crashes, switches, troubles} \subseteq Nat
      /\ crashes + switches + troubles <= MaxDisturbances
    BY DEF EngineInv, EngineTypeOK
<1>2. /\ memory' = disk /\ disk' = disk /\ accepted' = accepted
      /\ worker' = [w \in Workers |-> Idle]
      /\ request' = [p \in Admins |-> NoRequest]
      /\ recovery' = {[at |-> "settle", key |-> k] : k \in Interrupted(disk)}
      /\ crashes' = crashes + 1 /\ Disturbable
      /\ UNCHANGED <<channels, failures, now, approved, switches, troubles>>
    BY DEF Crash
<1>3. /\ Idle \in Worker
      /\ \A w \in Workers : worker'[w] = Idle
    BY <1>2, IdleShape
<1>4. ASSUME NEW e \in recovery'
      PROVE  e \in [at : {"settle", "mark"}, key : Key] /\ ToRecover(disk, e)
    <2>1. disk.jobs \in Maps(Key, JobStatus)
        BY <1>1 DEF Document
    <2>2. PICK k \in Interrupted(disk) : e = [at |-> "settle", key |-> k]
        BY <1>2
    <2>3. k \in Key /\ JobIn(disk, k) \in {"PENDING", "PUBLISHING"}
        BY <2>1, MapFinds DEF JobIn, At, Interrupted
    <2> QED BY <2>2, <2>3 DEF ToRecover
<1>5. EngineTypeOK'
    <2>1. worker' \in [Workers -> Worker]
        BY <1>2, <1>3
    <2>2. /\ {crashes', switches', troubles'} \subseteq Nat
          /\ crashes' + switches' + troubles' <= MaxDisturbances
        BY <1>1, <1>2, ChannelAssumption DEF Disturbable
    <2>3. recovery' \subseteq [at : {"settle", "mark"}, key : Key]
        BY <1>4
    <2> QED BY <1>1, <1>2, <2>1, <2>2, <2>3 DEF EngineInv, EngineTypeOK
<1>6. WorkersOK'
    BY <1>3, IdleIsOK DEF WorkersOK
<1>7. Alone'
    BY <1>3, IdleShape DEF Alone, Holds
<1>8. RequestsOK'
    BY <1>2 DEF RequestsOK
<1>9. RecoveryOK'
    BY <1>2, <1>3, <1>4 DEF RecoveryOK
<1>10. ItemsOK(memory, approved)' /\ ItemsOK(disk, approved)'
    BY <1>2 DEF EngineInv, ItemsOK
<1>11. Truth(memory, accepted)' /\ Truth(disk, accepted)'
    BY <1>2 DEF EngineInv, Truth
<1>12. OnceALife'
    <2> SUFFICES ASSUME NEW k \in Key, NEW d \in Destinations
                 PROVE  Taken(k, d) <= crashes + 1 + One(Shut(k, d)')
        BY <1>2 DEF OnceALife, Taken, One
    <2>1. Taken(k, d) <= crashes + One(Shut(k, d))
        BY DEF EngineInv, OnceALife
    <2>2. Taken(k, d) \in Nat /\ crashes \in Nat
        BY <1>1, TakenIsNat DEF Taken
    <2> QED BY <2>1, <2>2 DEF One
<1>13. TakenWasApproved'
    BY <1>2 DEF EngineInv, TakenWasApproved, Taken
<1> QED BY <1>5, <1>6, <1>7, <1>8, <1>9, <1>10, <1>11, <1>12, <1>13 DEF EngineInv

LEMMA RecoveredShape ==
    ASSUME NEW m \in Document, NEW e \in [at : {"settle", "mark"}, key : Key], ToRecover(m, e),
           ItemsOK(m, approved), Truth(m, accepted)
    PROVE  LET n == Recovered(m, e) IN
           /\ n \in Document /\ n.deliveries = m.deliveries /\ n.movements = m.movements
           /\ e.at = "settle" => JobIn(n, e.key) = Outcome(m, e.key)
           /\ \A j : \/ JobIn(n, j) = JobIn(m, j)
                     \/ e.at = "settle" /\ j = e.key /\ JobIn(m, j) \in {"PENDING", "PUBLISHING"}
           /\ \A c \in Contents :
                /\ n.contents[c].status # "NONE" <=> m.contents[c].status # "NONE"
                /\ n.contents[c].status = "PUBLISHED" => m.contents[c].status = "PUBLISHED"
           /\ ItemsOK(n, approved) /\ Truth(n, accepted)
<1> DEFINE k == e.key
<1>0. k \in Key /\ (e.at = "settle" \/ e.at = "mark")
    OBVIOUS
<1> HIDE DEF k
<1>2. ASSUME JobIn(m, k) \in {"PENDING", "PUBLISHING"}, NEW status \in {"SKIPPED", "FAILED", "PUBLISHED"},
             status = "PUBLISHED" => \E d \in Destinations : DeliveryIn(m, k, d) = "SENT"
      PROVE  LET n == WithJob(m, k, status) IN
             /\ n \in Document /\ n.deliveries = m.deliveries /\ n.contents = m.contents
             /\ n.movements = m.movements
             /\ JobIn(n, k) = status
             /\ \A j : j # k => JobIn(n, j) = JobIn(m, j)
             /\ ItemsOK(n, approved) /\ Truth(n, accepted)
    <2> DEFINE n == WithJob(m, k, status)
    <2>1. /\ n \in Document /\ n.deliveries = m.deliveries /\ n.contents = m.contents
          /\ n.movements = m.movements
          /\ \A j : JobIn(n, j) = IF j = k THEN status ELSE JobIn(m, j)
        <3>1. status \in JobStatus
            BY DEF JobStatus
        <3> QED BY <1>0, <3>1, JobSaved
    <2> HIDE DEF n
    <2>2. \A j, d : DeliveryIn(n, j, d) = DeliveryIn(m, j, d)
        BY <2>1 DEF DeliveryIn
    <2>3. ItemsOK(n, approved)
        BY <1>0, <1>2, <2>1 DEF ItemsOK
    <2>4. Truth(n, accepted)
        <3>1. \A j \in Key : JobIn(n, j) = "PUBLISHED" =>
                    \E d \in Destinations : DeliveryIn(n, j, d) = "SENT"
            BY <1>2, <2>1, <2>2 DEF Truth
        <3>2. \A c \in Contents : n.contents[c].status = "PUBLISHED" =>
                    \E r \in Revisions : JobIn(n, <<c, r>>) = "PUBLISHED"
            BY <1>2, <2>1 DEF Truth
        <3> QED BY <2>2, <3>1, <3>2 DEF Truth
    <2> QED BY <2>1, <2>3, <2>4 DEF n
<1> DEFINE n == Recovered(m, e)
<1>3. CASE e.at = "settle"
    <2> DEFINE status == Outcome(m, k)
    <2>1. /\ n = WithJob(m, k, status) /\ status \in {"SKIPPED", "FAILED", "PUBLISHED"}
          /\ status = "PUBLISHED" => \E d \in Destinations : DeliveryIn(m, k, d) = "SENT"
        BY <1>3 DEF Recovered, Outcome, k
    <2>2. JobIn(m, k) \in {"PENDING", "PUBLISHING"}
        BY <1>3 DEF ToRecover, k
    <2> HIDE DEF status, n
    <2>3. /\ n \in Document /\ n.deliveries = m.deliveries /\ n.contents = m.contents
          /\ n.movements = m.movements
          /\ JobIn(n, k) = status
          /\ \A j : j # k => JobIn(n, j) = JobIn(m, j)
          /\ ItemsOK(n, approved) /\ Truth(n, accepted)
        BY <1>2, <2>1, <2>2
    <2> QED BY <1>3, <2>2, <2>3 DEF n, k, status
<1>4. CASE e.at = "mark"
    <2>1. k[1] \in Contents /\ JobIn(m, k) = "SKIPPED" /\ n = [m EXCEPT !.contents[k[1]].status = "FAILED"]
        BY <1>4 DEF Recovered, ToRecover, k
    <2> HIDE DEF n
    <2>2. /\ n \in Document /\ n.jobs = m.jobs /\ n.deliveries = m.deliveries
          /\ n.movements = m.movements
          /\ n.contents[k[1]].status = "FAILED"
          /\ \A c \in Contents :
               /\ n.contents[c].approved = m.contents[c].approved
               /\ n.contents[c].revision = m.contents[c].revision
               /\ c # k[1] => n.contents[c] = m.contents[c]
        <3>1. "FAILED" \in ContentStatus
            BY DEF ContentStatus
        <3> QED BY <2>1, <3>1, StatusSaved
    <2>3. m.contents[k[1]].status # "NONE"
        BY <1>0, <2>1 DEF ItemsOK
    <2>4. \A c \in Contents :
            /\ n.contents[c].status # "NONE" <=> m.contents[c].status # "NONE"
            /\ n.contents[c].status = "PUBLISHED" => m.contents[c].status = "PUBLISHED"
        BY <2>2, <2>3
    <2>5. /\ \A j : JobIn(n, j) = JobIn(m, j)
          /\ \A j, d : DeliveryIn(n, j, d) = DeliveryIn(m, j, d)
        BY <2>2 DEF JobIn, DeliveryIn
    <2>6. ItemsOK(n, approved)
        <3>1. ASSUME NEW c \in Contents
              PROVE  /\ n.contents[c].status # "NONE" => n.contents[c].revision \in Revisions
                     /\ n.contents[c].approved => <<c, n.contents[c].revision>> \in approved
            BY <2>2, <2>4 DEF ItemsOK
        <3>2. ASSUME NEW c \in Contents, NEW j \in Key, j[1] = c, JobIn(n, j) # "NONE"
              PROVE  n.contents[c].status # "NONE"
            BY <2>4, <2>5, <3>2 DEF ItemsOK
        <3> QED BY <3>1, <3>2 DEF ItemsOK
    <2>7. Truth(n, accepted)
        BY <2>4, <2>5 DEF Truth
    <2> QED BY <1>4, <2>2, <2>4, <2>5, <2>6, <2>7 DEF n
<1> QED BY <1>0, <1>3, <1>4

\* A job that was interrupted is settled, and its item marked, while nobody publishes.
LEMMA RecoverKeeps ==
    ASSUME EngineInv, NEW e \in recovery, Recover(e)
    PROVE  EngineInv'
<1> DEFINE m == Recovered(memory, e)
<1>1. /\ worker \in [Workers -> Worker] /\ memory \in Document /\ disk \in Document
      /\ recovery \subseteq [at : {"settle", "mark"}, key : Key] /\ failures \in 0 .. MaxWriteFailures
      /\ \A o \in recovery : ToRecover(memory, o)
      /\ ItemsOK(memory, approved) /\ Truth(memory, accepted)
      /\ \A w \in Workers : worker[w] = Idle
    BY DEF EngineInv, EngineTypeOK, RecoveryOK
<1>2. /\ Save(m) /\ recovery' = (recovery \ {e}) \cup Marking(e)
      /\ UNCHANGED <<channels, request, now, approved, worker, crashes, switches, troubles, accepted>>
    BY DEF Recover
<1>3. /\ m \in Document /\ m.deliveries = memory.deliveries
      /\ e.at = "settle" => JobIn(m, e.key) = Outcome(memory, e.key)
      /\ \A j : \/ JobIn(m, j) = JobIn(memory, j)
                \/ e.at = "settle" /\ j = e.key /\ JobIn(memory, j) \in {"PENDING", "PUBLISHING"}
      /\ \A c \in Contents : m.contents[c].status # "NONE" <=> memory.contents[c].status # "NONE"
      /\ ItemsOK(m, approved) /\ Truth(m, accepted)
    BY <1>1, RecoveredShape
<1> HIDE DEF m
<1>4. /\ memory' = m /\ (disk' = m \/ disk' = disk)
      /\ failures' \in 0 .. MaxWriteFailures
    BY <1>1, <1>2, SavedEitherWay
<1>5. EngineTypeOK'
    <2>1. Marking(e) \subseteq [at : {"settle", "mark"}, key : Key]
        BY <1>1 DEF Marking
    <2>2. recovery' \subseteq [at : {"settle", "mark"}, key : Key]
        BY <1>1, <1>2, <2>1
    <2> QED BY <1>1, <1>2, <1>3, <1>4, <2>2 DEF EngineInv, EngineTypeOK
<1>6. WorkersOK'
    BY <1>1, <1>2, IdleIsOK DEF WorkersOK
<1>7. Alone' /\ RecoveryOK'
    <2>1. ASSUME NEW o \in recovery', o \notin Marking(e) PROVE ToRecover(m, o)
        <3>1. o \in recovery /\ o # e /\ ToRecover(memory, o) /\ ToRecover(memory, e)
            BY <1>1, <1>2, <2>1
        <3>2. /\ o \in [at : {"settle", "mark"}, key : Key] /\ e \in [at : {"settle", "mark"}, key : Key]
            BY <1>1, <3>1
        <3>3. e.at = "settle" /\ o.key = e.key => o.at = "mark"
            BY <3>1, <3>2
        <3>4. JobIn(m, o.key) = JobIn(memory, o.key)
            BY <1>3, <3>1, <3>3 DEF ToRecover
        <3> QED BY <3>1, <3>4 DEF ToRecover
    <2>2. ASSUME NEW o \in Marking(e) PROVE ToRecover(m, o)
        <3>1. /\ o = [at |-> "mark", key |-> e.key] /\ e.key[1] \in Contents
              /\ e.at = "settle" /\ Outcome(memory, e.key) = "SKIPPED"
            BY DEF Marking, IsEditorial
        <3> QED BY <1>3, <3>1 DEF ToRecover
    <2>3. \A o \in recovery' : ToRecover(memory', o)
        BY <1>4, <2>1, <2>2
    <2> QED BY <1>1, <1>2, <2>3 DEF EngineInv, Alone, RecoveryOK
<1>8. RequestsOK'
    <2>1. ASSUME NEW p \in Admins, request[p] # NoRequest
          PROVE  m.contents[request[p].content].status # "NONE"
        <3>1. request[p] \in Request
            BY <2>1 DEF EngineInv, RequestsOK
        <3>2. request[p].content \in Contents
            BY <3>1 DEF Request
        <3> QED BY <1>3, <2>1, <3>2 DEF EngineInv, RequestsOK
    <2> QED BY <1>2, <1>4, <2>1 DEF EngineInv, RequestsOK
<1>9. ItemsOK(memory, approved)' /\ ItemsOK(disk, approved)'
    BY <1>2, <1>3, <1>4 DEF EngineInv, ItemsOK
<1>10. Truth(memory, accepted)' /\ Truth(disk, accepted)'
    <2>1. Truth(memory', accepted) /\ Truth(disk', accepted)
        BY <1>3, <1>4 DEF EngineInv
    <2> QED BY <1>2, <2>1 DEF Truth
<1>11. OnceALife'
    <2>1. \A j, d : DeliveryIn(m, j, d) = DeliveryIn(memory, j, d)
        BY <1>3 DEF DeliveryIn
    <2> QED BY <1>2, <1>4, <2>1 DEF EngineInv, OnceALife, Taken, Shut
<1>12. TakenWasApproved'
    BY <1>2 DEF EngineInv, TakenWasApproved, Taken
<1> QED BY <1>5, <1>6, <1>7, <1>8, <1>9, <1>10, <1>11, <1>12 DEF EngineInv

-----------------------------------------------------------------------------
(* The cycle of the movements, as the engine sees it *)

EngineNow == TypeOK /\ EngineInv

\* The type of what the cycle and the market are.
CycleTypes ==
    /\ market \in [Symbols -> Sample]
    /\ cycle \in Cycle
    /\ due \in 0 .. MaxTime + 1
    /\ calm \in [Symbols -> SUBSET (0 .. MaxTime)]

LEMMA MoveKeyIsKey ==
    ASSUME NEW t \in 0 .. MaxTime, NEW S \in Moves
    PROVE  /\ MoveKey(t, S) \in Key
           /\ MoveKey(t, S)[1] \notin Contents
           /\ \A p \in PriceSlots : MoveKey(t, S) # <<p, 0>>
           /\ MoveKey(t, S) = <<MovementSlot(t, S), 0>>
<1>1. MovementSlot(t, S) \in Slots \ PriceSlots
    BY EventsAssumption DEF Moves
<1>2. MovementSlot(t, S) \notin Contents
    BY <1>1, ContentAssumption
<1> HIDE DEF MovementSlot
<1>3. MoveKey(t, S) = <<MovementSlot(t, S), 0>>
    BY DEF MoveKey
<1> QED BY <1>1, <1>2, <1>3 DEF Key

LEMMA SampledType ==
    ASSUME NEW old \in Sample, NEW price \in 1 .. MaxPrice
    PROVE  Sampled(old, price) \in Sample /\ Sampled(old, price).move \in Nat
<1>1. old.price \in 1 .. MaxPrice /\ MaxPrice \in Nat
    BY ContentAssumption DEF Sample
<1>2. Distance(price, old.price) \in 0 .. MaxPrice
    BY <1>1 DEF Distance
<1> QED BY <1>1, <1>2 DEF Sampled, Sample

\* Three shapes of a document with other movements.
LEMMA MovementsSaved ==
    ASSUME NEW m \in Document, NEW f \in [Symbols -> MovementEvent]
    PROVE  LET n == [m EXCEPT !.movements = f] IN
           /\ n \in Document /\ n.movements = f
           /\ n.jobs = m.jobs /\ n.deliveries = m.deliveries /\ n.contents = m.contents
BY DEF Document

LEMMA MovementSaved ==
    ASSUME NEW m \in Document, NEW s \in Symbols, NEW event \in MovementEvent
    PROVE  LET n == [m EXCEPT !.movements[s] = event] IN
           /\ n \in Document
           /\ \A x \in Symbols : n.movements[x] = IF x = s THEN event ELSE m.movements[x]
           /\ n.jobs = m.jobs /\ n.deliveries = m.deliveries /\ n.contents = m.contents
BY DEF Document

LEMMA RearmedShape ==
    ASSUME memory \in Document, NEW m
    PROVE  /\ Rearmed(m) \in [Symbols -> MovementEvent]
           /\ \A s \in Symbols :
                /\ Rearmed(m)[s].known = memory.movements[s].known
                /\ Rearmed(m)[s].at = memory.movements[s].at
                /\ Rearmed(m)[s].armed <=> memory.movements[s].armed
                                           \/ (memory.movements[s].known /\ FallenBack(m[s]))
<1>1. \A s \in Symbols : memory.movements[s] \in MovementEvent
    BY DEF Document
<1> DEFINE armed(s) == memory.movements[s].armed
                       \/ (memory.movements[s].known /\ FallenBack(m[s]))
<1>2. \A s \in Symbols : armed(s) \in BOOLEAN
    BY <1>1 DEF MovementEvent
<1>3. Rearmed(m) = [s \in Symbols |-> [memory.movements[s] EXCEPT !.armed = armed(s)]]
    BY <1>1 DEF Rearmed, MovementEvent
<1> HIDE DEF armed
<1>4. \A s \in Symbols : /\ Rearmed(m)[s] \in MovementEvent
                         /\ Rearmed(m)[s].known = memory.movements[s].known
                         /\ Rearmed(m)[s].at = memory.movements[s].at
                         /\ Rearmed(m)[s].armed = armed(s)
    BY <1>1, <1>2, <1>3 DEF MovementEvent
<1>5. Rearmed(m) \in [Symbols -> MovementEvent]
    BY <1>3, <1>4
<1> QED BY <1>4, <1>5 DEF armed

\* The three steps of the cycle.
LEMMA BeginKeeps ==
    ASSUME EngineNow, NEW w \in Workers, BeginCycle(w)
    PROVE  EngineInv' /\ CycleTypes'
<1>1. /\ recovery = {} /\ worker[w].at = "idle" /\ ~ cycle.busy /\ due <= now
      /\ due' = now + 1 /\ Reads
      /\ UNCHANGED <<scope, channels, request, now, approved, recovery, starts, crashes, switches,
                     troubles, accepted>>
    BY DEF BeginCycle, Up, EngineOnly
<1>2. PICK prices \in [Symbols -> 1 .. MaxPrice] :
        LET m == [s \in Symbols |-> Sampled(market[s], prices[s])]
            news == Moved(m)
            key == <<MovementSlot(now, news), 0>>
        IN /\ market' = m
           /\ calm' = [s \in Symbols |-> IF FallenBack(m[s]) THEN calm[s] \cup {now} ELSE calm[s]]
           /\ IF news = {} THEN UNCHANGED <<cycle, worker>>
              ELSE /\ cycle' = [busy |-> TRUE, since |-> now, key |-> key, todo |-> news]
                   /\ Becomes(w, [Idle EXCEPT !.at = "creating", !.key = key, !.since = now,
                                              !.priced = TRUE])
    BY DEF BeginCycle
<1> DEFINE m == [s \in Symbols |-> Sampled(market[s], prices[s])]
           news == Moved(m)
           key == <<MovementSlot(now, news), 0>>
<1>3. /\ market \in [Symbols -> Sample] /\ cycle \in Cycle
      /\ calm \in [Symbols -> SUBSET (0 .. MaxTime)]
      /\ memory \in Document /\ now \in 0 .. MaxTime /\ MaxTime \in Nat
    BY ContentAssumption DEF EngineNow, TypeOK, EngineTypeOK
<1>4. m \in [Symbols -> Sample]
    BY <1>3, SampledType
<1>5. news \subseteq Symbols
    BY DEF Moved
<1>6. market' = m
    BY <1>2
<1>7. calm' = [s \in Symbols |-> IF FallenBack(m[s]) THEN calm[s] \cup {now} ELSE calm[s]]
    BY <1>2
<1>8. calm' \in [Symbols -> SUBSET (0 .. MaxTime)] /\ due' \in 0 .. MaxTime + 1
    BY <1>1, <1>3, <1>7
<1>9. CASE news = {}
    <2>1. UNCHANGED <<cycle, worker>>
        BY <1>2, <1>9
    <2>2. EngineInv'
        BY <1>1, <1>3, <2>1, AsideKeeps DEF EngineNow
    <2> QED BY <1>3, <1>4, <1>6, <1>8, <2>1, <2>2 DEF CycleTypes
<1>10. CASE news # {}
    <2>1. /\ cycle' = [busy |-> TRUE, since |-> now, key |-> key, todo |-> news]
          /\ Becomes(w, [Idle EXCEPT !.at = "creating", !.key = key, !.since = now, !.priced = TRUE])
        BY <1>2, <1>10
    <2> HIDE DEF m, news
    <2>2. key \in Key /\ key[1] \notin Contents
        BY <1>3, <1>5, <1>10, MoveKeyIsKey DEF Moves
    <2> HIDE DEF key
    <2> DEFINE n == [Idle EXCEPT !.at = "creating", !.key = key, !.since = now, !.priced = TRUE]
    <2>3. n \in Worker /\ n.at = "creating" /\ n.todo = {} /\ n.key = key
        BY <1>3, <2>2, PricedShape
    <2>4. Becomes(w, n)
        BY <2>1
    <2> HIDE DEF n
    <2>5. EngineInv
        BY DEF EngineNow
    <2>6. EngineInv'
        BY <1>1, <2>2, <2>3, <2>4, <2>5, StartKeeps
    <2>7. cycle' \in Cycle
        BY <1>3, <1>5, <2>1, <2>2 DEF Cycle
    <2> QED BY <1>4, <1>6, <1>8, <2>6, <2>7 DEF CycleTypes
<1> QED BY <1>9, <1>10

LEMMA RecordKeeps ==
    ASSUME EngineNow, NEW s \in Symbols, RecordMovement(s)
    PROVE  EngineInv' /\ CycleTypes'
<1> DEFINE event == [known |-> TRUE, at |-> cycle.since, armed |-> FALSE]
           m == [memory EXCEPT !.movements[s] = event]
<1>1. /\ Save(m) /\ cycle' = [cycle EXCEPT !.todo = @ \ {s}]
      /\ UNCHANGED <<worker, market, due, calm>>
      /\ UNCHANGED <<channels, request, now, approved, recovery, crashes, switches, troubles, accepted>>
    BY DEF RecordMovement, EngineOnly
<1>2. cycle \in Cycle /\ memory \in Document /\ now \in 0 .. MaxTime
    BY DEF EngineNow, TypeOK, EngineTypeOK
<1>3. event \in MovementEvent
    BY <1>2 DEF Cycle, MovementEvent
<1> HIDE DEF event
<1>4. /\ m \in Document
      /\ m.jobs = memory.jobs /\ m.deliveries = memory.deliveries /\ m.contents = memory.contents
    BY <1>2, <1>3, MovementSaved
<1> HIDE DEF m
<1>5. EngineInv'
    BY <1>1, <1>2, <1>4, AsideKeeps DEF EngineNow
<1>6. cycle' \in Cycle
    BY <1>1, <1>2 DEF Cycle
<1> QED BY <1>1, <1>5, <1>6 DEF CycleTypes, EngineNow, TypeOK

LEMMA ReArmKeeps ==
    ASSUME EngineNow, ReArm
    PROVE  EngineInv' /\ CycleTypes'
<1> DEFINE m == [memory EXCEPT !.movements = Rearmed(market)]
<1>1. /\ Save(m) /\ cycle' = NoCycle
      /\ UNCHANGED <<worker, market, due, calm>>
      /\ UNCHANGED <<channels, request, now, approved, recovery, crashes, switches, troubles, accepted>>
    BY DEF ReArm, EngineOnly
<1>2. memory \in Document /\ now \in 0 .. MaxTime
    BY DEF EngineNow, TypeOK, EngineTypeOK
<1>3. /\ m \in Document
      /\ m.jobs = memory.jobs /\ m.deliveries = memory.deliveries /\ m.contents = memory.contents
    BY <1>2, RearmedShape, MovementsSaved
<1> HIDE DEF m
<1>4. EngineInv'
    BY <1>1, <1>2, <1>3, AsideKeeps DEF EngineNow
<1>5. NoCycle \in Cycle
    BY ContentAssumption DEF Cycle, NoCycle
<1> QED BY <1>1, <1>4, <1>5 DEF CycleTypes, EngineNow, TypeOK

-----------------------------------------------------------------------------
(* The engine, always *)

LEMMA AdministerKeeps ==
    ASSUME EngineInv, Administer
    PROVE  EngineInv'
BY CreateKeeps, AskKeeps, ChangeKeeps DEF Administer

LEMMA EngineNextKeeps ==
    ASSUME EngineInv, EngineNext
    PROVE  EngineInv'
BY AdministerKeeps, StartTickKeeps, AskedForKeeps, StepKeeps, SwitchKeeps, RecoverKeeps
   DEF EngineNext

LEMMA NothingDone ==
    ASSUME EngineInv, UNCHANGED <<contentVars, engineVars>>
    PROVE  EngineInv'
<1>1. memory \in Document /\ now \in 0 .. MaxTime
    BY DEF EngineInv, EngineTypeOK
<1>2. /\ UNCHANGED <<channels, worker, recovery, crashes, troubles, accepted, request, approved>>
      /\ UNCHANGED <<now, switches>> /\ Reads
    BY DEF contentVars, engineVars, Reads
<1> QED BY <1>1, <1>2, AsideKeeps

LEMMA EngineNowKeeps ==
    ASSUME EngineNow, [Next]_vars
    PROVE  EngineNow'
<1>1. CASE UNCHANGED vars
    BY <1>1, NothingDone DEF EngineNow, vars, TypeOK, eventVars, EngineInv
<1>2. CASE EngineNext /\ UNCHANGED eventVars
    BY <1>2, EngineNextKeeps DEF EngineNow, TypeOK, eventVars, EngineInv
<1>3. CASE Tick /\ UNCHANGED <<engineVars, eventVars>>
    BY <1>3, TickKeeps DEF EngineNow, TypeOK, eventVars, EngineInv
<1>4. CASE Crash /\ cycle' = NoCycle /\ UNCHANGED <<market, due, calm>>
    <2>1. NoCycle \in Cycle
        BY ContentAssumption DEF Cycle, NoCycle
    <2> QED BY <1>4, <2>1, CrashKeeps DEF EngineNow, TypeOK, EngineInv
<1>5. ASSUME NEW w \in Workers, BeginCycle(w) PROVE EngineNow'
    BY <1>5, BeginKeeps DEF EngineNow, TypeOK, EngineInv, CycleTypes
<1>6. ASSUME NEW s \in Symbols, RecordMovement(s) PROVE EngineNow'
    BY <1>6, RecordKeeps DEF EngineNow, TypeOK, EngineInv, CycleTypes
<1>7. CASE ReArm
    BY <1>7, ReArmKeeps DEF EngineNow, TypeOK, EngineInv, CycleTypes
<1> QED BY <1>1, <1>2, <1>3, <1>4, <1>5, <1>6, <1>7 DEF Next

LEMMA NoDocumentShape ==
    /\ NoDocument \in Document
    /\ \A k : JobIn(NoDocument, k) = "NONE"
    /\ \A k, d : DeliveryIn(NoDocument, k, d) = "NONE"
    /\ \A c \in Contents : NoDocument.contents[c] = NoItem
    /\ \A s \in Symbols : NoDocument.movements[s] = NoMovement
<1>1. NoItem \in Item /\ NoMovement \in MovementEvent
    <2>1. MaxRevision \in Nat /\ MaxTime \in Nat
        BY ContentAssumption
    <2>2. 0 \in 0 .. MaxRevision /\ 0 \in 0 .. MaxTime
        BY <2>1
    <2>3. NoItem \in Item
        BY <2>2 DEF NoItem, Item, ContentStatus
    <2>4. NoMovement \in MovementEvent
        BY <2>2 DEF NoMovement, MovementEvent
    <2> QED BY <2>3, <2>4
<1>2. NoMap \in Maps(Key, JobStatus) /\ NoMap \in Maps(Key \X Destinations, DeliveryStatus)
    BY NoMapIsMap
<1>3. \A y : At(NoMap, y, "NONE") = "NONE"
    BY NoMapIsMap
<1> HIDE DEF NoMap, NoItem, NoMovement
<1> QED BY <1>1, <1>2, <1>3 DEF NoDocument, Document, JobIn, DeliveryIn

LEMMA EngineNowAtFirst ==
    ASSUME Init
    PROVE  EngineNow
<1>1. /\ memory = NoDocument /\ disk = NoDocument /\ failures = 0
      /\ request = [p \in Admins |-> NoRequest] /\ approved = {}
      /\ now \in {0, 1} /\ channels \subseteq Destinations
      /\ worker = [w \in Workers |-> Idle] /\ recovery = {}
      /\ crashes = 0 /\ switches = 0 /\ troubles = 0 /\ accepted = NoMap
    BY DEF Init, EngineInit, ContentInit
<1>2. /\ MaxTime \in Nat \ {0} /\ MaxWriteFailures \in Nat /\ MaxDisturbances \in Nat
      /\ MaxPrice \in Nat \ {0}
    BY ContentAssumption, ChannelAssumption
<1>3. accepted \in Maps(Key \X Destinations, Nat) /\ \A x : At(accepted, x, 0) = 0
    BY <1>1, NoMapIsMap
<1>4. /\ Idle \in Worker /\ worker \in [Workers -> Worker]
      /\ \A w \in Workers : worker[w] = Idle
    BY <1>1, IdleShape
<1>5. EngineTypeOK
    BY <1>1, <1>2, <1>3, <1>4, NoDocumentShape DEF EngineTypeOK
<1>6. WorkersOK /\ Alone
    BY <1>4, IdleIsOK, IdleShape DEF WorkersOK, Alone, Holds
<1>7. RequestsOK /\ RecoveryOK
    BY <1>1, <1>4 DEF RequestsOK, RecoveryOK
<1>8. ItemsOK(NoDocument, {}) /\ Truth(NoDocument, accepted)
    BY NoDocumentShape DEF ItemsOK, Truth, NoItem
<1>9. OnceALife /\ TakenWasApproved
    BY <1>1, <1>3 DEF OnceALife, TakenWasApproved, Taken, One
<1>10. CycleTypes
    <2>1. [price |-> 1, move |-> 0] \in Sample
        BY <1>2 DEF Sample
    <2>2. NoCycle \in Cycle
        BY <1>2 DEF NoCycle, Cycle
    <2> QED BY <1>2, <2>1, <2>2 DEF Init, CycleTypes
<1> QED BY <1>1, <1>5, <1>6, <1>7, <1>8, <1>9, <1>10
        DEF EngineNow, EngineInv, TypeOK, CycleTypes

LEMMA EngineNowAlways == Spec => []EngineNow
<1>1. Init => EngineNow
    BY EngineNowAtFirst
<1>2. EngineNow /\ [Next]_vars => EngineNow'
    BY EngineNowKeeps
<1> QED BY <1>1, <1>2, PTL DEF Spec

(* Every variable keeps its type: above all the maps of jobs and deliveries  *)
(* hold the keys of publications that were asked for, and the counters of    *)
(* what went wrong stay within their bound.                                  *)
THEOREM TypesHold == Spec => []TypeOK
<1>1. EngineNow => TypeOK
    BY DEF EngineNow
<1> QED BY <1>1, EngineNowAlways, PTL

(* Each channel takes its message once, and once more at most for each time  *)
(* the process died: between a claim and its end nobody else holds the job,  *)
(* and what was sent or may have been is never sent again                    *)
(* (channel-engine.service.ts execute, deliverTo).                           *)
THEOREM TakenOnceAlways == Spec => []TakenOnce
<1>1. EngineNow => TakenOnce
    <2> SUFFICES ASSUME EngineNow, NEW x \in DOMAIN accepted
                 PROVE  accepted[x] <= 1 + crashes
        BY DEF TakenOnce
    <2>1. accepted \in Maps(Key \X Destinations, Nat) /\ crashes \in Nat
        BY DEF EngineNow, EngineInv, EngineTypeOK
    <2>2. x \in Key \X Destinations /\ accepted[x] \in Nat /\ At(accepted, x, 0) = accepted[x]
        BY <2>1, MapFinds
    <2>3. PICK k \in Key, d \in Destinations : x = <<k, d>>
        BY <2>2
    <2>4. Taken(k, d) <= crashes + One(Shut(k, d))
        BY DEF EngineNow, EngineInv, OnceALife
    <2> QED BY <2>1, <2>2, <2>3, <2>4 DEF Taken, One
<1> QED BY <1>1, EngineNowAlways, PTL

(* What a channel took was approved at that revision, whatever was edited,   *)
(* cancelled or scheduled meanwhile (decideEditorialContent).                *)
THEOREM TakenWasApprovedAlways == Spec => []TakenWasApproved
<1>1. EngineNow => TakenWasApproved
    BY DEF EngineNow, EngineInv
<1> QED BY <1>1, EngineNowAlways, PTL

(* The records of deliveries, jobs and items tell what happened, in memory   *)
(* and in the file a crash would leave (finish, recover).                    *)
THEOREM RecordsAlwaysTellTheTruth == Spec => []RecordsTellTheTruth
<1>1. ASSUME NEW m \in Document, Truth(m, accepted) PROVE Tells(m)
    <2>1. /\ m.deliveries \in Maps(Key \X Destinations, DeliveryStatus)
          /\ m.jobs \in Maps(Key, JobStatus)
        BY DEF Document
    <2>2. ASSUME NEW x \in DOMAIN m.deliveries, m.deliveries[x] = "SENT"
          PROVE  Taken(x[1], x[2]) > 0
        <3>1. x \in Key \X Destinations /\ At(m.deliveries, x, "NONE") = m.deliveries[x]
            BY <2>1, MapFinds
        <3>2. PICK k \in Key, d \in Destinations : x = <<k, d>>
            BY <3>1
        <3>3. DeliveryIn(m, k, d) = "SENT"
            BY <2>2, <3>1, <3>2 DEF DeliveryIn
        <3> QED BY <1>1, <3>2, <3>3 DEF Truth, Taken
    <2>3. ASSUME NEW k \in DOMAIN m.jobs, m.jobs[k] = "PUBLISHED"
          PROVE  \E x \in Destinations : DeliveryIn(m, k, x) = "SENT"
        <3>1. k \in Key /\ At(m.jobs, k, "NONE") = m.jobs[k]
            BY <2>1, MapFinds
        <3> QED BY <1>1, <2>3, <3>1 DEF Truth, JobIn
    <2> QED BY <1>1, <2>2, <2>3 DEF Tells, Truth
<1>2. EngineNow => RecordsTellTheTruth
    BY <1>1 DEF EngineNow, EngineInv, EngineTypeOK, RecordsTellTheTruth
<1> QED BY <1>2, EngineNowAlways, PTL

-----------------------------------------------------------------------------
(* What a step of a worker is to the movements: it writes at most the job of its  *)
(* key, and a message that was taken and answered is on its way to the record of  *)
(* the job.                                                                       *)

Follows(s, n) ==
    \/ n.key = s.key /\ n.todo = s.todo /\ n.at # "idle"
    \/ n = EndOf(s)
    \/ \E c \in s.todo : n.key = KeyOf(c)

StepOf(w, n, m) ==
    /\ Becomes(w, n)
    /\ Save(m) \/ (m = memory /\ Reads)
    /\ m.movements = memory.movements
    /\ \A k : k # worker[w].key => JobIn(m, k) = JobIn(memory, k)
    /\ JobIn(memory, worker[w].key) = "PUBLISHED" => JobIn(m, worker[w].key) = "PUBLISHED"
    /\ Follows(worker[w], n)
    /\ \A d \in Destinations : Answers(worker[w], d) =>
            \/ n.key = worker[w].key /\ Answers(n, d)
            \/ JobIn(m, worker[w].key) = "PUBLISHED"

\* A job that is held is not published.
LEMMA HeldIsNot ==
    ASSUME EngineInv, NEW w \in Workers, Holds(worker[w])
    PROVE  JobIn(memory, worker[w].key) = "PUBLISHING"
BY DEF EngineInv, WorkersOK, WorkerOK

LEMMA LookingOf ==
    ASSUME EngineInv, NEW w \in Workers, NEW n \in Worker,
           worker[w].at # "delivering", Becomes(w, n), Reads, Follows(worker[w], n)
    PROVE  StepOf(w, n, memory) /\ memory \in Document
BY DEF StepOf, Answers, EngineInv, EngineTypeOK

\* Writing the job, the status of an item, a delivery; going on, ending.
LEMMA JobOf ==
    ASSUME EngineInv, NEW w \in Workers, NEW n \in Worker, NEW status \in JobStatus,
           worker[w].at \notin {"idle", "listing"},
           Becomes(w, n), Save(WithJob(memory, worker[w].key, status)), Follows(worker[w], n),
           JobIn(memory, worker[w].key) # "PUBLISHED",
           \A d \in Destinations : Answers(worker[w], d) => status = "PUBLISHED"
    PROVE  /\ StepOf(w, n, WithJob(memory, worker[w].key, status))
           /\ WithJob(memory, worker[w].key, status) \in Document
<1> DEFINE m == WithJob(memory, worker[w].key, status)
<1>1. worker[w].key \in Key /\ memory \in Document
    BY WorkingShape
<1>2. /\ m \in Document /\ m.movements = memory.movements
      /\ \A j : JobIn(m, j) = IF j = worker[w].key THEN status ELSE JobIn(memory, j)
    BY <1>1, JobSaved
<1>3. Save(m)
    OBVIOUS
<1> HIDE DEF m
<1>4. StepOf(w, n, m)
    BY <1>2, <1>3 DEF StepOf
<1> QED BY <1>2, <1>4 DEF m

LEMMA StatusOf ==
    ASSUME EngineInv, NEW w \in Workers, NEW n \in Worker, NEW c \in Contents,
           NEW status \in ContentStatus, worker[w].at # "delivering",
           Becomes(w, n), Save([memory EXCEPT !.contents[c].status = status]), Follows(worker[w], n)
    PROVE  \E m \in Document : StepOf(w, n, m)
<1> DEFINE m == [memory EXCEPT !.contents[c].status = status]
<1>0. memory \in Document
    BY DEF EngineInv, EngineTypeOK
<1>1. m \in Document /\ m.movements = memory.movements /\ m.jobs = memory.jobs
    BY <1>0, StatusSaved
<1>2. Save(m)
    OBVIOUS
<1> HIDE DEF m
<1>3. StepOf(w, n, m)
    BY <1>1, <1>2 DEF StepOf, JobIn, Answers
<1> QED BY <1>1, <1>3

LEMMA DeliveryOf ==
    ASSUME EngineInv, NEW w \in Workers, NEW d \in Destinations,
           NEW status \in DeliveryStatus, NEW step \in Delivery,
           worker[w].at = "delivering", worker[w].to[d].at # "over",
           SaveDelivery(w, d, status),
           Becomes(w, [worker[w] EXCEPT !.to[d] = step]),
           worker[w].to[d].at = "SENT" => step.at = "over" /\ step.result = "SENT"
    PROVE  \E n \in Worker, m \in Document : StepOf(w, n, m)
<1> DEFINE n == [worker[w] EXCEPT !.to[d] = step]
           m == [memory EXCEPT !.deliveries = Put(@, <<worker[w].key, d>>, status)]
<1>1. worker[w] \in Worker /\ worker[w].key \in Key /\ memory \in Document
    BY DeliveringShape
<1>2. /\ n \in Worker /\ n.at = "delivering" /\ n.key = worker[w].key /\ n.todo = worker[w].todo
      /\ \A x \in Destinations : n.to[x] = IF x = d THEN step ELSE worker[w].to[x]
    BY <1>1, StepShape
<1>3. m \in Document /\ m.movements = memory.movements /\ m.jobs = memory.jobs
    BY <1>1, DeliverySaved
<1>4. Save(m) /\ Becomes(w, n)
    BY DEF SaveDelivery
<1> HIDE DEF n, m
<1>5. \A x \in Destinations : Answers(worker[w], x) => Answers(n, x)
    BY <1>2 DEF Answers
<1>6. StepOf(w, n, m)
    BY <1>2, <1>3, <1>4, <1>5 DEF StepOf, JobIn, Follows
<1> QED BY <1>2, <1>3, <1>6

LEMMA GoingOf ==
    ASSUME EngineInv, NEW w \in Workers,
           NEW at \in {"entering", "claiming", "deciding", "skipping", "failing", "marking", "concluding"},
           Goes(w, at)
    PROVE  \E n \in Worker : Becomes(w, n) /\ Follows(worker[w], n)
<1>1. worker \in [Workers -> Worker]
    BY DEF EngineInv, EngineTypeOK
<1>2. /\ Becomes(w, At_(worker[w], at)) /\ At_(worker[w], at) \in Worker
      /\ At_(worker[w], at).at = at
      /\ At_(worker[w], at).key = worker[w].key /\ At_(worker[w], at).todo = worker[w].todo
    BY <1>1, GoesShape
<1> HIDE DEF At_
<1> QED BY <1>2 DEF Follows

LEMMA EndingOf ==
    ASSUME EngineInv, NEW w \in Workers, Ends(w)
    PROVE  \E n \in Worker : Becomes(w, n) /\ Follows(worker[w], n)
<1>1. worker[w] \in Worker
    BY DEF EngineInv, EngineTypeOK
<1>2. Becomes(w, EndOf(worker[w])) /\ EndOf(worker[w]) \in Worker
    BY <1>1, EndShape DEF Ends, EndOf
<1> QED BY <1>2 DEF Follows

LEMMA AwaitsOf ==
    ASSUME EngineInv, NEW w \in Workers,
           \/ Ends(w)
           \/ \E at \in {"entering", "claiming", "deciding", "skipping", "failing", "marking",
                         "concluding"} : Goes(w, at)
    PROVE  \E n \in Worker : Becomes(w, n) /\ Follows(worker[w], n)
BY EndingOf, GoingOf

\* A step that writes the job, or nothing, and goes on to something else.
LEMMA PlainStepOf ==
    ASSUME EngineInv, NEW w \in Workers,
           worker[w].at \notin {"idle", "listing", "delivering"},
           \/ Reads
           \/ /\ JobIn(memory, worker[w].key) # "PUBLISHED"
              /\ \E status \in JobStatus : Save(WithJob(memory, worker[w].key, status)),
           \/ Ends(w)
           \/ \E at \in {"entering", "claiming", "deciding", "skipping", "failing", "marking",
                         "concluding"} : Goes(w, at)
    PROVE  \E n \in Worker, m \in Document : StepOf(w, n, m)
<1>1. PICK n \in Worker : Becomes(w, n) /\ Follows(worker[w], n)
    BY AwaitsOf
<1>2. CASE Reads
    BY <1>1, <1>2, LookingOf
<1>3. CASE /\ JobIn(memory, worker[w].key) # "PUBLISHED"
           /\ \E status \in JobStatus : Save(WithJob(memory, worker[w].key, status))
    <2>1. PICK status \in JobStatus : Save(WithJob(memory, worker[w].key, status))
        BY <1>3
    <2>2. \A d \in Destinations : ~ Answers(worker[w], d)
        BY DEF Answers
    <2> QED BY <1>1, <1>3, <2>1, <2>2, JobOf
<1> QED BY <1>2, <1>3

LEMMA StatusStepOf ==
    ASSUME EngineInv, NEW w \in Workers, NEW status \in ContentStatus,
           worker[w].at \in {"missing", "marking", "concluding"},
           Save([memory EXCEPT !.contents[worker[w].key[1]].status = status]),
           Ends(w)
    PROVE  \E n \in Worker, m \in Document : StepOf(w, n, m)
<1>1. PICK n \in Worker : Becomes(w, n) /\ Follows(worker[w], n)
    BY AwaitsOf
<1>2. worker[w].key[1] \in Contents
    BY DEF EngineInv, WorkersOK, WorkerOK
<1> QED BY <1>1, <1>2, StatusOf

LEMMA JobStepsOf ==
    ASSUME EngineInv, NEW w \in Workers,
           CreateJob(w) \/ Claim(w) \/ SkipJob(w) \/ FailJob(w)
    PROVE  \E n \in Worker, m \in Document : StepOf(w, n, m)
<1> DEFINE k == worker[w].key
<1>1. CASE CreateJob(w)
    <2>1. worker[w].at = "creating"
        BY <1>1 DEF CreateJob
    <2>2. CASE JobIn(memory, k) = "NONE"
        <3>1. Save(WithJob(memory, k, "PENDING")) /\ Goes(w, "entering")
            BY <1>1, <2>2 DEF CreateJob
        <3> QED BY <2>1, <2>2, <3>1, PlainStepOf DEF JobStatus
    <2>3. CASE JobIn(memory, k) \in {"PENDING", "FAILED", "SKIPPED"}
        <3>1. Reads /\ Goes(w, "entering")
            BY <1>1, <2>3 DEF CreateJob
        <3> QED BY <2>1, <3>1, PlainStepOf
    <2>4. CASE JobIn(memory, k) \notin {"NONE", "PENDING", "FAILED", "SKIPPED"}
        <3>1. Reads /\ Ends(w)
            BY <1>1, <2>4 DEF CreateJob
        <3> QED BY <2>1, <3>1, PlainStepOf
    <2> QED BY <2>2, <2>3, <2>4
<1>2. CASE Claim(w)
    <2>1. worker[w].at = "claiming"
        BY <1>2 DEF Claim
    <2>2. CASE JobIn(memory, k) \in {"PUBLISHED", "PUBLISHING"}
        <3>1. Reads /\ Ends(w)
            BY <1>2, <2>2 DEF Claim
        <3> QED BY <2>1, <3>1, PlainStepOf
    <2>3. CASE JobIn(memory, k) \notin {"PUBLISHED", "PUBLISHING"}
        <3>1. Save(WithJob(memory, k, "PUBLISHING")) /\ Goes(w, "deciding")
            BY <1>2, <2>3 DEF Claim
        <3> QED BY <2>1, <2>3, <3>1, PlainStepOf DEF JobStatus
    <2> QED BY <2>2, <2>3
<1>3. CASE SkipJob(w)
    <2>1. /\ worker[w].at = "skipping"
          /\ Save(WithJob(memory, k, "SKIPPED")) /\ Ends(w)
        BY <1>3 DEF SkipJob, Finish
    <2>2. JobIn(memory, k) # "PUBLISHED"
        BY <2>1, HeldIsNot DEF Holds
    <2> QED BY <2>1, <2>2, PlainStepOf DEF JobStatus
<1>4. CASE FailJob(w)
    <2>1. /\ worker[w].at = "failing"
          /\ Save(WithJob(memory, k, "FAILED"))
          /\ Goes(w, "marking") \/ Ends(w)
        BY <1>4 DEF FailJob, Finish
    <2>2. JobIn(memory, k) # "PUBLISHED"
        BY <2>1, HeldIsNot DEF Holds
    <2> QED BY <2>1, <2>2, PlainStepOf DEF JobStatus
<1> QED BY <1>1, <1>2, <1>3, <1>4

LEMMA OtherStepsOf ==
    ASSUME EngineInv, NEW w \in Workers,
           \/ Enter(w) \/ Refuse(w) \/ DecideThrows(w)
           \/ MarkContentMissed(w) \/ MarkContentFailed(w) \/ AfterSuccess(w)
    PROVE  \E n \in Worker, m \in Document : StepOf(w, n, m)
<1>1. CASE Enter(w)
    <2>1. worker[w].at = "entering" /\ Reads /\ (Goes(w, "claiming") \/ Ends(w))
        BY <1>1 DEF Enter
    <2> QED BY <2>1, PlainStepOf
<1>2. CASE Refuse(w)
    <2>1. worker[w].at = "deciding" /\ Reads /\ Goes(w, "skipping")
        BY <1>2 DEF Refuse
    <2> QED BY <2>1, PlainStepOf
<1>3. CASE DecideThrows(w)
    <2>1. worker[w].at = "deciding" /\ Reads /\ Goes(w, "failing")
        BY <1>3 DEF DecideThrows
    <2> QED BY <2>1, PlainStepOf
<1>4. CASE MarkContentMissed(w)
    <2>1. worker[w].at = "missing" /\ Ends(w)
        BY <1>4 DEF MarkContentMissed
    <2>2. Reads \/ Save([memory EXCEPT !.contents[worker[w].key[1]].status = "FAILED"])
        BY <1>4 DEF MarkContentMissed
    <2> QED BY <2>1, <2>2, PlainStepOf, StatusStepOf DEF ContentStatus
<1>5. CASE MarkContentFailed(w)
    <2>1. /\ worker[w].at = "marking" /\ Ends(w)
          /\ Save([memory EXCEPT !.contents[worker[w].key[1]].status = "FAILED"])
        BY <1>5 DEF MarkContentFailed
    <2> QED BY <2>1, StatusStepOf DEF ContentStatus
<1>6. CASE AfterSuccess(w)
    <2>1. /\ worker[w].at = "concluding" /\ Ends(w)
          /\ Save([memory EXCEPT !.contents[worker[w].key[1]].status = "PUBLISHED"])
        BY <1>6 DEF AfterSuccess
    <2> QED BY <2>1, StatusStepOf DEF ContentStatus
<1> QED BY <1>1, <1>2, <1>3, <1>4, <1>5, <1>6

LEMMA NextDueOf ==
    ASSUME EngineInv, NEW w \in Workers, NEW c \in Contents, NextDue(w, c)
    PROVE  \E n \in Worker, m \in Document : StepOf(w, n, m)
<1> DEFINE late == worker[w].since > memory.contents[c].scheduledAt + Grace
           n == [worker[w] EXCEPT !.at = IF late THEN "missing" ELSE "creating",
                                  !.todo = @ \ {c}, !.key = KeyOf(c)]
<1>1. /\ worker[w].at = "listing" /\ c \in worker[w].todo
      /\ Becomes(w, n) /\ Reads
    BY DEF NextDue
<1>2. /\ worker[w] \in Worker
      /\ WorkerOK(worker[w], memory, accepted, approved, channels)
    BY <1>1, WorkingShape
<1>3. KeyOf(c) \in Key
    BY <1>1, <1>2, KeyOfIsKey DEF WorkerOK
<1>4. n \in Worker /\ n.key = KeyOf(c)
    BY <1>2, <1>3 DEF Worker
<1> HIDE DEF n
<1>5. Follows(worker[w], n)
    BY <1>1, <1>4 DEF Follows
<1> QED BY <1>1, <1>4, <1>5, LookingOf

LEMMA DeliverOf ==
    ASSUME EngineInv, NEW w \in Workers, Deliver(w)
    PROVE  \E n \in Worker, m \in Document : StepOf(w, n, m)
<1> DEFINE k == worker[w].key
           to == [d \in Destinations |-> IF d \in channels THEN FirstStep(k, d) ELSE Over("NONE")]
           n == [worker[w] EXCEPT !.at = "delivering", !.to = to]
<1>1. worker[w].at = "deciding" /\ Becomes(w, n) /\ Reads
    BY DEF Deliver
<1>2. /\ worker[w] \in Worker /\ k \in Key /\ memory \in Document
    BY <1>1, WorkingShape
<1>3. \A d \in Destinations : DeliveryIn(memory, k, d) \in DeliveryStatus \cup {"NONE"}
    <2>1. memory.deliveries \in Maps(Key \X Destinations, DeliveryStatus)
        BY <1>2 DEF Document
    <2> QED BY <2>1, MapFinds DEF DeliveryIn, At
<1>4. 0 \in 0 .. MaxAttempts
    BY ChannelAssumption
<1>5. to \in [Destinations -> Delivery]
    BY <1>3, <1>4 DEF Delivery, FirstStep, Over
<1>6. n \in Worker /\ n.at = "delivering" /\ n.key = k /\ n.todo = worker[w].todo
    BY <1>2, <1>5 DEF Worker
<1> HIDE DEF n, to
<1>7. Follows(worker[w], n)
    BY <1>6 DEF Follows
<1> QED BY <1>1, <1>6, <1>7, LookingOf

LEMMA RecordsOf ==
    ASSUME EngineInv, NEW w \in Workers, NEW d \in Destinations,
           SaveSending(w, d) \/ RecordDelivery(w, d)
    PROVE  \E n \in Worker, m \in Document : StepOf(w, n, m)
<1> DEFINE s == worker[w].to[d]
<1>1. worker[w].at = "delivering" /\ s.at # "over"
    BY DEF SaveSending, RecordDelivery, Delivering
<1>2. worker[w] \in Worker /\ worker \in [Workers -> Worker] /\ s \in Delivery
    BY <1>1, DeliveringShape DEF Worker, EngineInv, EngineTypeOK
<1>3. CASE SaveSending(w, d)
    <2> DEFINE step == [s EXCEPT !.at = "calling"]
    <2>1. /\ s.at = "saving" /\ SaveDelivery(w, d, "SENDING")
          /\ worker' = [worker EXCEPT ![w].to[d].at = "calling"]
        BY <1>3 DEF SaveSending, Delivering
    <2>2. step \in Delivery
        BY <1>2, <2>1 DEF Delivery
    <2>3. Becomes(w, [worker[w] EXCEPT !.to[d] = step])
        BY <1>2, <2>1 DEF Becomes, Worker
    <2> QED BY <1>1, <2>1, <2>2, <2>3, DeliveryOf DEF DeliveryStatus
<1>4. CASE RecordDelivery(w, d)
    <2> DEFINE result == IF s.at = "RETRYABLE" THEN "FAILED" ELSE s.at
    <2>1. /\ s.at \in {"SENT", "FAILED", "UNKNOWN", "RETRYABLE"} /\ SaveDelivery(w, d, result)
          /\ worker' = [worker EXCEPT ![w].to[d] =
                IF s.at = "RETRYABLE" /\ s.tries < MaxAttempts
                THEN [@ EXCEPT !.at = "calling"] ELSE Over(result)]
        BY <1>4 DEF RecordDelivery
    <2>2. result \in DeliveryStatus
        BY <2>1 DEF DeliveryStatus
    <2>3. CASE s.at = "RETRYABLE" /\ s.tries < MaxAttempts
        <3> DEFINE step == [s EXCEPT !.at = "calling"]
        <3>1. step \in Delivery
            BY <1>2, <2>3 DEF Delivery
        <3>2. Becomes(w, [worker[w] EXCEPT !.to[d] = step])
            BY <1>2, <2>1, <2>3 DEF Becomes, Worker
        <3>3. SaveDelivery(w, d, "FAILED")
            BY <2>1, <2>3
        <3> QED BY <1>1, <2>3, <3>1, <3>2, <3>3, DeliveryOf DEF DeliveryStatus
    <2>4. CASE ~ (s.at = "RETRYABLE" /\ s.tries < MaxAttempts)
        <3> DEFINE step == Over(result)
        <3>1. step \in Delivery /\ step.at = "over" /\ step.result = result
            BY <2>2, ChannelAssumption DEF Delivery, Over
        <3>2. Becomes(w, [worker[w] EXCEPT !.to[d] = step])
            BY <1>2, <2>1, <2>4 DEF Becomes, Worker
        <3>3. s.at = "SENT" => result = "SENT"
            OBVIOUS
        <3> HIDE DEF result, step
        <3> QED BY <1>1, <2>1, <2>2, <3>1, <3>2, <3>3, DeliveryOf
    <2> QED BY <2>3, <2>4
<1> QED BY <1>3, <1>4

LEMMA FinishJobOf ==
    ASSUME EngineInv, NEW w \in Workers, FinishJob(w)
    PROVE  \E n \in Worker, m \in Document : StepOf(w, n, m)
<1> DEFINE k == worker[w].key
<1>1. /\ worker[w].at = "delivering"
      /\ \A d \in Destinations : worker[w].to[d].at = "over"
    BY DEF FinishJob
<1>2. JobIn(memory, k) # "PUBLISHED"
    BY <1>1, HeldIsNot DEF Holds
<1>3. CASE \E d \in Destinations : worker[w].to[d].result = "SENT"
    <2>1. Save(WithJob(memory, k, "PUBLISHED")) /\ (Goes(w, "concluding") \/ Ends(w))
        BY <1>3 DEF FinishJob, Finish
    <2>2. PICK n \in Worker : Becomes(w, n) /\ Follows(worker[w], n)
        BY <2>1, AwaitsOf
    <2> QED BY <1>1, <1>2, <2>1, <2>2, JobOf DEF JobStatus
<1>4. CASE ~ \E d \in Destinations : worker[w].to[d].result = "SENT"
    <2>1. Save(WithJob(memory, k, "FAILED")) /\ Ends(w)
        BY <1>4 DEF FinishJob, Finish
    <2>2. PICK n \in Worker : Becomes(w, n) /\ Follows(worker[w], n)
        BY <2>1, AwaitsOf
    <2>3. \A d \in Destinations : ~ Answers(worker[w], d)
        BY <1>1, <1>4 DEF Answers
    <2> QED BY <1>1, <1>2, <2>1, <2>2, <2>3, JobOf DEF JobStatus
<1> QED BY <1>3, <1>4

\* The worker after a call.
LEMMA CallShape ==
    ASSUME EngineInv, NEW w \in Workers, NEW d \in Destinations, Call(w, d)
    PROVE  /\ worker[w].at = "delivering" /\ worker[w].to[d].at = "calling"
           /\ worker[w].key \in Key /\ d \in channels
           /\ \E n \in Worker, outcome \in {"SENT", "FAILED", "RETRYABLE", "UNKNOWN"} :
                /\ StepOf(w, n, memory)
                /\ n.at = "delivering" /\ n.key = worker[w].key /\ n.to[d].at = outcome
                /\ troubles' = IF outcome = "SENT" THEN troubles ELSE troubles + 1
                /\ \/ accepted' = accepted
                   \/ /\ outcome \in {"SENT", "UNKNOWN"}
                      /\ accepted' = Put(accepted, <<worker[w].key, d>>, 1 + Taken(worker[w].key, d))
<1> DEFINE s == worker[w].to[d]
           k == worker[w].key
<1>1. worker[w].at = "delivering" /\ s.at = "calling" /\ Reads
    BY DEF Call, Delivering
<1>2. PICK outcome \in {"SENT", "FAILED", "RETRYABLE", "UNKNOWN"}, taken \in BOOLEAN :
        /\ outcome \in {"FAILED", "RETRYABLE"} => ~ taken
        /\ IF outcome = "SENT" THEN UNCHANGED troubles ELSE troubles' = troubles + 1
        /\ worker' = Called(w, d, outcome)
        /\ accepted' = IF taken THEN Put(accepted, <<k, d>>, 1 + Taken(k, d)) ELSE accepted
    BY DEF Call, Called
<1>3. /\ worker[w] \in Worker /\ k \in Key
      /\ DeliveryOK(k, d, s, memory, accepted, approved, channels) /\ d \in channels
    BY <1>1, DeliveringShape
<1>4. worker \in [Workers -> Worker] /\ memory \in Document
    BY DEF EngineInv, EngineTypeOK
<1> DEFINE step == [s EXCEPT !.at = outcome, !.tries = @ + 1]
           n == [worker[w] EXCEPT !.to[d] = step]
<1>5. s \in Delivery /\ s.tries < MaxAttempts
    BY <1>1, <1>3 DEF Worker, DeliveryOK
<1>6. step \in Delivery /\ step.at = outcome
    <2>1. s.tries \in 0 .. MaxAttempts /\ MaxAttempts \in Nat
        BY <1>5, ChannelAssumption DEF Delivery
    <2>2. s.tries + 1 \in 0 .. MaxAttempts
        BY <1>5, <2>1
    <2> QED BY <1>5, <2>2 DEF Delivery
<1>7. worker' = [worker EXCEPT ![w] = n]
    <2>1. Called(w, d, outcome)
          = [worker EXCEPT ![w] = [worker[w] EXCEPT !.to[d] =
                [worker[w].to[d] EXCEPT !.at = outcome, !.tries = @ + 1]]]
        BY ONLY <1>4, w \in Workers, d \in Destinations, CallMoves
    <2> QED BY <1>2, <2>1
<1>8. /\ n \in Worker /\ n.at = "delivering" /\ n.key = k /\ n.todo = worker[w].todo
      /\ \A x \in Destinations : n.to[x] = IF x = d THEN step ELSE worker[w].to[x]
    BY <1>1, <1>3, <1>6, StepShape
<1> HIDE DEF n, step
<1>9. \A x \in Destinations : Answers(worker[w], x) => n.key = k /\ Answers(n, x)
    BY <1>1, <1>8 DEF Answers
<1>10. Becomes(w, n)
    BY <1>7 DEF Becomes
<1>11. StepOf(w, n, memory)
    BY <1>1, <1>8, <1>9, <1>10 DEF StepOf, Follows
<1>12. n.to[d].at = outcome
    BY <1>6, <1>8
<1>13. /\ troubles' = IF outcome = "SENT" THEN troubles ELSE troubles + 1
       /\ \/ accepted' = accepted
          \/ /\ outcome \in {"SENT", "UNKNOWN"}
             /\ accepted' = Put(accepted, <<k, d>>, 1 + Taken(k, d))
    BY <1>2
<1> QED BY <1>1, <1>3, <1>8, <1>11, <1>12, <1>13

\* A step that is not a call of a channel.
Call_(w) == \E d \in Destinations : Call(w, d)

LEMMA StepIsStepOf ==
    ASSUME EngineInv, NEW w \in Workers, Step(w), ~ Call_(w)
    PROVE  \E n \in Worker, m \in Document : StepOf(w, n, m)
<1>1. CASE \E c \in Contents : NextDue(w, c)
    BY <1>1, NextDueOf
<1>2. CASE CreateJob(w) \/ Claim(w) \/ SkipJob(w) \/ FailJob(w)
    BY <1>2, JobStepsOf
<1>3. CASE \/ Enter(w) \/ Refuse(w) \/ DecideThrows(w)
           \/ MarkContentMissed(w) \/ MarkContentFailed(w) \/ AfterSuccess(w)
    BY <1>3, OtherStepsOf
<1>4. CASE Deliver(w)
    BY <1>4, DeliverOf
<1>5. CASE FinishJob(w)
    BY <1>5, FinishJobOf
<1>6. CASE \E d \in Destinations : SaveSending(w, d) \/ RecordDelivery(w, d)
    BY <1>6, RecordsOf
<1> QED BY <1>1, <1>2, <1>3, <1>4, <1>5, <1>6 DEF Step, Call_

\* What no step of a worker changes.
LEMMA StepLeaves ==
    ASSUME NEW w \in Workers, Step(w)
    PROVE  /\ UNCHANGED <<scope, channels, now, starts, crashes>>
           /\ ~ Call_(w) => accepted' = accepted /\ (troubles' = troubles \/ troubles' = troubles + 1)
BY DEF Step, Call_, NextDue, MarkContentMissed, CreateJob, Enter, Claim, Deliver, Refuse, DecideThrows,
       SkipJob, FailJob, MarkContentFailed, SaveSending, Call, RecordDelivery, FinishJob,
       AfterSuccess, Quiet, Bystanders

-----------------------------------------------------------------------------
(* What was told, and how much of it is explained *)

\* The times told are finitely many.
LEMMA ToldIsTime ==
    ASSUME NEW s \in Symbols
    PROVE  /\ ToldAt(s) \subseteq 0 .. MaxTime /\ Unexplained(s) \subseteq 0 .. MaxTime
           /\ IsFiniteSet(Unexplained(s)) /\ Cardinality(Unexplained(s)) \in Nat
<1>1. ToldAt(s) \subseteq 0 .. MaxTime
    BY DEF ToldAt
<1>2. Unexplained(s) \subseteq 0 .. MaxTime
    BY <1>1 DEF Unexplained
<1>3. IsFiniteSet(0 .. MaxTime)
    BY ContentAssumption, FS_Interval
<1>4. IsFiniteSet(Unexplained(s))
    BY <1>2, <1>3, FS_Subset
<1> QED BY <1>1, <1>2, <1>4, FS_CardinalityType

\* The slot of a movement is that of its minute and symbols only.
LEMMA OneMoveKey ==
    ASSUME NEW t, NEW S, NEW u, NEW T, MoveKey(t, S) = MoveKey(u, T)
    PROVE  t = u /\ S = T
BY DEF MoveKey, MovementSlot

LEMMA ToldIsTaken ==
    ASSUME NEW s \in Symbols
    PROVE  ToldAt(s) = {t \in 0 .. MaxTime : \E S \in Moves, d \in Destinations :
                            s \in S /\ Taken(MoveKey(t, S), d) > 0}
BY DEF ToldAt, Moves, MoveKey

LEMMA ToldKept ==
    ASSUME \A k \in MoveKeys, d \in Destinations : At(accepted', <<k, d>>, 0) = Taken(k, d)
    PROVE  \A s \in Symbols : ToldAt(s)' = ToldAt(s)
<1> SUFFICES ASSUME NEW s \in Symbols PROVE ToldAt(s)' = ToldAt(s)
    OBVIOUS
<1>1. ASSUME NEW t \in 0 .. MaxTime, NEW S \in SUBSET Symbols, NEW d \in Destinations, s \in S
      PROVE  Taken(<<MovementSlot(t, S), 0>>, d)' = Taken(<<MovementSlot(t, S), 0>>, d)
    <2>1. S \in Moves
        BY <1>1 DEF Moves
    <2>2. MoveKey(t, S) \in MoveKeys /\ MoveKey(t, S) = <<MovementSlot(t, S), 0>>
        BY <2>1 DEF MoveKeys, MoveKey
    <2> QED BY <2>2 DEF Taken
<1> QED BY <1>1 DEF ToldAt

\* Nothing unexplained is added, and no record is lost.
LEMMA ExplainedKept ==
    ASSUME EachExplained,
           {crashes, troubles, crashes', troubles'} \subseteq Nat,
           crashes + troubles <= crashes' + troubles',
           \A s \in Symbols : Unexplained(s)' \subseteq Unexplained(s) /\ (Owed(s)' => Owed(s))
    PROVE  EachExplained'
<1> SUFFICES ASSUME NEW s \in Symbols
             PROVE  Cardinality(Unexplained(s)') + One(Owed(s)') <= crashes' + troubles'
    BY DEF EachExplained, One
<1>1. Cardinality(Unexplained(s)) + One(Owed(s)) <= crashes + troubles
    BY DEF EachExplained
<1>2. IsFiniteSet(Unexplained(s)) /\ Cardinality(Unexplained(s)) \in Nat
    BY ToldIsTime
<1>3. Cardinality(Unexplained(s)') <= Cardinality(Unexplained(s))
      /\ Cardinality(Unexplained(s)') \in Nat
    BY <1>2, FS_Subset, FS_CardinalityType
<1>4. One(Owed(s)') <= One(Owed(s)) /\ One(Owed(s)') \in Nat /\ One(Owed(s)) \in Nat
    BY DEF One
<1> QED BY <1>1, <1>2, <1>3, <1>4

\* While the cycle is busy its key is that of a movement.
LEMMA CycleKey ==
    ASSUME EngineNow, CycleOK, cycle.busy
    PROVE  cycle.key \in MoveKeys
BY DEF CycleOK, MoveKeys, EngineNow, TypeOK, EngineTypeOK

\* A step that tells nobody anything, nor touches what the cycles know.
LEMMA EventsQuiet ==
    ASSUME EngineNow, EventsInv, EventsOnly',
           \A k \in MoveKeys, d \in Destinations : At(accepted', <<k, d>>, 0) = Taken(k, d),
           UNCHANGED <<now, market, cycle, due, calm, channels>>,
           memory'.movements = memory.movements,
           {crashes', troubles'} \subseteq Nat,
           crashes + troubles <= crashes' + troubles',
           cycle.busy /\ Published => Published',
           cycle.busy => \A v \in Workers, d \in channels :
                WillTell(worker[v], d) =>
                    Published' \/ (worker'[v].key = cycle.key /\ Answers(worker'[v], d))
    PROVE  EventsInv'
<1>1. {crashes, troubles} \subseteq Nat
    BY DEF EngineNow, EngineInv, EngineTypeOK
<1>2. \A s \in Symbols : ToldAt(s)' = ToldAt(s)
    BY ToldKept
<1>3. \A s \in Symbols : \A u : LastTold(s, u)' <=> LastTold(s, u)
    BY <1>2 DEF LastTold
<1>4. \A s \in Symbols : Settled(s)' <=> Settled(s)
    BY <1>3 DEF Settled
<1>5. \A s \in Symbols : Coming(s) => Coming(s)'
    BY <1>3 DEF Coming, WillTell
<1>6. \A s \in Symbols : Owed(s)' => Owed(s)
    BY <1>2, <1>4, <1>5 DEF Owed
<1>7. \A s \in Symbols : Unexplained(s)' = Unexplained(s)
    BY <1>2 DEF Unexplained
<1>8. CycleOK'
    BY <1>2 DEF EventsInv, CycleOK
<1>9. NewsOK'
    <2> SUFFICES ASSUME cycle.busy, \A d \in channels : At(accepted', <<cycle.key, d>>, 0) = 0,
                        NEW s \in cycle.todo
                 PROVE  ~ Settled(s)' \/ IsNews(s)'
        BY DEF NewsOK, Taken
    <2>1. cycle.key \in MoveKeys /\ channels \subseteq Destinations /\ cycle.todo \subseteq Symbols
        BY CycleKey DEF EventsInv, EngineNow, TypeOK, EngineTypeOK, Cycle
    <2>2. ~ Settled(s) \/ IsNews(s)
        BY <2>1 DEF EventsInv, NewsOK
    <2>3. IsNews(s) => IsNews(s)'
        BY <1>2, <1>3, <2>1 DEF IsNews
    <2> QED BY <1>4, <2>1, <2>2, <2>3
<1>10. TodoOK'
    BY DEF EventsInv, TodoOK
<1>11. EachExplained'
    BY <1>1, <1>6, <1>7, ExplainedKept DEF EventsInv
<1> QED BY <1>8, <1>9, <1>10, <1>11 DEF EventsInv

-----------------------------------------------------------------------------
(* The steps that are not of the movements *)

LEMMA EventsTypes ==
    ASSUME EngineNow
    PROVE  /\ memory \in Document /\ disk \in Document /\ worker \in [Workers -> Worker]
           /\ {crashes, troubles} \subseteq Nat /\ now \in 0 .. MaxTime
           /\ accepted \in Maps(Key \X Destinations, Nat)
           /\ channels \subseteq Destinations /\ cycle \in Cycle
           /\ market \in [Symbols -> Sample]
           /\ due \in 0 .. MaxTime + 1
           /\ calm \in [Symbols -> SUBSET (0 .. MaxTime)]
BY DEF EngineNow, TypeOK, EngineTypeOK

LEMMA AsideEvents ==
    ASSUME EngineNow, EventsInv,
           UNCHANGED <<scope, channels, worker, starts, crashes, troubles, accepted, now>>,
           UNCHANGED <<market, cycle, due, calm>>,
           memory'.movements = memory.movements, memory'.jobs = memory.jobs,
           disk' = disk \/ disk' = memory'
    PROVE  EventsInv'
<1>1. EventsOnly'
    <2>1. EventsOnly
        BY DEF EventsInv
    <2> QED BY <2>1 DEF EventsOnly, JobIn, Taken
<1>2. \A k \in MoveKeys, d \in Destinations : At(accepted', <<k, d>>, 0) = Taken(k, d)
    BY DEF Taken
<1>3. cycle.busy /\ Published => Published'
    BY DEF Published, JobIn
<1>4. \A v \in Workers, d \in channels : WillTell(worker[v], d) =>
            worker'[v].key = cycle.key /\ Answers(worker'[v], d)
    BY DEF WillTell
<1>5. {crashes, troubles} \subseteq Nat
    BY EventsTypes
<1>6. {crashes', troubles'} \subseteq Nat /\ crashes + troubles <= crashes' + troubles'
    BY <1>5
<1> QED BY <1>1, <1>2, <1>3, <1>4, <1>6, EventsQuiet

LEMMA AdministerEvents ==
    ASSUME EngineNow, EventsInv, Administer, UNCHANGED eventVars
    PROVE  EventsInv'
<1>1. memory \in Document
    BY EventsTypes
<1>2. \A c, item : /\ [memory EXCEPT !.contents[c] = item].jobs = memory.jobs
                   /\ [memory EXCEPT !.contents[c] = item].movements = memory.movements
    BY <1>1 DEF Document
<1>3. /\ UNCHANGED <<scope, channels, worker, starts, crashes, troubles, accepted>>
      /\ UNCHANGED <<market, cycle, due, calm>>
    BY DEF Administer, engineVars, eventVars
<1>4. ASSUME NEW c \in Contents, Create(c) PROVE EventsInv'
    <2> DEFINE item == [NoItem EXCEPT !.status = "DRAFT", !.revision = 1,
                                      !.day = IF c \in Nightly THEN now ELSE 0]
               m == [memory EXCEPT !.contents[c] = item]
    <2>1. Save(m) /\ UNCHANGED now
        BY <1>4 DEF Create
    <2>2. m.movements = memory.movements /\ m.jobs = memory.jobs
        BY <1>2
    <2> HIDE DEF m
    <2>3. memory' = m /\ (disk' = m \/ disk' = disk)
        BY <2>1 DEF Save
    <2> QED BY <1>3, <2>1, <2>2, <2>3, AsideEvents
<1>5. ASSUME NEW p \in Admins, NEW kind \in Requests, NEW c \in Contents, NEW at \in 0 .. MaxTime,
             Ask(p, kind, c, at)
      PROVE  EventsInv'
    <2>1. UNCHANGED <<memory, disk, now>>
        BY <1>5 DEF Ask
    <2> QED BY <1>3, <2>1, AsideEvents
<1>6. ASSUME NEW p \in Admins, Change(p) PROVE EventsInv'
    <2> DEFINE c == request[p].content
               item == Changed(request[p], memory.contents[c])
               m == [memory EXCEPT !.contents[c] = item]
    <2>1. Save(m) /\ UNCHANGED now
        BY <1>6 DEF Change
    <2>2. m.movements = memory.movements /\ m.jobs = memory.jobs
        BY <1>2
    <2> HIDE DEF m
    <2>3. memory' = m /\ (disk' = m \/ disk' = disk)
        BY <2>1 DEF Save
    <2> QED BY <1>3, <2>1, <2>2, <2>3, AsideEvents
<1> QED BY <1>4, <1>5, <1>6 DEF Administer

LEMMA SwitchEvents ==
    ASSUME EngineNow, EventsInv, SetPublishingEnabled, UNCHANGED eventVars
    PROVE  EventsInv'
<1> DEFINE m == [memory EXCEPT !.enabled = ~ @]
<1>1. memory \in Document
    BY EventsTypes
<1>2. m.movements = memory.movements /\ m.jobs = memory.jobs
    BY <1>1 DEF Document
<1>3. /\ Save(m)
      /\ UNCHANGED <<scope, channels, worker, starts, crashes, troubles, accepted, now>>
      /\ UNCHANGED <<market, cycle, due, calm>>
    BY DEF SetPublishingEnabled, eventVars
<1> HIDE DEF m
<1>4. memory' = m /\ (disk' = m \/ disk' = disk)
    BY <1>3 DEF Save
<1> QED BY <1>2, <1>3, <1>4, AsideEvents

\* No other publication has the key of a movement.
LEMMA OtherKeys ==
    /\ NoKey \notin MoveKeys
    /\ \A k \in MoveKeys : k[1] \notin Contents
    /\ \A p \in PriceSlots : <<p, 0>> \notin MoveKeys
<1>1. \A k \in MoveKeys : \E t \in 0 .. MaxTime, S \in Moves : k = MoveKey(t, S)
    BY DEF MoveKeys
<1>2. \A t \in 0 .. MaxTime, S \in Moves : NoKey # MoveKey(t, S)
    BY DEF MoveKey, MovementSlot, NoKey
<1> QED BY <1>1, <1>2, MoveKeyIsKey

LEMMA StartEvents ==
    ASSUME EngineNow, EventsInv, NEW w \in Workers, NEW n, Starts(w, n), UNCHANGED eventVars,
           scope # "events" => n.key \notin MoveKeys
    PROVE  EventsInv'
<1>1. /\ starts < MaxStarts /\ worker' = [worker EXCEPT ![w] = n] /\ memory' = memory /\ disk' = disk
      /\ UNCHANGED <<scope, channels, now, crashes, troubles, accepted>>
      /\ UNCHANGED <<market, cycle, due, calm>>
    BY DEF Starts, Becomes, Reads, eventVars
<1>2. scope # "events"
    BY <1>1, ChannelAssumption DEF EventsInv, EventsOnly
<1>3. ~ cycle.busy
    BY <1>2 DEF EventsInv, EventsOnly
<1>4. worker \in [Workers -> Worker] /\ {crashes, troubles} \subseteq Nat
    BY EventsTypes
<1>5. \A v \in Workers : worker'[v].key \notin MoveKeys
    BY <1>1, <1>2, <1>4 DEF EventsInv, EventsOnly
<1>6. EventsOnly'
    <2>1. EventsOnly
        BY DEF EventsInv
    <2> QED BY <1>1, <1>2, <1>5, <2>1 DEF EventsOnly, Taken
<1>7. \A k \in MoveKeys, d \in Destinations : At(accepted', <<k, d>>, 0) = Taken(k, d)
    BY <1>1 DEF Taken
<1>8. {crashes', troubles'} \subseteq Nat /\ crashes + troubles <= crashes' + troubles'
    BY <1>1, <1>4
<1> QED BY <1>1, <1>3, <1>6, <1>7, <1>8, EventsQuiet

LEMMA StartsEvents ==
    ASSUME EngineNow, EventsInv, NEW w \in Workers, UNCHANGED eventVars,
           \/ StartTick(w)
           \/ \E c \in Contents : PublishNow(w, c)
           \/ \E s \in PriceSlots : PublishPrices(w, s)
           \/ \E k \in DOMAIN memory.jobs : Retry(w, k)
    PROVE  EventsInv'
<1>1. now \in 0 .. MaxTime /\ memory \in Document
    BY EventsTypes
<1>2. CASE StartTick(w)
    <2> DEFINE todo == {c \in Contents : Due(c)}
               n == [Idle EXCEPT !.at = "listing", !.todo = todo, !.since = now]
    <2>1. Starts(w, n)
        BY <1>2 DEF StartTick
    <2>2. todo \in SUBSET Contents
        OBVIOUS
    <2> HIDE DEF todo
    <2>3. n.key = NoKey
        BY <1>1, <2>2, ListingShape
    <2> HIDE DEF n
    <2> QED BY <2>1, <2>3, OtherKeys, StartEvents
<1>3. ASSUME NEW c \in Contents, PublishNow(w, c) PROVE EventsInv'
    <2> DEFINE n == [Idle EXCEPT !.at = "creating", !.key = KeyOf(c), !.since = now]
    <2>1. Starts(w, n) /\ memory.contents[c].status # "NONE"
        BY <1>3 DEF PublishNow
    <2>2. KeyOf(c) \in Key /\ KeyOf(c)[1] = c
        BY <2>1, KeyOfIsKey DEF EngineNow
    <2>3. n.key = KeyOf(c)
        BY <1>1, <2>2, KeyedShape
    <2> HIDE DEF n
    <2>4. n.key \notin MoveKeys
        BY <2>2, <2>3, OtherKeys
    <2> QED BY <2>1, <2>4, StartEvents
<1>4. ASSUME NEW p \in PriceSlots, PublishPrices(w, p) PROVE EventsInv'
    <2> DEFINE n == [Idle EXCEPT !.at = "creating", !.key = <<p, 0>>, !.since = now, !.priced = TRUE]
    <2>1. Starts(w, n)
        BY <1>4 DEF PublishPrices
    <2>2. <<p, 0>> \in Key
        BY ChannelAssumption DEF Key
    <2>3. n.key = <<p, 0>>
        BY <1>1, <2>2, PricedShape
    <2> HIDE DEF n
    <2> QED BY <2>1, <2>3, OtherKeys, StartEvents
<1>5. ASSUME NEW k \in DOMAIN memory.jobs, Retry(w, k) PROVE EventsInv'
    <2> DEFINE n == [Idle EXCEPT !.at = "entering", !.key = k, !.since = now]
    <2>1. Starts(w, n) /\ JobIn(memory, k) = "FAILED"
        BY <1>5 DEF Retry
    <2>2. k \in Key
        <3>1. memory.jobs \in Maps(Key, JobStatus)
            BY <1>1 DEF Document
        <3> QED BY <3>1, MapFinds
    <2>3. n.key = k
        BY <1>1, <2>2, KeyedShape
    <2> HIDE DEF n
    <2>4. scope # "events" => k \notin MoveKeys
        BY <2>1 DEF EventsInv, EventsOnly
    <2> QED BY <2>1, <2>3, <2>4, StartEvents
<1> QED BY <1>2, <1>3, <1>4, <1>5

LEMMA RecoverEvents ==
    ASSUME EngineNow, EventsInv, NEW e \in recovery, Recover(e), UNCHANGED eventVars
    PROVE  EventsInv'
<1> DEFINE m == Recovered(memory, e)
<1>1. /\ Save(m)
      /\ UNCHANGED <<scope, channels, worker, starts, crashes, troubles, accepted, now>>
      /\ UNCHANGED <<market, cycle, due, calm>>
    BY DEF Recover, eventVars
<1>2. /\ memory \in Document /\ e \in [at : {"settle", "mark"}, key : Key] /\ ToRecover(memory, e)
      /\ ItemsOK(memory, approved) /\ Truth(memory, accepted)
    BY DEF EngineNow, EngineInv, EngineTypeOK, RecoveryOK
<1>3. /\ m.movements = memory.movements
      /\ \A j : JobIn(m, j) = JobIn(memory, j) \/ JobIn(memory, j) \in {"PENDING", "PUBLISHING"}
    BY <1>2, RecoveredShape
<1> HIDE DEF m
<1>4. memory' = m /\ (disk' = m \/ disk' = disk)
    BY <1>1 DEF Save
<1>5. EventsOnly'
    <2>1. EventsOnly
        BY DEF EventsInv
    <2>2. scope # "events" => \A j \in MoveKeys : JobIn(m, j) = "NONE"
        BY <1>2, <1>3, <2>1 DEF EventsOnly
    <2> QED BY <1>1, <1>4, <2>1, <2>2 DEF EventsOnly, Taken
<1>6. cycle.busy /\ Published => Published'
    BY <1>1, <1>2, <1>3, <1>4 DEF Published
<1>7. \A v \in Workers, d \in channels : WillTell(worker[v], d) =>
            worker'[v].key = cycle.key /\ Answers(worker'[v], d)
    BY <1>1 DEF WillTell
<1>8. \A j \in MoveKeys, d \in Destinations : At(accepted', <<j, d>>, 0) = Taken(j, d)
    BY <1>1 DEF Taken
<1>9. {crashes, troubles} \subseteq Nat
    BY EventsTypes
<1>10. {crashes', troubles'} \subseteq Nat /\ crashes + troubles <= crashes' + troubles'
    BY <1>1, <1>9
<1> QED BY <1>1, <1>3, <1>4, <1>5, <1>6, <1>7, <1>8, <1>10, EventsQuiet

\* A step of a publication stays with its own key.
LEMMA StepEventsOnly ==
    ASSUME EngineNow, EventsOnly, NEW w \in Workers, NEW n \in Worker, NEW m \in Document,
           worker[w].at # "idle", StepOf(w, n, m),
           UNCHANGED <<scope, channels, starts, cycle>>,
           scope # "events" => \A k \in MoveKeys, d \in Destinations :
                                    At(accepted', <<k, d>>, 0) = Taken(k, d)
    PROVE  EventsOnly'
<1>1. worker \in [Workers -> Worker]
    BY EventsTypes
<1>2. /\ worker' = [worker EXCEPT ![w] = n] /\ memory' = m /\ (disk' = m \/ disk' = disk)
      /\ \A k : k # worker[w].key => JobIn(m, k) = JobIn(memory, k)
      /\ Follows(worker[w], n)
    BY DEF StepOf, Becomes, Save, Reads
<1>3. \A v \in Workers : worker'[v] = IF v = w THEN n ELSE worker[v]
    BY <1>1, <1>2
<1>4. ASSUME scope # "events" PROVE EventsOnly'
    <2>1. n.key \notin MoveKeys
        <3>1. worker[w].key \notin MoveKeys /\ worker[w].todo \subseteq Contents
            BY <1>1, <1>4 DEF EventsOnly, Worker
        <3>2. CASE n.key = worker[w].key
            BY <3>1, <3>2
        <3>3. CASE n = EndOf(worker[w])
            BY <1>1, <3>3, EndShape, OtherKeys
        <3>4. CASE \E c \in worker[w].todo : n.key = KeyOf(c)
            <4>1. n.key[1] \in Contents
                BY <3>1, <3>4 DEF KeyOf
            <4> QED BY <4>1, OtherKeys
        <3> QED BY <1>2, <3>2, <3>3, <3>4 DEF Follows
    <2>2. \A v \in Workers : worker'[v].key \notin MoveKeys
        BY <1>3, <1>4, <2>1 DEF EventsOnly
    <2>3. \A k \in MoveKeys : JobIn(m, k) = "NONE"
        BY <1>2, <1>4 DEF EventsOnly
    <2> QED BY <1>2, <1>4, <2>2, <2>3 DEF EventsOnly, Taken
<1>5. ASSUME scope = "events" PROVE EventsOnly'
    <2>1. worker[w] # Idle
        BY IdleShape
    <2>2. worker[w].todo = {} /\ cycle.busy /\ worker[w].key = cycle.key
        BY <1>5, <2>1 DEF EventsOnly
    <2>3. n.todo = {} /\ (n # Idle => n.key = cycle.key)
        <3>1. EndOf(worker[w]) = Idle
            BY <2>2 DEF EndOf
        <3> QED BY <1>2, <2>2, <3>1, IdleShape DEF Follows
    <2>4. \A v \in Workers : worker'[v].todo = {} /\
                (worker'[v] # Idle => cycle.busy /\ worker'[v].key = cycle.key)
        BY <1>3, <1>5, <2>2, <2>3 DEF EventsOnly
    <2> QED BY <1>5, <2>4 DEF EventsOnly
<1> QED BY <1>4, <1>5

\* What was on its way to the record still is, or is recorded.
LEMMA StepTells ==
    ASSUME EngineNow, NEW w \in Workers, NEW n \in Worker, NEW m \in Document,
           StepOf(w, n, m), cycle' = cycle
    PROVE  /\ Published => Published'
           /\ \A v \in Workers, d \in channels :
                WillTell(worker[v], d) =>
                    Published' \/ (worker'[v].key = cycle.key /\ Answers(worker'[v], d))
<1>1. worker \in [Workers -> Worker] /\ channels \subseteq Destinations
    BY EventsTypes
<1>2. /\ worker' = [worker EXCEPT ![w] = n] /\ memory' = m
      /\ \A k : k # worker[w].key => JobIn(m, k) = JobIn(memory, k)
      /\ JobIn(memory, worker[w].key) = "PUBLISHED" => JobIn(m, worker[w].key) = "PUBLISHED"
      /\ \A d \in Destinations : Answers(worker[w], d) =>
            \/ n.key = worker[w].key /\ Answers(n, d)
            \/ JobIn(m, worker[w].key) = "PUBLISHED"
    BY DEF StepOf, Becomes, Save, Reads
<1>3. \A v \in Workers : worker'[v] = IF v = w THEN n ELSE worker[v]
    BY <1>1, <1>2
<1>4. Published' <=> JobIn(m, cycle.key) = "PUBLISHED"
    BY <1>2 DEF Published
<1>5. Published => Published'
    BY <1>2, <1>4 DEF Published
<1>6. ASSUME NEW v \in Workers, NEW d \in channels, WillTell(worker[v], d)
      PROVE  Published' \/ (worker'[v].key = cycle.key /\ Answers(worker'[v], d))
    BY <1>1, <1>2, <1>3, <1>4, <1>6 DEF WillTell
<1> QED BY <1>5, <1>6

LEMMA StepEvents ==
    ASSUME EngineNow, EventsInv, NEW w \in Workers, Step(w), ~ Call_(w), UNCHANGED eventVars
    PROVE  EventsInv'
<1>1. worker[w].at # "idle"
    BY DEF Step, NextDue, MarkContentMissed, CreateJob, Enter, Claim, Deliver, Refuse, DecideThrows,
           SkipJob, FailJob, MarkContentFailed, SaveSending, Call, RecordDelivery, FinishJob,
           AfterSuccess, Delivering
<1>2. PICK n \in Worker, m \in Document : StepOf(w, n, m)
    BY StepIsStepOf DEF EngineNow
<1>3. /\ UNCHANGED <<scope, channels, now, starts, crashes, accepted>>
      /\ troubles' = troubles \/ troubles' = troubles + 1
    BY StepLeaves
<1>4. UNCHANGED <<market, cycle, due, calm>>
    BY DEF eventVars
<1>5. \A k \in MoveKeys, d \in Destinations : At(accepted', <<k, d>>, 0) = Taken(k, d)
    BY <1>3 DEF Taken
<1>6. EventsOnly
    BY DEF EventsInv
<1>7. EventsOnly'
    BY <1>1, <1>2, <1>3, <1>4, <1>5, <1>6, StepEventsOnly
<1>8. memory'.movements = memory.movements
    BY <1>2 DEF StepOf, Save, Reads
<1>9. {crashes, troubles} \subseteq Nat
    BY EventsTypes
<1>10. {crashes', troubles'} \subseteq Nat /\ crashes + troubles <= crashes' + troubles'
    BY <1>3, <1>9
<1> QED BY <1>2, <1>3, <1>4, <1>5, <1>7, <1>8, <1>10, StepTells, EventsQuiet

-----------------------------------------------------------------------------
(* The steps of the movements *)

\* A call while the key of a movement is out: the cycle's, in its own channel.
LEMMA MoveCall ==
    ASSUME EngineNow, EventsInv, NEW w \in Workers, NEW d \in Destinations, Call(w, d),
           scope = "events"
    PROVE  /\ cycle.busy /\ worker[w].key = cycle.key /\ ~ Published
           /\ \A v \in Workers, x \in channels : ~ WillTell(worker[v], x)
<1>1. worker[w].at = "delivering" /\ worker[w].to[d].at = "calling" /\ d \in channels
    BY CallShape DEF EngineNow
<1>2. cycle.busy /\ worker[w].key = cycle.key
    BY <1>1, IdleShape DEF EventsInv, EventsOnly
<1>3. JobIn(memory, worker[w].key) = "PUBLISHING"
    BY <1>1, HeldIsNot DEF Holds, EngineNow
<1>4. \A x \in channels : x = d
    BY <1>1 DEF EventsInv, EventsOnly
<1>5. ASSUME NEW v \in Workers, NEW x \in channels, WillTell(worker[v], x) PROVE FALSE
    <2>1. Holds(worker[v]) /\ Holds(worker[w]) /\ worker[v].key = worker[w].key
        BY <1>1, <1>2, <1>5 DEF WillTell, Answers, Holds
    <2>2. v = w
        BY <2>1 DEF EngineNow, EngineInv, Alone
    <2> QED BY <1>1, <1>4, <1>5, <2>2 DEF WillTell, Answers
<1> QED BY <1>2, <1>3, <1>5 DEF Published

\* What is told for the first time is news, or is owed a record that was missed.
LEMMA ToldIsNews ==
    ASSUME EngineNow, EventsInv, scope = "events", cycle.busy, ~ Published,
           \A v \in Workers, x \in channels : ~ WillTell(worker[v], x),
           NEW s \in cycle.todo, now \notin ToldAt(s), ToldAt(s) # {}, ~ Owed(s)
    PROVE  IsNews(s)
<1>1. s \in Symbols /\ channels \subseteq Destinations /\ channels # {} /\ now \in 0 .. MaxTime
    BY EventsTypes DEF Cycle, EventsInv, EventsOnly
<1>2. ~ Coming(s)
    BY DEF Coming
<1>3. Settled(s)
    BY <1>2 DEF Owed
<1>4. PICK S \in Moves : cycle.key = MoveKey(now, S) /\ cycle.todo = S
    BY DEF EventsInv, TodoOK
<1>5. ASSUME NEW x \in channels PROVE Taken(cycle.key, x) = 0
    <2>1. Taken(cycle.key, x) \in Nat
        BY EventsTypes, TakenIsNat DEF Taken
    <2>2. ~ Taken(cycle.key, x) > 0
        BY <1>1, <1>4, ToldIsTaken
    <2> QED BY <2>1, <2>2
<1> QED BY <1>3, <1>5 DEF EventsInv, NewsOK

\* A channel takes the message of a movement: for the first time in its tick it is
\* news or pays for itself; again in the same tick it adds nothing.
LEMMA CallEvents ==
    ASSUME EngineNow, EventsInv, NEW w \in Workers, NEW d \in Destinations, Call(w, d),
           UNCHANGED eventVars
    PROVE  EventsInv'
<1> DEFINE k == worker[w].key
<1>1. /\ worker[w].at = "delivering" /\ k \in Key /\ d \in channels
    BY CallShape DEF EngineNow
<1>2. PICK n \in Worker, outcome \in {"SENT", "FAILED", "RETRYABLE", "UNKNOWN"} :
        /\ StepOf(w, n, memory)
        /\ n.at = "delivering" /\ n.key = k /\ n.to[d].at = outcome
        /\ troubles' = IF outcome = "SENT" THEN troubles ELSE troubles + 1
        /\ \/ accepted' = accepted
           \/ /\ outcome \in {"SENT", "UNKNOWN"}
              /\ accepted' = Put(accepted, <<k, d>>, 1 + Taken(k, d))
    BY CallShape DEF EngineNow
<1>3. /\ UNCHANGED <<scope, channels, now, starts, crashes>>
      /\ UNCHANGED <<market, cycle, due, calm>> /\ memory' = memory
    BY StepLeaves DEF Step, eventVars, Call, Reads
<1>4. /\ memory \in Document /\ worker \in [Workers -> Worker] /\ {crashes, troubles} \subseteq Nat
      /\ now \in 0 .. MaxTime /\ MaxTime \in Nat /\ cycle \in Cycle /\ channels \subseteq Destinations
      /\ accepted \in Maps(Key \X Destinations, Nat)
      /\ market \in [Symbols -> Sample]
    BY EventsTypes, ContentAssumption
<1>5. \A j, x : Taken(j, x) \in Nat
    BY <1>4, TakenIsNat DEF Taken
<1>6. {crashes', troubles'} \subseteq Nat /\ crashes + troubles <= crashes' + troubles'
    BY <1>2, <1>3, <1>4
<1>7. \/ \A j, x : At(accepted', <<j, x>>, 0) = Taken(j, x)
      \/ /\ outcome \in {"SENT", "UNKNOWN"}
         /\ \A j, x : At(accepted', <<j, x>>, 0) =
                        IF j = k /\ x = d THEN 1 + Taken(k, d) ELSE Taken(j, x)
    <2>1. CASE accepted' = accepted
        BY <2>1 DEF Taken
    <2>2. CASE /\ outcome \in {"SENT", "UNKNOWN"}
               /\ accepted' = Put(accepted, <<k, d>>, 1 + Taken(k, d))
        <3>1. 1 + Taken(k, d) \in Nat /\ <<k, d>> \in Key \X Destinations
            BY <1>1, <1>5
        <3>2. \A x : At(Put(accepted, <<k, d>>, 1 + Taken(k, d)), x, 0)
                     = IF x = <<k, d>> THEN 1 + Taken(k, d) ELSE At(accepted, x, 0)
            BY <1>4, <3>1, PutMap
        <3> QED BY <2>2, <3>2 DEF Taken
    <2> QED BY <1>2, <2>1, <2>2
<1>8. EventsOnly'
    <2>1. scope # "events" => k \notin MoveKeys
        BY DEF EventsInv, EventsOnly
    <2>2. scope # "events" => \A j \in MoveKeys, x \in Destinations :
                                    At(accepted', <<j, x>>, 0) = Taken(j, x)
        BY <1>7, <2>1
    <2>3. EventsOnly
        BY DEF EventsInv
    <2> QED BY <1>1, <1>2, <1>3, <1>4, <2>2, <2>3, StepEventsOnly
<1>9. CASE \A j \in MoveKeys, x \in Destinations : At(accepted', <<j, x>>, 0) = Taken(j, x)
    BY <1>2, <1>3, <1>4, <1>6, <1>8, <1>9, StepTells, EventsQuiet
<1>10. CASE ~ \A j \in MoveKeys, x \in Destinations : At(accepted', <<j, x>>, 0) = Taken(j, x)
    <2>1. /\ outcome \in {"SENT", "UNKNOWN"} /\ k \in MoveKeys
          /\ \A j, x : At(accepted', <<j, x>>, 0) =
                        IF j = k /\ x = d THEN 1 + Taken(k, d) ELSE Taken(j, x)
        BY <1>7, <1>10
    <2>2. scope = "events"
        BY <2>1 DEF EventsInv, EventsOnly
    <2>3. /\ cycle.busy /\ k = cycle.key /\ ~ Published
          /\ \A v \in Workers, x \in channels : ~ WillTell(worker[v], x)
        BY <2>2, MoveCall
    <2>4. PICK S \in Moves : cycle.key = MoveKey(now, S) /\ cycle.todo = S
        BY <2>3 DEF EventsInv, TodoOK
    <2>5. /\ cycle.since = now /\ due = now + 1
          /\ \A s \in S : market[s].move >= Threshold
          /\ \A s \in Symbols : FallenBack(market[s]) => now \in calm[s]
          /\ \A s \in Symbols : now \in ToldAt(s) => market[s].move >= Threshold
          /\ \A s \in Symbols : \A t \in ToldAt(s) \cup calm[s] : t < now + 1
        <3>1. PICK T \in Moves : /\ cycle.key = MoveKey(now, T)
                                 /\ \A s \in T : market[s].move >= Threshold
            BY <2>3 DEF EventsInv, CycleOK
        <3>2. T = S
            <4>1. MoveKey(now, T) = MoveKey(now, S)
                BY <2>4, <3>1
            <4> QED BY ONLY <4>1, OneMoveKey
        <3> QED BY <2>3, <3>1, <3>2 DEF EventsInv, CycleOK
    <2>6. \A s \in Symbols : ToldAt(s)' = IF s \in S THEN ToldAt(s) \cup {now} ELSE ToldAt(s)
        <3> SUFFICES ASSUME NEW s \in Symbols
                     PROVE  ToldAt(s)' = IF s \in S THEN ToldAt(s) \cup {now} ELSE ToldAt(s)
            OBVIOUS
        <3>1. ToldAt(s)' = {t \in 0 .. MaxTime : \E T \in Moves, x \in Destinations :
                                s \in T /\ At(accepted', <<MoveKey(t, T), x>>, 0) > 0}
            BY DEF ToldAt, Moves, MoveKey, Taken
        <3>2. ASSUME NEW t \in 0 .. MaxTime, NEW T \in Moves
              PROVE  MoveKey(t, T) = k <=> t = now /\ T = S
            BY <2>3, <2>4, OneMoveKey
        <3>3. ASSUME NEW t \in 0 .. MaxTime
              PROVE  (\E T \in Moves, x \in Destinations :
                            s \in T /\ At(accepted', <<MoveKey(t, T), x>>, 0) > 0)
                     <=> (t \in ToldAt(s) \/ (t = now /\ s \in S))
            <4>1. t \in ToldAt(s) <=> \E T \in Moves, x \in Destinations :
                                            s \in T /\ Taken(MoveKey(t, T), x) > 0
                BY ToldIsTaken
            <4>2. 1 + Taken(k, d) > 0 /\ d \in Destinations
                BY <1>5
            <4>3. ASSUME NEW T \in Moves, NEW x \in Destinations,
                         s \in T, At(accepted', <<MoveKey(t, T), x>>, 0) > 0
                  PROVE  t \in ToldAt(s) \/ (t = now /\ s \in S)
                <5>1. CASE MoveKey(t, T) = k
                    BY <3>2, <4>3, <5>1
                <5>2. CASE MoveKey(t, T) # k
                    <6>1. At(accepted', <<MoveKey(t, T), x>>, 0) = Taken(MoveKey(t, T), x)
                        BY <2>1, <5>2
                    <6> QED BY <4>1, <4>3, <6>1
                <5> QED BY <5>1, <5>2
            <4>4. ASSUME t \in ToldAt(s)
                  PROVE  \E T \in Moves, x \in Destinations :
                            s \in T /\ At(accepted', <<MoveKey(t, T), x>>, 0) > 0
                <5>1. PICK T \in Moves, x \in Destinations : s \in T /\ Taken(MoveKey(t, T), x) > 0
                    BY <4>1, <4>4
                <5>2. At(accepted', <<MoveKey(t, T), x>>, 0) =
                        IF MoveKey(t, T) = k /\ x = d THEN 1 + Taken(k, d) ELSE Taken(MoveKey(t, T), x)
                    BY <2>1
                <5>3. At(accepted', <<MoveKey(t, T), x>>, 0) > 0
                    BY <4>2, <5>1, <5>2
                <5> QED BY <5>1, <5>3
            <4>5. ASSUME t = now, s \in S
                  PROVE  \E T \in Moves, x \in Destinations :
                            s \in T /\ At(accepted', <<MoveKey(t, T), x>>, 0) > 0
                <5>1. MoveKey(t, S) = k
                    BY <2>3, <2>4, <4>5
                <5>2. At(accepted', <<MoveKey(t, S), d>>, 0) = 1 + Taken(k, d)
                    BY <2>1, <5>1
                <5> QED BY <4>2, <4>5, <5>2
            <4> QED BY <4>3, <4>4, <4>5
        <3>4. ToldAt(s) \subseteq 0 .. MaxTime
            BY ToldIsTime
        <3> QED BY <1>4, <3>1, <3>3, <3>4
    <2>7. CycleOK'
        <3>1. \A s \in Symbols : \A t \in ToldAt(s)' \cup calm[s] : t < now + 1
            BY <1>4, <2>5, <2>6
        <3>2. \A s \in Symbols : now \in ToldAt(s)' => market[s].move >= Threshold
            BY <2>5, <2>6
        <3> QED BY <1>3, <1>4, <2>3, <2>4, <2>5, <3>1, <3>2 DEF CycleOK
    <2>8. NewsOK'
        <3>1. At(accepted', <<cycle.key, d>>, 0) > 0
            BY <1>5, <2>1, <2>3
        <3> QED BY <1>1, <1>3, <3>1 DEF NewsOK, Taken
    <2>9. TodoOK'
        BY <1>3, <2>4 DEF TodoOK
    <2>10. EachExplained'
        <3> SUFFICES ASSUME NEW s \in Symbols
                     PROVE  Cardinality(Unexplained(s)') + One(Owed(s)') <= crashes' + troubles'
            BY DEF EachExplained, One
        <3>1. Cardinality(Unexplained(s)) + One(Owed(s)) <= crashes + troubles
            BY DEF EventsInv, EachExplained
        <3>2. /\ IsFiniteSet(Unexplained(s)) /\ Cardinality(Unexplained(s)) \in Nat
              /\ ToldAt(s) \subseteq 0 .. MaxTime /\ Unexplained(s) \subseteq 0 .. MaxTime
            BY ToldIsTime
        <3>3. One(Owed(s)) \in {0, 1} /\ One(Owed(s)') \in {0, 1}
            BY DEF One
        <3>4. CASE s \notin S
            <4>1. ToldAt(s)' = ToldAt(s)
                BY <2>6, <3>4
            <4>2. Unexplained(s)' = Unexplained(s)
                BY <1>3, <4>1 DEF Unexplained
            <4>3. Owed(s)' => Owed(s)
                <5>1. ~ Coming(s)
                    BY <2>4, <3>4 DEF Coming
                <5>2. Settled(s) => Settled(s)'
                    BY <1>3, <4>1 DEF Settled, LastTold
                <5> QED BY <4>1, <5>1, <5>2 DEF Owed
            <4>4. One(Owed(s)') <= One(Owed(s))
                BY <4>3 DEF One
            <4> QED BY <1>4, <1>6, <3>1, <3>2, <3>3, <4>2, <4>4
        <3>5. CASE s \in S
            <4>1. ToldAt(s)' = ToldAt(s) \cup {now}
                BY <2>6, <3>5
            <4>2. Unexplained(s)' \subseteq Unexplained(s) \cup {now}
                <5> SUFFICES ASSUME NEW t \in Unexplained(s)', t # now PROVE t \in Unexplained(s)
                    OBVIOUS
                <5>1. t \in ToldAt(s) /\ t < now
                    BY <1>4, <2>5, <3>2, <4>1 DEF Unexplained
                <5>2. PICK u \in ToldAt(s) \cup {now} :
                        /\ u < t /\ \A v \in ToldAt(s) \cup {now} : ~ (u < v /\ v < t)
                        /\ t - u < Cooldown \/ ~ \E c \in calm[s] : u < c /\ c < t
                    BY <1>3, <4>1 DEF Unexplained
                <5>3. u \in ToldAt(s)
                    BY <1>4, <3>2, <5>1, <5>2
                <5> QED BY <5>1, <5>2, <5>3 DEF Unexplained
            <4>3. now \in Unexplained(s)' => now \in Unexplained(s) \/ Owed(s)
                <5> SUFFICES ASSUME now \in Unexplained(s)', ~ Owed(s) PROVE now \in Unexplained(s)
                    OBVIOUS
                <5>1. PICK u \in ToldAt(s) \cup {now} :
                        /\ u < now /\ \A v \in ToldAt(s) \cup {now} : ~ (u < v /\ v < now)
                        /\ now - u < Cooldown \/ ~ \E c \in calm[s] : u < c /\ c < now
                    BY <1>3, <4>1 DEF Unexplained
                <5>2. u \in ToldAt(s)
                    BY <1>4, <5>1
                <5>3. CASE now \in ToldAt(s)
                    BY <5>1, <5>2, <5>3 DEF Unexplained
                <5>4. CASE now \notin ToldAt(s)
                    <6>1. IsNews(s)
                        BY <2>2, <2>3, <2>4, <3>5, <5>2, <5>4, ToldIsNews
                    <6>2. LastTold(s, u)
                        BY <1>4, <2>5, <3>2, <5>1, <5>2, <5>4 DEF LastTold
                    <6>3. now - u >= Cooldown /\ \E c \in calm[s] : u < c /\ c < now
                        BY <5>2, <6>1, <6>2 DEF IsNews
                    <6> QED BY <1>4, <3>2, <5>1, <5>2, <6>3, EventsAssumption
                <5> QED BY <5>3, <5>4
            <4>4. /\ Cardinality(Unexplained(s)') <= Cardinality(Unexplained(s)) + One(Owed(s))
                  /\ Cardinality(Unexplained(s)') \in Nat
                <5>1. CASE Unexplained(s)' \subseteq Unexplained(s)
                    <6>1. Cardinality(Unexplained(s)') <= Cardinality(Unexplained(s))
                          /\ Cardinality(Unexplained(s)') \in Nat
                        BY <3>2, <5>1, FS_Subset, FS_CardinalityType
                    <6> QED BY <3>2, <3>3, <6>1
                <5>2. CASE ~ (Unexplained(s)' \subseteq Unexplained(s))
                    <6>1. One(Owed(s)) = 1
                        BY <4>2, <4>3, <5>2 DEF One
                    <6>2. /\ IsFiniteSet(Unexplained(s) \cup {now})
                          /\ Cardinality(Unexplained(s) \cup {now}) <= Cardinality(Unexplained(s)) + 1
                          /\ Cardinality(Unexplained(s) \cup {now}) \in Nat
                        <7>1. /\ IsFiniteSet(Unexplained(s) \cup {now})
                              /\ \/ Cardinality(Unexplained(s) \cup {now}) = Cardinality(Unexplained(s))
                                 \/ Cardinality(Unexplained(s) \cup {now}) = Cardinality(Unexplained(s)) + 1
                            BY <3>2, FS_AddElement
                        <7> QED BY <3>2, <7>1
                    <6>3. /\ Cardinality(Unexplained(s)') <= Cardinality(Unexplained(s) \cup {now})
                          /\ Cardinality(Unexplained(s)') \in Nat
                        BY <4>2, <6>2, FS_Subset, FS_CardinalityType
                    <6> QED BY <3>2, <6>1, <6>2, <6>3
                <5> QED BY <5>1, <5>2
            <4>5. CASE outcome = "SENT"
                <5>1. ~ Owed(s)'
                    <6>1. LastTold(s, now)'
                        BY <1>3, <1>4, <2>5, <3>2, <4>1 DEF LastTold
                    <6>2. WillTell(n, d)
                        BY <1>2, <2>3, <4>5 DEF WillTell, Answers
                    <6>3. worker'[w] = n
                        BY <1>2, <1>4 DEF StepOf, Becomes
                    <6>4. Coming(s)'
                        BY <1>1, <1>3, <2>3, <2>4, <2>5, <3>5, <6>1, <6>2, <6>3 DEF Coming, WillTell
                    <6> QED BY <6>4 DEF Owed
                <5>2. One(Owed(s)') = 0
                    BY <5>1 DEF One
                <5> QED BY <1>4, <1>6, <3>1, <3>2, <3>3, <4>4, <5>2
            <4>6. CASE outcome # "SENT"
                <5>1. troubles' = troubles + 1 /\ crashes' = crashes
                    BY <1>2, <1>3, <4>6
                <5> QED BY <1>4, <3>1, <3>2, <3>3, <4>4, <5>1
            <4> QED BY <4>5, <4>6
        <3> QED BY <3>4, <3>5
    <2> QED BY <1>8, <2>7, <2>8, <2>9, <2>10 DEF EventsInv
<1> QED BY <1>9, <1>10

\* Between two cycles nothing is busy and no worker has a movement.
LEMMA TickEvents ==
    ASSUME EngineNow, EventsInv, ~ cycle.busy, Tick, UNCHANGED <<engineVars, eventVars>>
    PROVE  EventsInv'
<1>1. /\ now' = now + 1 /\ UNCHANGED <<memory, disk>>
      /\ UNCHANGED <<scope, channels, worker, starts, crashes, troubles, accepted>>
      /\ UNCHANGED <<market, cycle, due, calm>>
    BY DEF Tick, engineVars, eventVars
<1>2. /\ {crashes, troubles} \subseteq Nat /\ now \in Nat
      /\ due \in Nat
    BY EventsTypes
<1>3. \A s \in Symbols : ToldAt(s)' = ToldAt(s) /\ Unexplained(s)' = Unexplained(s)
    BY <1>1 DEF ToldAt, Taken, Unexplained
<1>4. \A s \in Symbols : Owed(s)' => Owed(s)
    BY <1>1, <1>3 DEF Owed, Settled, LastTold, Coming
<1>5. EachExplained'
    BY <1>1, <1>2, <1>3, <1>4, ExplainedKept DEF EventsInv
<1>6. EventsOnly'
    <2>1. EventsOnly
        BY DEF EventsInv
    <2> QED BY <1>1, <2>1 DEF EventsOnly, Taken
<1>7. CycleOK'
    BY <1>1, <1>2, <1>3 DEF EventsInv, CycleOK
<1> QED BY <1>1, <1>5, <1>6, <1>7 DEF EventsInv, NewsOK, TodoOK

\* The process dies: what was owed a record stays owed, and one more may be.
LEMMA CrashEvents ==
    ASSUME EngineNow, EventsInv, Crash, cycle' = NoCycle, UNCHANGED <<market, due, calm>>
    PROVE  EventsInv'
<1>1. /\ memory' = disk /\ disk' = disk /\ worker' = [w \in Workers |-> Idle]
      /\ crashes' = crashes + 1
      /\ UNCHANGED <<scope, channels, now, starts, troubles, accepted>>
    BY DEF Crash
<1>2. {crashes, troubles} \subseteq Nat
    BY EventsTypes
<1>3. ~ cycle'.busy
    BY DEF NoCycle
<1>4. \A s \in Symbols : ToldAt(s)' = ToldAt(s) /\ Unexplained(s)' = Unexplained(s)
    BY <1>1 DEF ToldAt, Taken, Unexplained
<1>5. EachExplained'
    <2> SUFFICES ASSUME NEW s \in Symbols
                 PROVE  Cardinality(Unexplained(s)') + One(Owed(s)') <= crashes' + troubles'
        BY DEF EachExplained, One
    <2>1. Cardinality(Unexplained(s)) + One(Owed(s)) <= crashes + troubles
        BY DEF EventsInv, EachExplained
    <2>2. One(Owed(s)) \in {0, 1} /\ One(Owed(s)') \in {0, 1}
        BY DEF One
    <2>3. Cardinality(Unexplained(s)) \in Nat
        BY ToldIsTime
    <2> QED BY <1>1, <1>2, <1>4, <2>1, <2>2, <2>3
<1>6. EventsOnly'
    <2>1. EventsOnly
        BY DEF EventsInv
    <2>2. \A w \in Workers : worker'[w] = Idle
        BY <1>1
    <2> QED BY <1>1, <1>3, <2>1, <2>2, IdleShape, OtherKeys DEF EventsOnly, Taken
<1>7. CycleOK'
    BY <1>1, <1>3, <1>4 DEF EventsInv, CycleOK
<1> QED BY <1>3, <1>5, <1>6, <1>7 DEF EventsInv, NewsOK, TodoOK

\* The market has moved: what is picked as news is news, by the records.
LEMMA BeginEvents ==
    ASSUME EngineNow, EventsInv, NEW w \in Workers, BeginCycle(w)
    PROVE  EventsInv'
<1>1. /\ scope = "events" /\ worker[w].at = "idle" /\ ~ cycle.busy /\ due <= now
      /\ due' = now + 1 /\ memory' = memory /\ disk' = disk
      /\ UNCHANGED <<scope, channels, now, starts, crashes, troubles, accepted>>
    BY DEF BeginCycle, Reads, EngineOnly
<1>2. PICK prices \in [Symbols -> 1 .. MaxPrice] :
        LET m == [s \in Symbols |-> Sampled(market[s], prices[s])]
            news == Moved(m)
            key == <<MovementSlot(now, news), 0>>
        IN /\ market' = m
           /\ calm' = [s \in Symbols |-> IF FallenBack(m[s]) THEN calm[s] \cup {now} ELSE calm[s]]
           /\ IF news = {} THEN UNCHANGED <<cycle, worker>>
              ELSE /\ cycle' = [busy |-> TRUE, since |-> now, key |-> key, todo |-> news]
                   /\ Becomes(w, [Idle EXCEPT !.at = "creating", !.key = key, !.since = now,
                                              !.priced = TRUE])
    BY DEF BeginCycle
<1> DEFINE m == [s \in Symbols |-> Sampled(market[s], prices[s])]
           news == Moved(m)
           key == MoveKey(now, news)
<1>3. /\ {crashes, troubles} \subseteq Nat /\ now \in 0 .. MaxTime /\ now \in Nat /\ due \in Nat
      /\ market \in [Symbols -> Sample] /\ worker \in [Workers -> Worker]
      /\ calm \in [Symbols -> SUBSET (0 .. MaxTime)] /\ MaxTime \in Nat
      /\ memory \in Document
    BY EventsTypes, ContentAssumption
<1>4. \A s \in Symbols : m[s] \in Sample /\ m[s].move \in Nat
    BY <1>3, SampledType
<1>5. market' = m
    BY <1>2
<1>6. \A s \in Symbols : calm'[s] = IF FallenBack(m[s]) THEN calm[s] \cup {now} ELSE calm[s]
    BY <1>2
<1>7. /\ news = {} => UNCHANGED <<cycle, worker>>
      /\ news # {} => /\ cycle' = [busy |-> TRUE, since |-> now, key |-> key, todo |-> news]
                      /\ Becomes(w, [Idle EXCEPT !.at = "creating", !.key = key, !.since = now,
                                                 !.priced = TRUE])
    BY <1>2 DEF MoveKey
<1>8. \A s \in news : /\ s \in Symbols /\ m[s].move >= Threshold
                      /\ memory.movements[s].known =>
                            /\ memory.movements[s].armed
                            /\ now - memory.movements[s].at >= Cooldown
    BY DEF Moved
<1>9. news \subseteq Symbols
    BY DEF Moved
<1>10. \A s \in Symbols : m[s].move >= Threshold => ~ FallenBack(m[s])
    BY <1>4, EventsAssumption DEF FallenBack
<1> HIDE DEF m, news, key
<1>11. \A s \in Symbols : ToldAt(s)' = ToldAt(s)
    BY <1>1 DEF ToldAt, Taken
<1>12. \A s \in Symbols : \A t \in ToldAt(s) \cup calm[s] : t < now
    <2>1. \A s \in Symbols : \A t \in ToldAt(s) \cup calm[s] : t < due /\ t \in Nat
        BY <1>3, ToldIsTime DEF EventsInv, CycleOK
    <2> QED BY <1>1, <1>3, <2>1
<1>13. \A s \in Symbols : calm[s] \subseteq calm'[s]
    BY <1>6
<1>14. \A s \in Symbols : \A u : LastTold(s, u)' <=> LastTold(s, u)
    BY <1>11 DEF LastTold
<1>15. \A s \in Symbols : Settled(s) => Settled(s)'
    BY <1>1, <1>13, <1>14 DEF Settled
<1>16. \A s \in Symbols : Owed(s)' => Owed(s)
    BY <1>1, <1>11, <1>15 DEF Owed, Coming
<1>17. \A s \in Symbols : Unexplained(s)' \subseteq Unexplained(s)
    BY <1>11, <1>13 DEF Unexplained
<1>18. EachExplained'
    BY <1>1, <1>3, <1>16, <1>17, ExplainedKept DEF EventsInv
<1>19. \A s \in Symbols : \A t \in ToldAt(s)' \cup calm'[s] : t < now + 1
    <2> SUFFICES ASSUME NEW s \in Symbols, NEW t \in ToldAt(s)' \cup calm'[s] PROVE t < now + 1
        OBVIOUS
    <2>1. t \in ToldAt(s) \cup calm[s] \/ t = now
        BY <1>6, <1>11
    <2>2. t \in ToldAt(s) \cup calm[s] => t < now /\ t \in Nat
        BY <1>3, <1>12, ToldIsTime
    <2> QED BY <1>3, <2>1, <2>2
<1>20. CASE news = {}
    <2>1. UNCHANGED <<cycle, worker>>
        BY <1>7, <1>20
    <2>2. EventsOnly'
        <3>1. EventsOnly
            BY DEF EventsInv
        <3> QED BY <1>1, <2>1, <3>1 DEF EventsOnly
    <2>3. CycleOK'
        BY <1>1, <1>3, <1>19, <2>1 DEF CycleOK
    <2> QED BY <1>1, <1>18, <2>1, <2>2, <2>3 DEF EventsInv, NewsOK, TodoOK
<1>21. CASE news # {}
    <2> DEFINE n == [Idle EXCEPT !.at = "creating", !.key = key, !.since = now, !.priced = TRUE]
    <2>1. /\ cycle' = [busy |-> TRUE, since |-> now, key |-> key, todo |-> news]
          /\ worker' = [worker EXCEPT ![w] = n]
        BY <1>7, <1>21 DEF Becomes
    <2>2. news \in Moves
        BY <1>9, <1>21 DEF Moves
    <2>3. key \in Key
        BY <1>3, <2>2, MoveKeyIsKey DEF key
    <2>4. n.todo = {} /\ n.key = key
        BY <1>3, <2>3, PricedShape
    <2> HIDE DEF n
    <2>5. EventsOnly'
        <3>1. EventsOnly
            BY DEF EventsInv
        <3>2. \A v \in Workers : worker'[v].todo = {} /\ (worker'[v] # Idle => worker'[v].key = key)
            BY <1>1, <1>3, <2>1, <2>4, <3>1 DEF EventsOnly
        <3> QED BY <1>1, <2>1, <3>1, <3>2 DEF EventsOnly
    <2>6. cycle'.busy /\ cycle'.since = now /\ cycle'.key = key /\ cycle'.todo = news
        BY <2>1
    <2>7. CycleOK'
        <3>1. \A s \in Symbols : FallenBack(m[s]) => now \in calm'[s]
            BY <1>6
        <3>2. \A s \in Symbols : now \notin ToldAt(s)'
            BY <1>3, <1>11, <1>12
        <3>3. key = MoveKey(now, news) /\ \A s \in news : m[s].move >= Threshold
            BY <1>8 DEF key
        <3> QED BY <1>1, <1>3, <1>5, <1>19, <2>2, <2>6, <3>1, <3>2, <3>3 DEF CycleOK
    <2>8. NewsOK'
        <3> SUFFICES ASSUME NEW s \in news, Settled(s)' PROVE IsNews(s)'
            BY <2>6 DEF NewsOK
        <3>1. s \in Symbols /\ m[s].move >= Threshold
            BY <1>8
        <3>2. calm'[s] = calm[s]
            BY <1>6, <1>10, <3>1
        <3> DEFINE event == memory.movements[s]
        <3>3. /\ event.known /\ LastTold(s, event.at)
              /\ event.armed => \E c \in calm[s] : event.at < c
            BY <1>1, <1>14, <3>1, <3>2 DEF Settled
        <3>4. event.armed /\ now - event.at >= Cooldown
            BY <1>8, <3>3
        <3>5. ASSUME NEW u \in ToldAt(s), LastTold(s, u)
              PROVE  now - u >= Cooldown /\ \E c \in calm[s] : u < c /\ c < now
            <4>1. u = event.at
                <5>1. u <= event.at /\ event.at <= u /\ u \in Nat /\ event.at \in Nat
                    BY <3>1, <3>3, <3>5, ToldIsTime DEF LastTold
                <5> QED BY <5>1
            <4> QED BY <1>12, <3>1, <3>3, <3>4, <4>1
        <3> QED BY <1>1, <1>11, <1>14, <3>1, <3>2, <3>5 DEF IsNews
    <2>9. TodoOK'
        BY <1>1, <2>2, <2>6 DEF TodoOK, key
    <2> QED BY <1>18, <2>5, <2>7, <2>8, <2>9 DEF EventsInv
<1> QED BY <1>20, <1>21

\* The job of the cycle is over, so nobody is at work.
LEMMA NobodyWorks ==
    ASSUME EventsInv, Returned
    PROVE  \A w \in Workers, d \in channels : ~ WillTell(worker[w], d)
BY DEF Returned, WillTell

\* The record of what was told: it settles the symbol.
LEMMA RecordEvents ==
    ASSUME EngineNow, EventsInv, NEW s \in Symbols, RecordMovement(s)
    PROVE  EventsInv'
<1> DEFINE event == [known |-> TRUE, at |-> cycle.since, armed |-> FALSE]
           m == [memory EXCEPT !.movements[s] = event]
<1>1. /\ Returned /\ Published /\ s \in cycle.todo /\ Save(m)
      /\ cycle' = [cycle EXCEPT !.todo = @ \ {s}]
      /\ UNCHANGED <<scope, channels, worker, now, starts, crashes, troubles, accepted>>
      /\ UNCHANGED <<market, due, calm>>
    BY DEF RecordMovement, EngineOnly
<1>2. /\ {crashes, troubles} \subseteq Nat /\ now \in 0 .. MaxTime /\ now \in Nat /\ cycle \in Cycle
      /\ memory \in Document /\ channels \subseteq Destinations
    BY EventsTypes
<1>3. event \in MovementEvent
    BY <1>2 DEF Cycle, MovementEvent
<1>4. event.known /\ event.at = cycle.since /\ ~ event.armed
    OBVIOUS
<1> HIDE DEF event
<1>5. /\ m.jobs = memory.jobs
      /\ \A x \in Symbols : m.movements[x] = IF x = s THEN event ELSE memory.movements[x]
    BY <1>2, <1>3, MovementSaved
<1> HIDE DEF m
<1>6. memory' = m /\ (disk' = m \/ disk' = disk)
    BY <1>1 DEF Save
<1>7. /\ cycle.busy /\ cycle'.busy /\ cycle'.key = cycle.key /\ cycle'.since = cycle.since
      /\ cycle'.todo = cycle.todo \ {s}
    BY <1>1, <1>2 DEF Returned, Cycle
<1>8. PICK S \in Moves : /\ cycle.key = MoveKey(now, S) /\ cycle.todo \subseteq S
                         /\ \A x \in S : market[x].move >= Threshold
    BY <1>7 DEF EventsInv, CycleOK
<1>9. cycle.since = now /\ \A x \in Symbols : \A t \in ToldAt(x) : t < now + 1
    BY <1>7 DEF EventsInv, CycleOK
<1>10. Published'
    BY <1>1, <1>5, <1>6, <1>7 DEF Published, JobIn
<1>11. \A x \in Symbols : ToldAt(x)' = ToldAt(x) /\ Unexplained(x)' = Unexplained(x)
    BY <1>1 DEF ToldAt, Taken, Unexplained
<1>12. \A x \in Symbols : \A u : LastTold(x, u)' <=> LastTold(x, u)
    BY <1>11 DEF LastTold
<1>13. \A x \in Symbols \ {s} : Settled(x)' <=> Settled(x)
    BY <1>1, <1>5, <1>6, <1>12 DEF Settled
\* What is published was taken: the record of s is that of its last message.
<1>14. LastTold(s, now)
    <2>1. cycle.key \in Key
        BY <1>2, <1>8, MoveKeyIsKey
    <2>2. PICK d \in Destinations : DeliveryIn(memory, cycle.key, d) = "SENT"
        BY <1>1, <2>1 DEF EngineNow, EngineInv, Truth, Published
    <2>3. Taken(cycle.key, d) > 0
        BY <2>1, <2>2 DEF EngineNow, EngineInv, Truth, Taken
    <2>4. now \in ToldAt(s)
        BY <1>1, <1>2, <1>8, <2>3, ToldIsTaken
    <2>5. \A v \in ToldAt(s) : v <= now
        BY <1>2, <1>9, ToldIsTime
    <2> QED BY <2>4, <2>5 DEF LastTold
<1>15. Settled(s)'
    BY <1>1, <1>4, <1>5, <1>6, <1>9, <1>12, <1>14 DEF Settled
<1>16. \A x \in Symbols : Owed(x)' => Owed(x)
    <2>1. \A x \in Symbols \ {s} : Coming(x) => Coming(x)'
        BY <1>1, <1>7, <1>10, <1>12 DEF Coming
    <2> QED BY <1>11, <1>13, <1>15, <2>1 DEF Owed
<1>17. EachExplained'
    BY <1>1, <1>2, <1>11, <1>16, ExplainedKept DEF EventsInv
<1>18. EventsOnly'
    <2>1. EventsOnly
        BY DEF EventsInv
    <2>2. scope = "events"
        BY <1>7, <2>1 DEF EventsOnly
    <2> QED BY <1>1, <1>7, <2>1, <2>2 DEF EventsOnly
<1>19. CycleOK'
    <2>1. CycleOK
        BY DEF EventsInv
    <2> QED BY <1>1, <1>7, <1>8, <1>11, <2>1 DEF CycleOK
<1>20. NewsOK'
    <2> SUFFICES ASSUME \A d \in channels : Taken(cycle.key, d) = 0, NEW x \in cycle.todo \ {s}
                 PROVE  ~ Settled(x)' \/ IsNews(x)'
        BY <1>1, <1>7 DEF NewsOK, Taken
    <2>1. x \in Symbols \ {s} /\ (~ Settled(x) \/ IsNews(x))
        BY <1>2, <1>7 DEF EventsInv, NewsOK, Cycle
    <2>2. IsNews(x) => IsNews(x)'
        BY <1>1, <1>11, <1>12, <2>1 DEF IsNews
    <2> QED BY <1>13, <2>1, <2>2
<1>21. TodoOK'
    BY <1>10 DEF TodoOK
<1> QED BY <1>17, <1>18, <1>19, <1>20, <1>21 DEF EventsInv

\* The symbols that have fallen back are armed again, and only they are.
LEMMA ReArmEvents ==
    ASSUME EngineNow, EventsInv, ReArm
    PROVE  EventsInv'
<1> DEFINE m == [memory EXCEPT !.movements = Rearmed(market)]
<1>1. /\ Returned /\ (Published => cycle.todo = {}) /\ Save(m) /\ cycle' = NoCycle
      /\ UNCHANGED <<scope, channels, worker, now, starts, crashes, troubles, accepted>>
      /\ UNCHANGED <<market, due, calm>>
    BY DEF ReArm, EngineOnly
<1>2. /\ {crashes, troubles} \subseteq Nat /\ now \in 0 .. MaxTime /\ now \in Nat
      /\ memory \in Document /\ channels \subseteq Destinations /\ market \in [Symbols -> Sample]
    BY EventsTypes
<1>3. /\ Rearmed(market) \in [Symbols -> MovementEvent]
      /\ \A s \in Symbols :
            /\ Rearmed(market)[s].known = memory.movements[s].known
            /\ Rearmed(market)[s].at = memory.movements[s].at
            /\ Rearmed(market)[s].armed <=> memory.movements[s].armed
                                       \/ (memory.movements[s].known /\ FallenBack(market[s]))
    BY <1>2, RearmedShape
<1>4. m.movements = Rearmed(market) /\ m.jobs = memory.jobs
    BY <1>2, <1>3, MovementsSaved
<1> HIDE DEF m
<1>5. memory' = m /\ (disk' = m \/ disk' = disk)
    BY <1>1 DEF Save
<1>6. ~ cycle'.busy /\ cycle.busy
    BY <1>1 DEF NoCycle, Returned
<1>7. \A s \in Symbols : ToldAt(s)' = ToldAt(s) /\ Unexplained(s)' = Unexplained(s)
    BY <1>1 DEF ToldAt, Taken, Unexplained
<1>8. \A s \in Symbols : \A u : LastTold(s, u)' <=> LastTold(s, u)
    BY <1>7 DEF LastTold
<1>9. ASSUME NEW s \in Symbols, Settled(s) PROVE Settled(s)'
    <2> DEFINE event == memory.movements[s]
    <2>1. /\ event.known /\ LastTold(s, event.at)
          /\ event.armed => \E c \in calm[s] : event.at < c
        BY <1>9 DEF Settled
    <2>2. ASSUME FallenBack(market[s]) PROVE \E c \in calm[s] : event.at < c
        <3>1. now \in calm[s]
            BY <1>6, <2>2 DEF EventsInv, CycleOK
        <3>2. ~ market[s].move >= Threshold
            <4>1. market[s].move \in Nat
                BY <1>2, ContentAssumption DEF Sample
            <4> QED BY <2>2, <4>1, EventsAssumption DEF FallenBack
        <3>3. now \notin ToldAt(s)
            BY <1>6, <3>2 DEF EventsInv, CycleOK
        <3>4. event.at \in ToldAt(s) /\ event.at < now + 1 /\ event.at \in Nat
            BY <1>6, <2>1, ToldIsTime DEF LastTold, EventsInv, CycleOK
        <3> QED BY <1>2, <3>1, <3>3, <3>4
    <2>3. /\ memory'.movements[s].known /\ memory'.movements[s].at = event.at
          /\ memory'.movements[s].armed => event.armed \/ FallenBack(market[s])
        BY <1>3, <1>4, <1>5, <2>1
    <2> QED BY <1>1, <1>8, <2>1, <2>2, <2>3 DEF Settled
<1>10. \A s \in Symbols : ~ Coming(s)
    BY <1>1, NobodyWorks DEF Coming
<1>11. \A s \in Symbols : Owed(s)' => Owed(s)
    BY <1>7, <1>9, <1>10 DEF Owed
<1>12. EachExplained'
    BY <1>1, <1>2, <1>7, <1>11, ExplainedKept DEF EventsInv
<1>13. EventsOnly'
    <2>1. EventsOnly
        BY DEF EventsInv
    <2>2. scope = "events"
        BY <1>6, <2>1 DEF EventsOnly
    <2>3. \A w \in Workers : worker[w] = Idle
        BY <1>1, <2>1, <2>2 DEF EventsOnly, Returned
    <2> QED BY <1>1, <2>1, <2>2, <2>3, IdleShape DEF EventsOnly
<1>14. CycleOK'
    BY <1>1, <1>6, <1>7 DEF EventsInv, CycleOK
<1> QED BY <1>6, <1>12, <1>13, <1>14 DEF EventsInv, NewsOK, TodoOK

-----------------------------------------------------------------------------
(* The movements, always *)

ChannelInv == EngineNow /\ EventsInv

LEMMA EventsKeep ==
    ASSUME EngineNow, EventsInv, [Next]_vars
    PROVE  EventsInv'
<1>1. CASE UNCHANGED vars
    <2>1. /\ UNCHANGED <<scope, channels, worker, starts, crashes, troubles, accepted, now>>
          /\ UNCHANGED <<market, cycle, due, calm>> /\ UNCHANGED <<memory, disk>>
        BY <1>1 DEF vars, contentVars, engineVars, eventVars
    <2> QED BY <2>1, AsideEvents
<1>2. CASE EngineNext /\ UNCHANGED eventVars
    <2>1. ASSUME NEW w \in Workers, Step(w) PROVE EventsInv'
        BY <1>2, <2>1, StepEvents, CallEvents DEF Call_
    <2> QED BY <1>2, <2>1, AdministerEvents, StartsEvents, SwitchEvents, RecoverEvents DEF EngineNext
<1>3. CASE ~ cycle.busy /\ Tick /\ UNCHANGED <<engineVars, eventVars>>
    BY <1>3, TickEvents
<1>4. CASE Crash /\ cycle' = NoCycle /\ UNCHANGED <<market, due, calm>>
    BY <1>4, CrashEvents
<1> QED BY <1>1, <1>2, <1>3, <1>4, BeginEvents, RecordEvents, ReArmEvents DEF Next

LEMMA EventsAtFirst ==
    ASSUME Init
    PROVE  EventsInv
<1>1. /\ memory = NoDocument /\ disk = NoDocument /\ scope \in {"content", "prices", "events"}
      /\ now = (IF scope = "events" THEN 0 ELSE 1)
      /\ channels \in (IF scope = "events" THEN {{d} : d \in Destinations} ELSE {Destinations})
      /\ worker = [w \in Workers |-> Idle]
      /\ starts = (IF scope = "events" THEN MaxStarts ELSE 0)
      /\ crashes = 0 /\ troubles = 0 /\ accepted = NoMap
      /\ cycle = NoCycle /\ due = 0 /\ calm = [s \in Symbols |-> {}]
    BY DEF Init, EngineInit, ContentInit
<1>2. \A x : At(accepted, x, 0) = 0
    BY <1>1, NoMapIsMap
<1>3. \A s \in Symbols : ToldAt(s) = {}
    <2>1. \A j, x : ~ Taken(j, x) > 0
        BY <1>2 DEF Taken
    <2> QED BY <2>1 DEF ToldAt
<1>4. ~ cycle.busy
    BY <1>1 DEF NoCycle
<1>5. EventsOnly
    <2>1. \A w \in Workers : worker[w] = Idle
        BY <1>1
    <2> QED BY <1>1, <1>2, <1>4, <2>1, IdleShape, OtherKeys, NoDocumentShape DEF EventsOnly, Taken
<1>6. CycleOK
    BY <1>1, <1>3, <1>4 DEF CycleOK
<1>7. EachExplained
    <2> SUFFICES ASSUME NEW s \in Symbols
                 PROVE  Cardinality(Unexplained(s)) + One(Owed(s)) <= crashes + troubles
        BY DEF EachExplained
    <2>1. Unexplained(s) = {} /\ ~ Owed(s)
        BY <1>3 DEF Unexplained, Owed
    <2> QED BY <1>1, <2>1, FS_EmptySet DEF One
<1> QED BY <1>4, <1>5, <1>6, <1>7 DEF EventsInv, NewsOK, TodoOK

LEMMA ChannelAlways == Spec => []ChannelInv
<1>1. Init => ChannelInv
    BY EngineNowAtFirst, EventsAtFirst DEF ChannelInv
<1>2. ChannelInv /\ [Next]_vars => ChannelInv'
    BY EngineNowKeeps, EventsKeep DEF ChannelInv
<1> QED BY <1>1, <1>2, PTL DEF Spec

(* A movement of a symbol is told again only when the cooldown has passed    *)
(* and the symbol fell back since, but for as many times as the process died *)
(* or an answer did not come: whatever was told is on record, or on its way  *)
(* to its record, or is owed one by such an accident                         *)
(* (selectMovementCandidates, recordMovementEvent, updateMovementReArm).     *)
THEOREM MovementsAreAlwaysNews == Spec => []MovementsAreNews
<1>1. ChannelInv => MovementsAreNews
    <2> SUFFICES ASSUME ChannelInv, NEW s \in Symbols
                 PROVE  Cardinality(Unexplained(s)) <= crashes + troubles
        BY DEF MovementsAreNews, Unexplained
    <2>1. Cardinality(Unexplained(s)) + One(Owed(s)) <= crashes + troubles
        BY DEF ChannelInv, EventsInv, EachExplained
    <2>2. Cardinality(Unexplained(s)) \in Nat /\ One(Owed(s)) \in {0, 1}
        BY ToldIsTime DEF One
    <2>3. crashes + troubles \in Nat
        BY EventsTypes DEF ChannelInv
    <2> QED BY <2>1, <2>2, <2>3
<1> QED BY <1>1, ChannelAlways, PTL
=============================================================================
