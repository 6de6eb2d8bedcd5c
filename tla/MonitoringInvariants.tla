------------------------ MODULE MonitoringInvariants ------------------------
(***************************************************************************)
(* Why monitoring keeps what it promises.  A report goes from one document *)
(* to the other and waits in the chain of each, so the invariants say in   *)
(* which order reports wait and what each of them may still rely on.       *)
(***************************************************************************)
EXTENDS MonitoringDispatch

-----------------------------------------------------------------------------
(* Who waits where *)

OpsOf(c) ==
    CASE c = Dispatcher -> {"idle", "prune", "send", "result"}
      [] c = Human -> {"idle", "decide"}
      [] OTHER -> {"idle", "count", "record", "link", "tell", "note", "resolve"}

\* The document whose chain a caller stands in.
Place(s) ==
    CASE s.op \in {"count", "link", "tell", "note", "prune", "result"} -> "monitoring"
      [] s.op \in {"record", "resolve", "decide"} -> "admin"
      [] OTHER -> "none"

Stands(s, b) == \E i \in 1 .. Len(s) : s[i] = b
InOrder(s, b, c) == \E i, k \in 1 .. Len(s) : i < k /\ s[i] = b /\ s[k] = c
NoTwice(s) == \A i, k \in 1 .. Len(s) : s[i] = s[k] => i = k

Precedes(d, b, c) == InOrder(chain[d], b, c)

Queueing ==
    /\ chain = [d \in Documents |-> chain[d]]
    /\ \A d \in Documents :
        /\ chain[d] \in Seq(Callers) /\ NoTwice(chain[d])
        /\ \A c \in Callers : Place(at[c]) = d <=> Stands(chain[d], c)

-----------------------------------------------------------------------------
(* Types, and the rows that are named *)

Notice == [kind : {"INCIDENT", "RECOVERY"}, incident : Nat, generation : Nat, bucket : Nat,
           created : Nat, status : NotificationStatus, attempts : Nat, later : BOOLEAN,
           arrived : Nat]

Names(i, k) == i \in DOMAIN incidents /\ incidents[i].key = k

StateOK(s) ==
    /\ s.op \in {"count", "record", "link", "tell", "note", "resolve"} =>
        s.key \in Keys /\ s.time \in Nat \ {0} /\ s.time <= now
    /\ s.op \in {"record", "link", "tell", "resolve"} => watch[s.key] \in Watch
    /\ s.op \in {"note", "resolve", "tell"} => s.left \subseteq Keys
    /\ s.op \in {"record", "link"} => s.generation \in Nat /\ s.notified \in Nat
    /\ s.op = "link" =>
        Names(s.incident, s.key) /\ incidents[s.incident].generation = s.generation
    /\ s.op = "resolve" => Names(s.incident, s.key) /\ s.generation \in Nat
    /\ s.op = "tell" =>
        /\ s.notified \in Nat
        /\ s.what \in Notice /\ s.what.created = s.time
        /\ s.what.status = "PENDING" /\ s.what.attempts = 0 /\ s.what.arrived = 0
        /\ Names(s.what.incident, s.key)
    /\ s.op = "decide" => s.incident \in DOMAIN incidents /\ s.status \in IncidentStatus

CallersTyped ==
    /\ at = [c \in Callers |-> at[c]]
    /\ \A c \in Callers :
        /\ at[c].op \in OpsOf(c) /\ StateOK(at[c])
        /\ at[c].op = "idle" => at[c] = Idle
    /\ Queueing

WatchOK(k) ==
    /\ watch[k] = NoWatch \/ watch[k] \in Watch
    /\ watch[k].incident # 0 =>
        /\ Names(watch[k].incident, k)
        /\ incidents[watch[k].incident].generation = watch[k].generation
    /\ watch[k].incident = 0 => watch[k].generation = 0

WatchesTyped == watch = [k \in Keys |-> watch[k]] /\ \A k \in Keys : WatchOK(k)

RowsTyped ==
    /\ incidents \in Seq(Incident)
    /\ outbox \in Seq(Notice)
    /\ \A n \in DOMAIN outbox : outbox[n].incident \in DOMAIN incidents

RestTyped ==
    /\ failing \in BOOLEAN /\ events \in Seq({"failure", "success"})
    /\ now \in Nat \ {0} /\ observations \in Nat
    /\ faults \in [Kinds -> Nat]

TypeInv == CallersTyped /\ WatchesTyped /\ RowsTyped /\ RestTyped

-----------------------------------------------------------------------------
(* The dispatcher *)

Waiting == {"PENDING", "RETRY_PENDING"}
Hidden == faults["crash"] + faults["write"] + faults["lost"]

\* What may have arrived without a row that says so.
RowOK(n) ==
    LET row == outbox[n] IN
    /\ row.attempts <= MaxAttempts
    /\ row.status \in Waiting => row.attempts < MaxAttempts
    /\ row.status = "SENT" => row.arrived > 0
    /\ row.arrived <= 1 + Hidden
    /\ row.status \in Waiting /\ ~ (at[Dispatcher].op = "result" /\ at[Dispatcher].n = n) =>
        row.arrived <= Hidden

Sending(left) ==
    /\ left = [n \in DOMAIN left |-> left[n]]
    /\ DOMAIN left \subseteq DOMAIN outbox
    /\ \A n \in DOMAIN left : outbox[n].status \in Waiting /\ left[n] = outbox[n].attempts

DispatchOK(s) ==
    /\ s.op = "send" => Sending(s.left)
    /\ s.op = "result" =>
        /\ DOMAIN s = {"op", "n", "tried", "limited", "again", "outcome", "left"}
        /\ Sending(s.left)
        /\ s.n \in DOMAIN outbox \ DOMAIN s.left /\ outbox[s.n].status \in Waiting
        /\ s.tried = outbox[s.n].attempts
        /\ s.limited \in BOOLEAN /\ s.again \in BOOLEAN
        /\ s.outcome.status \in {"SENT", "FAILED", "RETRY_PENDING", "UNKNOWN"}
        /\ s.outcome.attempts \in 0 .. MaxAttempts
        /\ s.outcome.status = "RETRY_PENDING" => s.outcome.attempts < MaxAttempts
        /\ s.outcome.status = "SENT" => outbox[s.n].arrived > 0
        /\ s.outcome.status # "SENT" => outbox[s.n].arrived <= Hidden

DispatchInv == (\A n \in DOMAIN outbox : RowOK(n)) /\ DispatchOK(at[Dispatcher])

-----------------------------------------------------------------------------
(* The order of failures: they are told in the order in which they came *)

Stage(s) ==
    CASE s.op = "count" -> 1
      [] s.op = "record" -> 2
      [] s.op = "link" -> 3
      [] s.op = "tell" /\ s.what.kind = "INCIDENT" -> 4
      [] OTHER -> 0

Failing == {c \in Callers : Stage(at[c]) > 0}

Ahead(b, c) ==
    \/ Stage(at[b]) > Stage(at[c])
    \/ Stage(at[b]) = Stage(at[c]) /\ Precedes(Place(at[c]), b, c)

Ordered == \A b, c \in Failing : Ahead(b, c) => at[b].time <= at[c].time

RowsBefore == \A n \in DOMAIN outbox :
    /\ outbox[n].created <= now
    /\ outbox[n].kind = "INCIDENT" => \A c \in Failing : outbox[n].created <= at[c].time

\* An incident is first seen before whoever finds it.
FirstsBefore ==
    /\ \A i \in DOMAIN incidents :
        /\ incidents[i].first <= now
        /\ \A c \in Failing : Stage(at[c]) <= 2 => incidents[i].first <= at[c].time
    /\ \A c \in Failing :
        /\ Stage(at[c]) = 3 => incidents[at[c].incident].first <= at[c].time
        /\ Stage(at[c]) = 4 => incidents[at[c].what.incident].first <= at[c].time

\* A row belongs to the period in which it was asked for.
Periods ==
    /\ \A n \in DOMAIN outbox : outbox[n].kind = "INCIDENT" =>
        LET first == incidents[outbox[n].incident].first IN
        /\ first <= outbox[n].created /\ 0 < outbox[n].created
        /\ outbox[n].bucket = Bucket(first, outbox[n].created)
    /\ \A c \in Callers : at[c].op = "tell" /\ at[c].what.kind = "INCIDENT" =>
        /\ at[c].what.bucket = Bucket(incidents[at[c].what.incident].first, at[c].time)
        /\ MayNotify(at[c].notified, at[c].time)

\* The last notice that the watch of a condition knows of is not the last there was.
Back(k) ==
    \E n \in DOMAIN outbox :
        /\ outbox[n].kind = "INCIDENT" /\ incidents[outbox[n].incident].key = k
        /\ outbox[n].created > watch[k].notified

LiveOnce ==
    \A m, n \in DOMAIN outbox :
        m # n /\ SameKey(outbox[m], outbox[n]) => "GONE" \in {outbox[m].status, outbox[n].status}

AgainIsPaid ==
    Cardinality(Again) + Cardinality({k \in Keys : Back(k)}) <= faults["overlap"]

ToldInv == Ordered /\ RowsBefore /\ FirstsBefore /\ Periods /\ LiveOnce /\ AgainIsPaid

-----------------------------------------------------------------------------
(* Episodes *)

Free(k, g) == Found(incidents, k, g) = {}

\* Episodes of a condition have numbers of their own, without gaps.
Numbered ==
    /\ \A i, j \in DOMAIN incidents :
        incidents[i].key = incidents[j].key /\ incidents[i].generation = incidents[j].generation
            => i = j
    /\ \A i \in DOMAIN incidents : \A g \in 0 .. incidents[i].generation - 1 :
        ~ Free(incidents[i].key, g)
    /\ \A c \in Callers : at[c].op = "record" =>
        \A g \in 0 .. at[c].generation - 1 : ~ Free(at[c].key, g)

Open(k) == OpenOf(incidents, k)

Reopened == faults["reopen"]
Lossless == faults["write"] = 0 /\ faults["crash"] = 0

\* Whatever is open beside the last episode was reopened, and a new one begins
\* when no other is open, but for those.
LastIsOpen ==
    /\ \A k \in Keys : Cardinality(Open(k)) <= Reopened + 1
    /\ \A i \in DOMAIN incidents :
        LET k == incidents[i].key IN
        Free(k, incidents[i].generation + 1) => Cardinality(Open(k) \ {i}) <= Reopened
    /\ \A c \in Callers :
        at[c].op = "record" /\ Free(at[c].key, at[c].generation) =>
            Cardinality(Open(at[c].key)) <= Reopened

IsLinking(c, k) == at[c].op = "link" /\ at[c].key = k

LastLinking(c, k) ==
    IsLinking(c, k)
    /\ \A b \in Callers : IsLinking(b, k) => ~ Precedes("monitoring", c, b)

\* The incident that the watch knows, or will, is the one that matters.
LinkedIsOpen ==
    Lossless => \A k \in Keys :
        /\ \A c \in Callers : LastLinking(c, k) =>
            Cardinality(Open(k) \ {at[c].incident}) <= Reopened
        /\ (\A c \in Callers : ~ IsLinking(c, k)) =>
            Cardinality(Open(k) \ {watch[k].incident}) <= Reopened

\* What a recovery leaves open is about to be resolved.
WellIsClosed ==
    Lossless => \A k \in Keys :
        \/ watch[k].phase \notin {"HEALTHY", "RECOVERED"}
        \/ \E c \in Callers : at[c].op \in {"record", "link"} /\ at[c].key = k
        \/ Cardinality(Open(k)) <= Reopened
        \/ /\ Cardinality(Open(k) \ {watch[k].incident}) <= Reopened
           /\ \E c \in Callers : at[c].op = "resolve" /\ at[c].incident = watch[k].incident

EpisodeInv == Numbered /\ LastIsOpen /\ LinkedIsOpen /\ WellIsClosed

IInv == TypeInv /\ DispatchInv /\ ToldInv /\ EpisodeInv
=============================================================================
