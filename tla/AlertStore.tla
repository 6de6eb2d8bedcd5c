----------------------------- MODULE AlertStore -----------------------------
(***************************************************************************)
(* The alert document and the transactions AlertService runs over it.      *)
(*                                                                         *)
(* alerts and deliveries are the in-memory maps, disk is the file.  Every  *)
(* change is a request in chain; its head is first applied to the maps in  *)
(* one synchronous step that re-checks the request (Applied, Refused), and *)
(* then written (Written): DocumentStore models that machinery in detail.  *)
(***************************************************************************)
EXTENDS AlertEvaluator, Sequences, FiniteSets

CONSTANTS
    AlertIds,           \* ids nextId('alr') may draw
    Users,
    Symbols,
    Types,              \* the alert types in use
    PriceTargets,       \* targets of the price types
    PercentTargets,     \* targets of the percentage types
    MaxWriteFailures    \* bound on the file writes that fail

ASSUME AlertStoreAssumption ==
    /\ Types \subseteq AlertTypes
    /\ PriceTargets \subseteq Nat \ {0}
    /\ PercentTargets \subseteq Nat \ {0}
    /\ MaxWriteFailures \in Nat

VARIABLES
    alerts,         \* the alert map
    deliveries,     \* the delivery map, keyed by alert
    disk,           \* the document in the file
    chain,          \* requests queued by transact(), the head is running
    link,           \* "idle" | "writing": progress of the head
    drawn,          \* ids drawn so far: a random id never comes back
    writeFailures   \* writes that failed so far

storeVars == <<alerts, deliveries, disk, chain, link, drawn, writeFailures>>

Targets(type) == IF type \in PriceTypes THEN PriceTargets ELSE PercentTargets

\* What isSameTarget compares; the direction is a function of the type.
Condition == [symbol : Symbols, type : Types, target : PriceTargets \cup PercentTargets]

AlertStatus == {"ACTIVE", "DISABLED", "TRIGGERED", "DELETED"}
NoAlert == [status |-> "NONE"]
Alert == [status : AlertStatus, owner : Users, condition : Condition, baseline : Nat]

SkippedReason == {"ALERT_DELETED", "ALERT_DISABLED", "DELIVERY_OUTCOME_UNKNOWN", "null"}
NoDelivery == [status |-> "NONE"]
\* error is "lastError is not null".
Delivery == [status : {"PENDING", "SENT", "FAILED"}, price : Nat, attempts : Nat,
             error : BOOLEAN, skipped : SkippedReason]

Document == [alerts : [AlertIds -> Alert \cup {NoAlert}],
             deliveries : [AlertIds -> Delivery \cup {NoDelivery}]]
Snapshot == [alerts |-> alerts, deliveries |-> deliveries]

\* A request carries what its caller computed before it queued the link.
CreateRequest == [kind : {"create"}, user : Users, condition : Condition,
                  baseline : Nat, limit : Nat]
EditRequest == [kind : {"edit"}, user : Users, alert : AlertIds,
                target : PriceTargets \cup PercentTargets, baseline : Nat]
EnableRequest == [kind : {"enable"}, user : Users, alert : AlertIds, baseline : Nat]
OwnerRequest == [kind : {"disable", "remove"}, user : Users, alert : AlertIds]
ReserveRequest == [kind : {"reserve"}, alert : AlertIds, price : Nat]
AttemptRequest == [kind : {"begin", "sent", "failure"}, alert : AlertIds]
\* by tells the delivery loop from the recovery after a restart.
CloseRequest == [kind : {"close"}, alert : AlertIds, skipped : SkippedReason,
                 error : BOOLEAN, by : {"loop", "recovery"}]
Request == CreateRequest \cup EditRequest \cup EnableRequest \cup OwnerRequest
             \cup ReserveRequest \cup AttemptRequest \cup CloseRequest

StoreTypeOK ==
    /\ alerts \in [AlertIds -> Alert \cup {NoAlert}]
    /\ deliveries \in [AlertIds -> Delivery \cup {NoDelivery}]
    /\ disk \in Document
    /\ chain \in Seq(Request)
    /\ link \in {"idle", "writing"}
    /\ drawn \subseteq AlertIds
    /\ writeFailures \in 0..MaxWriteFailures

StoreInit ==
    /\ alerts = [a \in AlertIds |-> NoAlert]
    /\ deliveries = [a \in AlertIds |-> NoDelivery]
    /\ disk = Snapshot
    /\ chain = <<>>
    /\ link = "idle"
    /\ drawn = {}
    /\ writeFailures = 0

-----------------------------------------------------------------------------
\* Reads of the maps.

CapacityStatuses == {"ACTIVE", "DISABLED"}
Counted(u) == {a \in AlertIds : alerts[a].status \in CapacityStatuses
                                  /\ alerts[a].owner = u}
SameTarget(u, condition) == {a \in Counted(u) : alerts[a].condition = condition}
ListActiveBySymbol(s) == {a \in AlertIds : alerts[a].status = "ACTIVE"
                                            /\ alerts[a].condition.symbol = s}
Owns(u, a) == alerts[a].status \in AlertStatus /\ alerts[a].owner = u
Retarget(condition, target) == [condition EXCEPT !.target = target]

\* transact(): the link is queued in the caller's own step.
Enqueue(r) == chain' = Append(chain, r)

-----------------------------------------------------------------------------
\* The synchronous operation of each request: the condition under which it
\* changes the document, and the change.

SetStatus(a, status) == alerts' = [alerts EXCEPT ![a].status = status]

\* Mutant: the limit is passed by one.
MayCreateOffByOne(r) ==
    /\ r.kind = "create"
    /\ Cardinality(Counted(r.user)) <= r.limit
    /\ SameTarget(r.user, r.condition) = {}

\* Mutant: the condition is not compared with those of the other alerts.
MayCreateDuplicate(r) ==
    /\ r.kind = "create"
    /\ Cardinality(Counted(r.user)) < r.limit

MayCreate(r) ==
    /\ r.kind = "create"
    /\ Cardinality(Counted(r.user)) < r.limit
    /\ SameTarget(r.user, r.condition) = {}

Create(r) ==
    /\ MayCreate(r)
    /\ \E a \in AlertIds :
        /\ a \notin drawn
        /\ drawn' = drawn \cup {a}
        /\ alerts' = [alerts EXCEPT ![a] =
                        [status |-> "ACTIVE", owner |-> r.user,
                         condition |-> r.condition, baseline |-> r.baseline]]
    /\ UNCHANGED deliveries

MayEnable(r) ==
    /\ r.kind = "enable"
    /\ Owns(r.user, r.alert)
    /\ alerts[r.alert].status = "DISABLED"

Enable(r) ==
    /\ MayEnable(r)
    /\ alerts' = [alerts EXCEPT ![r.alert] =
                    [@ EXCEPT !.status = "ACTIVE", !.baseline = r.baseline]]
    /\ UNCHANGED <<deliveries, drawn>>

\* Mutant: the transaction trusts the status its caller saw.
MayDisableUnchecked(r) ==
    /\ r.kind = "disable"
    /\ Owns(r.user, r.alert)

MayDisable(r) ==
    /\ r.kind = "disable"
    /\ Owns(r.user, r.alert)
    /\ alerts[r.alert].status = "ACTIVE"

Disable(r) ==
    /\ MayDisable(r)
    /\ SetStatus(r.alert, "DISABLED")
    /\ UNCHANGED <<deliveries, drawn>>

MayEdit(r) ==
    /\ r.kind = "edit"
    /\ Owns(r.user, r.alert)
    /\ alerts[r.alert].status \notin {"DELETED", "TRIGGERED"}
    /\ SameTarget(r.user, Retarget(alerts[r.alert].condition, r.target)) \ {r.alert} = {}

Edit(r) ==
    /\ MayEdit(r)
    /\ alerts' = [alerts EXCEPT ![r.alert] =
                    [@ EXCEPT !.condition = Retarget(alerts[r.alert].condition, r.target),
                              !.baseline = r.baseline]]
    /\ UNCHANGED <<deliveries, drawn>>

MayRemove(r) ==
    /\ r.kind = "remove"
    /\ Owns(r.user, r.alert)
    /\ alerts[r.alert].status # "DELETED"

Remove(r) ==
    /\ MayRemove(r)
    /\ SetStatus(r.alert, "DELETED")
    /\ UNCHANGED <<deliveries, drawn>>

MayReserve(r) ==
    /\ r.kind = "reserve"
    /\ alerts[r.alert].status = "ACTIVE"
    /\ deliveries[r.alert] = NoDelivery

\* Mutant: the delivery record is left to a later transaction.
ReserveWithoutRecord(r) ==
    /\ MayReserve(r)
    /\ SetStatus(r.alert, "TRIGGERED")
    /\ UNCHANGED <<deliveries, drawn>>

\* The trigger and its delivery record appear in one step.
ReserveTrigger(r) ==
    /\ MayReserve(r)
    /\ SetStatus(r.alert, "TRIGGERED")
    /\ deliveries' = [deliveries EXCEPT ![r.alert] =
                        [status |-> "PENDING", price |-> r.price, attempts |-> 0,
                         error |-> FALSE, skipped |-> "null"]]
    /\ UNCHANGED drawn

MayBegin(r) ==
    /\ r.kind = "begin"
    /\ deliveries[r.alert].status = "PENDING"

\* lastError of an earlier attempt stays.
BeginAttempt(r) ==
    /\ MayBegin(r)
    /\ deliveries' = [deliveries EXCEPT ![r.alert].attempts = @ + 1]
    /\ UNCHANGED <<alerts, drawn>>

\* The outcomes below test only that the record exists, not its status.
MaySettle(r, kind) == r.kind = kind /\ deliveries[r.alert] # NoDelivery

MarkSent(r) ==
    /\ MaySettle(r, "sent")
    /\ deliveries' = [deliveries EXCEPT ![r.alert] =
                        [@ EXCEPT !.status = "SENT", !.error = FALSE]]
    /\ UNCHANGED <<alerts, drawn>>

RecordFailure(r) ==
    /\ MaySettle(r, "failure")
    /\ deliveries' = [deliveries EXCEPT ![r.alert].error = TRUE]
    /\ UNCHANGED <<alerts, drawn>>

MarkUndeliverable(r) ==
    /\ MaySettle(r, "close")
    /\ deliveries' = [deliveries EXCEPT ![r.alert] =
                        [@ EXCEPT !.status = "FAILED", !.error = r.error,
                                  !.skipped = r.skipped]]
    /\ UNCHANGED <<alerts, drawn>>

Accepts(r) ==
    \/ MayCreate(r) \/ MayEnable(r) \/ MayDisable(r) \/ MayEdit(r) \/ MayRemove(r)
    \/ MayReserve(r) \/ MayBegin(r)
    \/ \E kind \in {"sent", "failure", "close"} : MaySettle(r, kind)

Operate(r) ==
    \/ Create(r) \/ Enable(r) \/ Disable(r) \/ Edit(r) \/ Remove(r)
    \/ ReserveTrigger(r) \/ BeginAttempt(r)
    \/ MarkSent(r) \/ RecordFailure(r) \/ MarkUndeliverable(r)

-----------------------------------------------------------------------------
\* One link of the chain.

LinkIsDue == chain # <<>> /\ link = "idle"

\* The operation changed the document: the head goes on to write it.
Applied ==
    /\ LinkIsDue
    /\ Operate(Head(chain))
    /\ link' = "writing"
    /\ UNCHANGED <<disk, chain, writeFailures>>

\* The operation changed nothing: no write, the next link becomes due.
Refused ==
    /\ LinkIsDue
    /\ ~Accepts(Head(chain))
    /\ chain' = Tail(chain)
    /\ UNCHANGED <<alerts, deliveries, disk, link, drawn, writeFailures>>

\* Mutant: only the delivery part of a later change is written.
WrittenWithoutAlerts ==
    /\ link = "writing"
    /\ chain' = Tail(chain)
    /\ link' = "idle"
    /\ disk' = IF Head(chain).kind = "create" THEN Snapshot
               ELSE [disk EXCEPT !.deliveries = deliveries]
    /\ UNCHANGED <<alerts, deliveries, drawn, writeFailures>>

\* The whole document replaces the file, or the failure is swallowed.
Written ==
    /\ link = "writing"
    /\ chain' = Tail(chain)
    /\ link' = "idle"
    /\ \/ disk' = Snapshot /\ UNCHANGED writeFailures
       \/ /\ writeFailures < MaxWriteFailures
          /\ writeFailures' = writeFailures + 1
          /\ UNCHANGED disk
    /\ UNCHANGED <<alerts, deliveries, drawn>>
=============================================================================
