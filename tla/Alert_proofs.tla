---------------------------- MODULE Alert_proofs ----------------------------
(***************************************************************************)
(* Theorems about the alert subsystem, for any sets of alerts, users and   *)
(* symbols and any number of crashes, failed writes and lost answers.      *)
(*                                                                         *)
(* First what a transaction preserves, a lemma each: every other step      *)
(* leaves the document alone, or copies one half of it over the other.     *)
(* Then three inductive invariants, each on top of the last: TypeInv, the  *)
(* types; StoreInv, that both documents are safe and the file is behind;   *)
(* DeliveryInv, that a delivery is in one hand at a time.  FollowingInv    *)
(* adds what the promise needs while writes succeed.                       *)
(***************************************************************************)
EXTENDS AlertProperties, FiniteSetTheorems, TLAPS

-----------------------------------------------------------------------------
(* The types of a transaction *)

AlertMap == [AlertIds -> Alert \cup {NoAlert}]
DeliveryMap == [AlertIds -> Delivery \cup {NoDelivery}]
MapsAreTyped == alerts \in AlertMap /\ deliveries \in DeliveryMap /\ drawn \subseteq AlertIds

\* A request has the fields of its kind.
LEMMA RequestKinds ==
  ASSUME NEW r \in Request
  PROVE  /\ r.kind = "create" => r \in CreateRequest
         /\ r.kind = "edit" => r \in EditRequest
         /\ r.kind = "enable" => r \in EnableRequest
         /\ r.kind \in {"disable", "remove"} => r \in OwnerRequest
         /\ r.kind = "reserve" => r \in ReserveRequest
         /\ r.kind \in {"begin", "sent", "failure"} => r \in AttemptRequest
         /\ r.kind = "close" => r \in CloseRequest
  BY DEF Request, CreateRequest, EditRequest, EnableRequest, OwnerRequest, ReserveRequest,
         AttemptRequest, CloseRequest

\* Every request but a create names an alert.
LEMMA RequestAlert ==
  ASSUME NEW r \in Request, r.kind # "create"
  PROVE  r.alert \in AlertIds
  BY DEF Request, CreateRequest, EditRequest, EnableRequest, OwnerRequest, ReserveRequest,
         AttemptRequest, CloseRequest

\* Every transaction keeps the maps well typed.
LEMMA OperateTypes ==
  ASSUME MapsAreTyped, NEW r \in Request, Operate(r)
  PROVE  MapsAreTyped'
<1> USE DEF MapsAreTyped, AlertMap, DeliveryMap
<1>1. CASE Create(r)
  <2>1. r \in CreateRequest
    BY <1>1, RequestKinds DEF Create, MayCreate
  <2>2. [status |-> "ACTIVE", owner |-> r.user, condition |-> r.condition,
         baseline |-> r.baseline] \in Alert
    BY <2>1 DEF CreateRequest, Alert, AlertStatus
  <2> QED
    BY <1>1, <2>2 DEF Create
<1>2. CASE Enable(r)
  <2>1. r \in EnableRequest /\ r.alert \in AlertIds /\ alerts[r.alert] \in Alert
    BY <1>2, RequestKinds, RequestAlert DEF Enable, MayEnable, NoAlert
  <2> QED
    BY <1>2, <2>1 DEF Enable, EnableRequest, Alert, AlertStatus
<1>3. CASE Disable(r)
  <2>1. r.alert \in AlertIds /\ alerts[r.alert] \in Alert
    BY <1>3, RequestAlert DEF Disable, MayDisable, NoAlert
  <2> QED
    BY <1>3, <2>1 DEF Disable, SetStatus, Alert, AlertStatus
<1>4. CASE Edit(r)
  <2>1. r \in EditRequest /\ r.alert \in AlertIds /\ alerts[r.alert] \in Alert
    BY <1>4, RequestKinds, RequestAlert DEF Edit, MayEdit, Owns, AlertStatus, NoAlert
  <2>2. alerts[r.alert].condition \in Condition /\ r.target \in PriceTargets \cup PercentTargets
    BY <2>1 DEF Alert, EditRequest
  <2>3. ASSUME NEW c \in Condition, NEW t \in PriceTargets \cup PercentTargets
        PROVE  Retarget(c, t) \in Condition
    BY DEF Retarget, Condition
  <2>4. Retarget(alerts[r.alert].condition, r.target) \in Condition
    BY <2>2, <2>3
  <2> QED
    BY <1>4, <2>1, <2>4 DEF Edit, EditRequest, Alert
<1>5. CASE Remove(r)
  <2>1. r.alert \in AlertIds /\ alerts[r.alert] \in Alert
    BY <1>5, RequestAlert DEF Remove, MayRemove, Owns, AlertStatus, NoAlert
  <2> QED
    BY <1>5, <2>1 DEF Remove, SetStatus, Alert, AlertStatus
<1>6. CASE ReserveTrigger(r)
  <2>1. r \in ReserveRequest /\ r.alert \in AlertIds /\ alerts[r.alert] \in Alert
    BY <1>6, RequestKinds, RequestAlert DEF ReserveTrigger, MayReserve, NoAlert
  <2>2. [status |-> "PENDING", price |-> r.price, attempts |-> 0, error |-> FALSE,
         skipped |-> "null"] \in Delivery
    BY <2>1 DEF ReserveRequest, Delivery, SkippedReason
  <2> QED
    BY <1>6, <2>1, <2>2 DEF ReserveTrigger, SetStatus, Alert, AlertStatus
<1>7. CASE BeginAttempt(r)
  <2>1. r.alert \in AlertIds /\ deliveries[r.alert] \in Delivery
    BY <1>7, RequestAlert DEF BeginAttempt, MayBegin, NoDelivery
  <2> QED
    BY <1>7, <2>1 DEF BeginAttempt, Delivery
<1>8. CASE MarkSent(r)
  <2>1. r.alert \in AlertIds /\ deliveries[r.alert] \in Delivery
    BY <1>8, RequestAlert DEF MarkSent, MaySettle
  <2> QED
    BY <1>8, <2>1 DEF MarkSent, Delivery
<1>9. CASE RecordFailure(r)
  <2>1. r.alert \in AlertIds /\ deliveries[r.alert] \in Delivery
    BY <1>9, RequestAlert DEF RecordFailure, MaySettle
  <2> QED
    BY <1>9, <2>1 DEF RecordFailure, Delivery
<1>10. CASE MarkUndeliverable(r)
  <2>1. r \in CloseRequest /\ r.alert \in AlertIds /\ deliveries[r.alert] \in Delivery
    BY <1>10, RequestKinds, RequestAlert DEF MarkUndeliverable, MaySettle
  <2> QED
    BY <1>10, <2>1 DEF MarkUndeliverable, CloseRequest, Delivery
<1> QED
  BY <1>1, <1>2, <1>3, <1>4, <1>5, <1>6, <1>7, <1>8, <1>9, <1>10 DEF Operate

-----------------------------------------------------------------------------
(* The trigger and its record *)

Fresh == \A a \in AlertIds \ drawn : alerts[a] = NoAlert /\ deliveries[a] = NoDelivery

HasRecord(als, dels) ==
    \A a \in AlertIds :
        /\ als[a].status = "TRIGGERED" => dels[a] # NoDelivery
        /\ dels[a] # NoDelivery => als[a].status \in {"TRIGGERED", "DELETED"}

\* A transaction touches no id that was never drawn, except to draw it.
LEMMA OperateFresh ==
  ASSUME MapsAreTyped, Fresh, NEW r \in Request, Operate(r)
  PROVE  Fresh'
<1> USE DEF MapsAreTyped, AlertMap, DeliveryMap, Fresh
<1>1. CASE Create(r)
  BY <1>1 DEF Create
<1>2. CASE Enable(r)
  BY <1>2 DEF Enable, MayEnable, NoAlert
<1>3. CASE Disable(r)
  BY <1>3 DEF Disable, MayDisable, SetStatus, NoAlert
<1>4. CASE Edit(r)
  BY <1>4, RequestAlert DEF Edit, MayEdit, Owns, AlertStatus, NoAlert
<1>5. CASE Remove(r)
  BY <1>5, RequestAlert DEF Remove, MayRemove, Owns, AlertStatus, SetStatus, NoAlert
<1>6. CASE ReserveTrigger(r)
  BY <1>6, RequestAlert DEF ReserveTrigger, MayReserve, SetStatus, NoAlert
<1>7. CASE BeginAttempt(r)
  BY <1>7, RequestAlert DEF BeginAttempt, MayBegin, NoDelivery
<1>8. CASE MarkSent(r) \/ RecordFailure(r) \/ MarkUndeliverable(r)
  BY <1>8, RequestAlert DEF MarkSent, RecordFailure, MarkUndeliverable, MaySettle
<1> QED
  BY <1>1, <1>2, <1>3, <1>4, <1>5, <1>6, <1>7, <1>8 DEF Operate

\* A transaction keeps every trigger with its record.
LEMMA OperateRecords ==
  ASSUME MapsAreTyped, Fresh, HasRecord(alerts, deliveries),
         NEW r \in Request, Operate(r)
  PROVE  HasRecord(alerts', deliveries')
<1> USE DEF MapsAreTyped, AlertMap, DeliveryMap, HasRecord
<1>0. r.kind # "create" => r.alert \in AlertIds
  BY RequestAlert
<1>1. CASE Create(r)
  BY <1>1 DEF Create, Fresh
<1>2. CASE Enable(r)
  BY <1>0, <1>2 DEF Enable, MayEnable, NoAlert, Alert
<1>3. CASE Disable(r)
  BY <1>0, <1>3 DEF Disable, MayDisable, SetStatus, NoAlert, Alert
<1>4. CASE Edit(r)
  BY <1>0, <1>4 DEF Edit, MayEdit, Owns, AlertStatus, NoAlert, Alert
<1>5. CASE Remove(r)
  BY <1>0, <1>5 DEF Remove, MayRemove, Owns, AlertStatus, SetStatus, NoAlert, Alert
<1>6. CASE ReserveTrigger(r)
  BY <1>0, <1>6 DEF ReserveTrigger, MayReserve, SetStatus, NoAlert, Alert, NoDelivery
<1>7. CASE BeginAttempt(r)
  <2>1. deliveries[r.alert] \in Delivery
    BY <1>0, <1>7 DEF BeginAttempt, MayBegin, NoDelivery
  <2>2. alerts' = alerts /\ \A a \in AlertIds \ {r.alert} : deliveries'[a] = deliveries[a]
    BY <1>0, <1>7 DEF BeginAttempt
  <2>3. deliveries'[r.alert].status = "PENDING" /\ deliveries[r.alert].status = "PENDING"
    BY <1>0, <1>7, <2>1 DEF BeginAttempt, MayBegin, Delivery
  <2> QED
    BY <2>2, <2>3 DEF NoDelivery
<1>8. CASE MarkSent(r) \/ RecordFailure(r) \/ MarkUndeliverable(r)
  <2>1. r.alert \in AlertIds /\ deliveries[r.alert] \in Delivery
    BY <1>0, <1>8 DEF MarkSent, RecordFailure, MarkUndeliverable, MaySettle
  <2>2. alerts' = alerts /\ \A a \in AlertIds \ {r.alert} : deliveries'[a] = deliveries[a]
    BY <1>8, <2>1 DEF MarkSent, RecordFailure, MarkUndeliverable
  <2>3. deliveries'[r.alert].status \in {"PENDING", "SENT", "FAILED"}
    <3>1. CASE MarkSent(r)
      BY <2>1, <3>1 DEF MarkSent, Delivery
    <3>2. CASE RecordFailure(r)
      BY <2>1, <3>2 DEF RecordFailure, Delivery
    <3>3. CASE MarkUndeliverable(r)
      BY <2>1, <3>3 DEF MarkUndeliverable, Delivery
    <3> QED
      BY <1>8, <3>1, <3>2, <3>3
  <2>4. deliveries[r.alert] # NoDelivery
    BY <2>1 DEF Delivery, NoDelivery
  <2> QED
    BY <2>2, <2>3, <2>4 DEF NoDelivery
<1> QED
  BY <1>1, <1>2, <1>3, <1>4, <1>5, <1>6, <1>7, <1>8 DEF Operate

\* A transaction never re-arms a fired alert and never revives a deleted one.
LEMMA OperateIsFinal ==
  ASSUME MapsAreTyped, Fresh, NEW r \in Request, Operate(r), NEW a \in AlertIds
  PROVE  /\ alerts[a].status = "TRIGGERED" => alerts'[a].status \in {"TRIGGERED", "DELETED"}
         /\ alerts[a].status = "DELETED" => alerts'[a].status = "DELETED"
<1> USE DEF MapsAreTyped, AlertMap, DeliveryMap
<1>0. r.kind # "create" => r.alert \in AlertIds
  BY RequestAlert
<1>1. CASE Create(r)
  BY <1>1 DEF Create, Fresh, NoAlert
<1>2. CASE Enable(r)
  BY <1>0, <1>2 DEF Enable, MayEnable, NoAlert, Alert
<1>3. CASE Disable(r)
  BY <1>0, <1>3 DEF Disable, MayDisable, SetStatus, NoAlert, Alert
<1>4. CASE Edit(r)
  BY <1>0, <1>4 DEF Edit, MayEdit, Owns, AlertStatus, NoAlert, Alert
<1>5. CASE Remove(r)
  BY <1>0, <1>5 DEF Remove, MayRemove, Owns, AlertStatus, SetStatus, NoAlert, Alert
<1>6. CASE ReserveTrigger(r)
  BY <1>0, <1>6 DEF ReserveTrigger, MayReserve, SetStatus, NoAlert, Alert
<1>7. CASE BeginAttempt(r) \/ MarkSent(r) \/ RecordFailure(r) \/ MarkUndeliverable(r)
  BY <1>7 DEF BeginAttempt, MarkSent, RecordFailure, MarkUndeliverable
<1> QED
  BY <1>1, <1>2, <1>3, <1>4, <1>5, <1>6, <1>7 DEF Operate

-----------------------------------------------------------------------------
(* Duplicates and capacity *)

NoDuplicates(als) ==
    \A a, b \in AlertIds :
        ( /\ a # b
          /\ als[a].status \in CapacityStatuses
          /\ als[b].status \in CapacityStatuses
          /\ als[a].owner = als[b].owner )
        => als[a].condition # als[b].condition

\* What a transaction does to the alerts that count towards a capacity: it adds
\* one (create), changes the condition of one (edit), or only takes some away.
LEMMA OperateShape ==
  ASSUME MapsAreTyped, Fresh, NEW r \in Request, Operate(r)
  PROVE  \/ /\ MayCreate(r)
            /\ \E a \in AlertIds \ drawn :
                  /\ drawn' = drawn \cup {a}
                  /\ alerts'[a].owner = r.user
                  /\ alerts'[a].condition = r.condition
                  /\ \A b \in AlertIds \ {a} : alerts'[b] = alerts[b]
         \/ /\ MayEdit(r)
            /\ r.alert \in AlertIds
            /\ drawn' = drawn
            /\ alerts'[r.alert].owner = r.user
            /\ alerts'[r.alert].status = alerts[r.alert].status
            /\ alerts'[r.alert].condition = Retarget(alerts[r.alert].condition, r.target)
            /\ \A b \in AlertIds \ {r.alert} : alerts'[b] = alerts[b]
         \/ /\ drawn' = drawn
            /\ \A b \in AlertIds :
                  /\ alerts'[b].status \in CapacityStatuses
                       => alerts[b].status \in CapacityStatuses
                  /\ alerts[b].status \in CapacityStatuses
                       => /\ alerts'[b].owner = alerts[b].owner
                          /\ alerts'[b].condition = alerts[b].condition
<1> USE DEF MapsAreTyped, AlertMap, DeliveryMap, CapacityStatuses
<1>0. r.kind # "create" => r.alert \in AlertIds
  BY RequestAlert
<1>1. CASE Create(r)
  BY <1>1 DEF Create
<1>2. CASE Enable(r)
  BY <1>0, <1>2 DEF Enable, MayEnable, NoAlert, Alert
<1>3. CASE Disable(r)
  BY <1>0, <1>3 DEF Disable, MayDisable, SetStatus, NoAlert, Alert
<1>4. CASE Edit(r)
  <2>1. alerts[r.alert] \in Alert
    BY <1>0, <1>4 DEF Edit, MayEdit, Owns, AlertStatus, NoAlert
  <2> QED
    BY <1>0, <1>4, <2>1 DEF Edit, MayEdit, Owns, Alert
<1>5. CASE Remove(r)
  BY <1>0, <1>5 DEF Remove, MayRemove, Owns, AlertStatus, SetStatus, NoAlert, Alert
<1>6. CASE ReserveTrigger(r)
  BY <1>0, <1>6 DEF ReserveTrigger, MayReserve, SetStatus, NoAlert, Alert
<1>7. CASE BeginAttempt(r) \/ MarkSent(r) \/ RecordFailure(r) \/ MarkUndeliverable(r)
  BY <1>7 DEF BeginAttempt, MarkSent, RecordFailure, MarkUndeliverable
<1> QED
  BY <1>1, <1>2, <1>3, <1>4, <1>5, <1>6, <1>7 DEF Operate

\* No transaction makes a duplicate.
LEMMA OperateDuplicates ==
  ASSUME MapsAreTyped, Fresh, NoDuplicates(alerts), NEW r \in Request, Operate(r)
  PROVE  NoDuplicates(alerts')
<1> USE DEF NoDuplicates
<1>1. ASSUME MayCreate(r), NEW a \in AlertIds \ drawn,
             alerts'[a].owner = r.user, alerts'[a].condition = r.condition,
             \A b \in AlertIds \ {a} : alerts'[b] = alerts[b]
      PROVE  NoDuplicates(alerts')
  BY <1>1 DEF MayCreate, SameTarget, Counted
<1>2. ASSUME MayEdit(r), r.alert \in AlertIds,
             alerts'[r.alert].owner = r.user,
             alerts'[r.alert].condition = Retarget(alerts[r.alert].condition, r.target),
             \A b \in AlertIds \ {r.alert} : alerts'[b] = alerts[b]
      PROVE  NoDuplicates(alerts')
  BY <1>2 DEF MayEdit, SameTarget, Counted
<1>3. ASSUME \A b \in AlertIds :
                /\ alerts'[b].status \in CapacityStatuses
                     => alerts[b].status \in CapacityStatuses
                /\ alerts[b].status \in CapacityStatuses
                     => /\ alerts'[b].owner = alerts[b].owner
                        /\ alerts'[b].condition = alerts[b].condition
      PROVE  NoDuplicates(alerts')
  BY <1>3
<1> QED
  BY <1>1, <1>2, <1>3, OperateShape

\* A transaction takes a user's count up only within the limit it was given.
LEMMA OperateCounts ==
  ASSUME MapsAreTyped, Fresh, IsFiniteSet(drawn), NEW r \in Request, Operate(r),
         NEW u \in Users
  PROVE  /\ IsFiniteSet(drawn')
         /\ \/ Cardinality(Counted(u)') <= Cardinality(Counted(u))
            \/ /\ r.kind = "create"
               /\ r.user = u
               /\ Cardinality(Counted(u)') <= r.limit
<1>1. IsFiniteSet(Counted(u)) /\ Cardinality(Counted(u)) \in Nat
  <2>1. Counted(u) \subseteq drawn
    BY DEF Counted, Fresh, NoAlert, CapacityStatuses, MapsAreTyped
  <2> QED
    BY <2>1, FS_Subset, FS_CardinalityType
<1>2. ASSUME Counted(u)' \subseteq Counted(u)
      PROVE  Cardinality(Counted(u)') <= Cardinality(Counted(u))
  BY <1>1, <1>2, FS_Subset
<1>3. ASSUME MayCreate(r), NEW a \in AlertIds \ drawn, drawn' = drawn \cup {a},
             alerts'[a].owner = r.user,
             \A b \in AlertIds \ {a} : alerts'[b] = alerts[b]
      PROVE  /\ IsFiniteSet(drawn')
             /\ \/ Cardinality(Counted(u)') <= Cardinality(Counted(u))
                \/ /\ r.kind = "create"
                   /\ r.user = u
                   /\ Cardinality(Counted(u)') <= r.limit
  <2>1. IsFiniteSet(drawn')
    BY <1>3, FS_AddElement
  <2>2. CASE r.user # u
    <3>1. Counted(u)' \subseteq Counted(u)
      BY <1>3, <2>2 DEF Counted
    <3> QED
      BY <1>2, <2>1, <3>1
  <2>3. CASE r.user = u
    <3>1. Counted(u)' \subseteq Counted(u) \cup {a}
      BY <1>3 DEF Counted
    <3> DEFINE S == Counted(u)
    <3>2. /\ IsFiniteSet(S \cup {a})
          /\ Cardinality(S \cup {a}) <= Cardinality(S) + 1
      <4> HIDE DEF S
      <4>1. IsFiniteSet(S) /\ Cardinality(S) \in Nat
        BY <1>1 DEF S
      <4>2. IsFiniteSet(S \cup {a})
            /\ Cardinality(S \cup {a}) = IF a \in S THEN Cardinality(S) ELSE Cardinality(S) + 1
        BY <4>1, FS_AddElement
      <4> QED
        BY <4>1, <4>2
    <3>3. Cardinality(Counted(u) \cup {a}) \in Nat /\ Cardinality(Counted(u)') \in Nat
          /\ Cardinality(Counted(u)') <= Cardinality(Counted(u) \cup {a})
      BY <3>1, <3>2, FS_Subset, FS_CardinalityType
    <3>4. Cardinality(Counted(u)) < r.limit /\ r.kind = "create" /\ r.limit \in Nat
      BY <1>3, <2>3, RequestKinds DEF MayCreate, CreateRequest
    <3> QED
      BY <1>1, <2>1, <2>3, <3>2, <3>3, <3>4
  <2> QED
    BY <2>2, <2>3
<1>4. ASSUME MayEdit(r), r.alert \in AlertIds, drawn' = drawn,
             alerts'[r.alert].owner = r.user,
             alerts'[r.alert].status = alerts[r.alert].status,
             \A b \in AlertIds \ {r.alert} : alerts'[b] = alerts[b]
      PROVE  Cardinality(Counted(u)') <= Cardinality(Counted(u))
  <2>1. Counted(u)' \subseteq Counted(u)
    BY <1>4 DEF Counted, MayEdit, Owns
  <2> QED
    BY <1>2, <2>1
<1>5. ASSUME drawn' = drawn,
             \A b \in AlertIds :
                /\ alerts'[b].status \in CapacityStatuses
                     => alerts[b].status \in CapacityStatuses
                /\ alerts[b].status \in CapacityStatuses
                     => alerts'[b].owner = alerts[b].owner
      PROVE  Cardinality(Counted(u)') <= Cardinality(Counted(u))
  <2>1. Counted(u)' \subseteq Counted(u)
    BY <1>5 DEF Counted
  <2> QED
    BY <1>2, <2>1
<1> QED
  BY <1>3, <1>4, <1>5, OperateShape

-----------------------------------------------------------------------------
(* What a transaction does to a delivery *)

\* Only a reservation makes a record, only a request on it changes it, and only what
\* settles it changes its status.
LEMMA OperateDeliveries ==
  ASSUME MapsAreTyped, NEW r \in Request, Operate(r), NEW a \in AlertIds
  PROVE  /\ ~ (r.kind \in {"reserve", "begin", "sent", "failure", "close"} /\ r.alert = a)
              => deliveries'[a] = deliveries[a]
         /\ r.kind = "reserve" /\ r.alert = a
              => deliveries[a] = NoDelivery /\ deliveries'[a].status = "PENDING"
         /\ r.kind = "begin" /\ r.alert = a
              => deliveries[a].status = "PENDING" /\ deliveries'[a].status = "PENDING"
         /\ r.kind = "failure" /\ r.alert = a
              => deliveries[a] # NoDelivery /\ deliveries'[a].status = deliveries[a].status
         /\ r.kind = "sent" /\ r.alert = a
              => deliveries[a] # NoDelivery /\ deliveries'[a].status = "SENT"
         /\ r.kind = "close" /\ r.alert = a
              => deliveries[a] # NoDelivery /\ deliveries'[a].status = "FAILED"
<1> USE DEF MapsAreTyped, AlertMap, DeliveryMap
<1>0. r.kind # "create" => r.alert \in AlertIds
  BY RequestAlert
<1>1. CASE Create(r) \/ Enable(r) \/ Disable(r) \/ Edit(r) \/ Remove(r)
  BY <1>1 DEF Create, MayCreate, Enable, MayEnable, Disable, MayDisable, Edit, MayEdit,
     Remove, MayRemove
<1>2. CASE ReserveTrigger(r)
  BY <1>0, <1>2 DEF ReserveTrigger, MayReserve
<1>3. CASE BeginAttempt(r)
  <2>1. r.kind = "begin" /\ r.alert \in AlertIds /\ deliveries[r.alert].status = "PENDING"
        /\ deliveries' = [deliveries EXCEPT ![r.alert].attempts = @ + 1]
    BY <1>0, <1>3 DEF BeginAttempt, MayBegin
  <2>2. deliveries[r.alert] \in Delivery
    BY <2>1 DEF NoDelivery
  <2>3. deliveries'[r.alert].status = deliveries[r.alert].status
        /\ (r.alert # a => deliveries'[a] = deliveries[a])
    BY <2>1, <2>2 DEF Delivery
  <2> QED
    BY <2>1, <2>3
<1>4. CASE MarkSent(r) \/ RecordFailure(r) \/ MarkUndeliverable(r)
  <2>1. r.alert \in AlertIds /\ deliveries[r.alert] \in Delivery /\ deliveries[r.alert] # NoDelivery
    BY <1>0, <1>4 DEF MarkSent, RecordFailure, MarkUndeliverable, MaySettle
  <2>2. CASE MarkSent(r)
    BY <2>1, <2>2 DEF MarkSent, MaySettle, Delivery
  <2>3. CASE RecordFailure(r)
    <3>1. deliveries'[r.alert].status = deliveries[r.alert].status
      BY <2>1, <2>3 DEF RecordFailure, MaySettle, Delivery
    <3>2. r.kind = "failure" /\ (r.alert # a => deliveries'[a] = deliveries[a])
      BY <2>1, <2>3 DEF RecordFailure, MaySettle
    <3> QED
      BY <2>1, <3>1, <3>2
  <2>4. CASE MarkUndeliverable(r)
    BY <2>1, <2>4 DEF MarkUndeliverable, MaySettle, Delivery
  <2> QED
    BY <1>4, <2>2, <2>3, <2>4
<1> QED
  BY <1>1, <1>2, <1>3, <1>4 DEF Operate

-----------------------------------------------------------------------------
(* The inductive invariant of types *)

TypeInv == TypeOK /\ (link = "writing" => chain # <<>>)

-----------------------------------------------------------------------------
(* Type correctness *)

\* The initial state is well typed.
LEMMA TypeInit == Init => TypeInv
<1> SUFFICES ASSUME Init PROVE TypeInv
  OBVIOUS
<1> USE AlertStoreAssumption, AlertNotificationAssumption, AlertEngineAssumption
    DEF AlertStoreAssumption, AlertNotificationAssumption, AlertEngineAssumption
<1>1. StoreTypeOK
  <2>1. alerts \in [AlertIds -> Alert \cup {NoAlert}]
    BY DEF Init, StoreInit
  <2>2. deliveries \in [AlertIds -> Delivery \cup {NoDelivery}]
    BY DEF Init, StoreInit
  <2>3. disk \in Document
    BY <2>1, <2>2 DEF Init, StoreInit, Snapshot, Document
  <2> QED
    BY <2>1, <2>2, <2>3 DEF Init, StoreInit, StoreTypeOK
<1>2. ServiceTypeOK
  BY DEF Init, ServiceInit, ServiceTypeOK, NoPrice
<1>3. NotificationTypeOK
  BY DEF Init, NotificationInit, NotificationTypeOK, NoLoop, NoRecovery, LoopPhase
<1>4. engine \in Evaluation
  BY DEF Init, NoEvaluation, Evaluation, NoPrice
<1> QED
  BY <1>1, <1>2, <1>3, <1>4 DEF Init, StoreInit, TypeInv, TypeOK

\* A queued request keeps the chain well typed.
LEMMA EnqueueType ==
  ASSUME chain \in Seq(Request), NEW r \in Request, Enqueue(r)
  PROVE  chain' \in Seq(Request) /\ chain' # <<>>
  BY DEF Enqueue

\* The steps of the users and of the referral ledger.
LEMMA UserTypes ==
  ASSUME TypeInv, UserStep, UNCHANGED <<notificationVars, engineVars>>
  PROVE  TypeInv'
<1> USE DEF TypeInv, TypeOK, StoreTypeOK, ServiceTypeOK, NotificationTypeOK,
            notificationVars, engineVars
<1>1. ASSUME NEW u \in Users, GrantBonus(u) PROVE TypeInv'
  <2>1. bonus' \in [Users -> Nat]
    BY <1>1 DEF GrantBonus
  <2> QED
    BY <1>1, <2>1 DEF GrantBonus, storeVars
<1>2. ASSUME NEW kind, NEW r \in Request, Ask(kind, r) PROVE TypeInv'
  <2>1. chain' \in Seq(Request) /\ chain' # <<>>
    BY <1>2, EnqueueType DEF Ask
  <2> QED
    BY <1>2, <2>1 DEF Ask, serviceVars
<1>3. ASSUME NEW c \in Condition, NEW kept \in Nat PROVE Baseline(c, kept) \in Nat
  BY DEF Baseline, Condition
<1>4. ASSUME NEW u \in Users PROVE EffectiveLimit(u) \in Nat
  BY AlertServiceAssumption DEF EffectiveLimit, AlertServiceAssumption
<1>5. ASSUME NEW u \in Users, NEW c \in Condition, AskCreate(u, c) PROVE TypeInv'
  <2>1. [kind |-> "create", user |-> u, condition |-> c, baseline |-> Baseline(c, NoPrice),
         limit |-> EffectiveLimit(u)] \in Request
    BY <1>3, <1>4 DEF Request, CreateRequest, NoPrice
  <2> QED
    BY <1>2, <1>5, <2>1 DEF AskCreate
<1>6. ASSUME NEW u \in Users, NEW a \in AlertIds, Owns(u, a)
      PROVE  alerts[a].condition \in Condition /\ alerts[a].baseline \in Nat
  BY <1>6 DEF Owns, Alert, AlertStatus, NoAlert
<1>7. ASSUME NEW u \in Users, NEW a \in AlertIds, AskEnable(u, a) PROVE TypeInv'
  <2>1. [kind |-> "enable", user |-> u, alert |-> a,
         baseline |-> Baseline(alerts[a].condition, alerts[a].baseline)] \in Request
    BY <1>3, <1>6, <1>7 DEF AskEnable, Request, EnableRequest
  <2> QED
    BY <1>2, <1>7, <2>1 DEF AskEnable
<1>8. ASSUME NEW u \in Users, NEW a \in AlertIds, AskDisable(u, a) \/ AskRemove(u, a)
      PROVE TypeInv'
  <2>1. ASSUME NEW k \in {"disable", "remove"}
        PROVE  [kind |-> k, user |-> u, alert |-> a] \in Request
    BY DEF Request, OwnerRequest
  <2> QED
    BY <1>2, <1>8, <2>1 DEF AskDisable, AskRemove
<1>9. ASSUME NEW u \in Users, NEW a \in AlertIds, NEW t \in PriceTargets \cup PercentTargets,
             AskEdit(u, a, t)
      PROVE TypeInv'
  <2>1. [kind |-> "edit", user |-> u, alert |-> a, target |-> t,
         baseline |-> Baseline(alerts[a].condition, alerts[a].baseline)] \in Request
    BY <1>3, <1>6, <1>9 DEF AskEdit, Request, EditRequest
  <2> QED
    BY <1>2, <1>9, <2>1 DEF AskEdit
<1> QED
  BY <1>1, <1>5, <1>7, <1>8, <1>9 DEF UserStep

\* The market and the engine.
LEMMA EngineTypes ==
  ASSUME TypeInv, MarketCommits \/ EngineStep
  PROVE  TypeInv'
<1> USE DEF TypeInv, TypeOK, StoreTypeOK, ServiceTypeOK, NotificationTypeOK,
            storeVars, serviceVars, notificationVars, engineVars
<1>1. CASE MarketCommits
  <2>1. PICK S \in SUBSET Symbols \ {{}}, p \in [Symbols -> 1..MaxPrice] :
           /\ price' = [s \in Symbols |-> IF s \in S THEN p[s] ELSE price[s]]
           /\ events' = {[symbol |-> s, price |-> p[s], previous |-> price[s]] : s \in S}
    BY <1>1 DEF MarketCommits
  <2>2. price' \in [Symbols -> Nat]
    BY <2>1
  <2>3. events' \subseteq Observation
    BY <2>1 DEF Observation
  <2> QED
    BY <1>1, <2>2, <2>3 DEF MarketCommits
<1>2. ASSUME NEW obs \in events, EvaluateSymbol(obs) PROVE TypeInv'
  <2>1. obs.price \in 0..MaxPrice
    BY AlertEngineAssumption DEF Observation, AlertEngineAssumption
  <2>2. engine' \in Evaluation /\ events' \subseteq Observation
    BY <1>2, <2>1 DEF EvaluateSymbol, Evaluation, ListActiveBySymbol
  <2> QED
    BY <1>2, <2>2 DEF EvaluateSymbol
<1>3. ASSUME NEW a \in AlertIds, Reserve(a) PROVE TypeInv'
  <2>1. engine.price \in Nat
    BY AlertEngineAssumption DEF Evaluation, AlertEngineAssumption
  <2>2. [kind |-> "reserve", alert |-> a, price |-> engine.price] \in Request
    BY <2>1 DEF Request, ReserveRequest
  <2>3. chain' \in Seq(Request) /\ chain' # <<>>
    BY <1>3, <2>2, EnqueueType DEF Reserve
  <2>4. engine' \in Evaluation
    BY <1>3 DEF Reserve, Evaluation
  <2> QED
    BY <1>3, <2>3, <2>4 DEF Reserve, MapsUnchanged
<1>4. CASE SymbolIsDone
  <2>1. engine' \in Evaluation
    BY <1>4, AlertEngineAssumption
       DEF SymbolIsDone, NoEvaluation, Evaluation, NoPrice, AlertEngineAssumption
  <2> QED
    BY <1>4, <2>1 DEF SymbolIsDone
<1> QED
  BY <1>1, <1>2, <1>3, <1>4 DEF EngineStep

LoopMap == [AlertIds -> [at : LoopPhase, attempt : 0..MaxAttempts]]

\* A loop that moves on, begins or ends is still a loop.
LEMMA LoopMoves ==
  ASSUME loop \in LoopMap, NEW a \in AlertIds
  PROVE  /\ [loop EXCEPT ![a] = NoLoop] \in LoopMap
         /\ Dispatched(loop, a) \in LoopMap
         /\ \A at \in LoopPhase : [loop EXCEPT ![a].at = at] \in LoopMap
<1> USE AlertNotificationAssumption
    DEF AlertNotificationAssumption, LoopMap, NoLoop, Dispatched, LoopPhase
<1>1. [at |-> "none", attempt |-> 0] \in [at : LoopPhase, attempt : 0..MaxAttempts]
      /\ [at |-> "check", attempt |-> 1] \in [at : LoopPhase, attempt : 0..MaxAttempts]
  OBVIOUS
<1>2. ASSUME NEW at \in LoopPhase
      PROVE  [loop EXCEPT ![a].at = at] \in LoopMap
  <2>1. [loop[a] EXCEPT !.at = at] \in [at : LoopPhase, attempt : 0..MaxAttempts]
    OBVIOUS
  <2> QED
    BY <2>1
<1> QED
  BY <1>1, <1>2

\* The delivery loops.
LEMMA LoopTypes ==
  ASSUME TypeInv, NEW a \in AlertIds, LoopStep(a), EngineUnchanged
  PROVE  TypeInv'
<1>1. loop \in LoopMap
  BY DEF TypeInv, TypeOK, NotificationTypeOK, LoopMap
<1>2. chain \in Seq(Request) /\ (link = "writing" => chain # <<>>)
  BY DEF TypeInv, TypeOK, StoreTypeOK
<1>3. ASSUME loop' \in LoopMap, chain' \in Seq(Request), link = "writing" => chain' # <<>>,
             received' \in [AlertIds -> Nat], lostAnswers' \in 0..MaxLostAnswers,
             UNCHANGED recovery
      PROVE  TypeInv'
  BY <1>3 DEF LoopStep, MapsUnchanged, EngineUnchanged, engineVars, serviceVars, LoopMap,
              TypeInv, TypeOK, StoreTypeOK, ServiceTypeOK, NotificationTypeOK
<1>4. received \in [AlertIds -> Nat] /\ lostAnswers \in 0..MaxLostAnswers
  BY DEF TypeInv, TypeOK, NotificationTypeOK
<1>5. ASSUME NEW at \in LoopPhase, NEW r \in Request, Enqueue(r), Goto(a, at),
             lostAnswers' \in 0..MaxLostAnswers, UNCHANGED <<recovery, received>>
      PROVE  TypeInv'
  <2>1. chain' \in Seq(Request) /\ chain' # <<>>
    BY <1>2, <1>5, EnqueueType
  <2>2. loop' \in LoopMap
    BY <1>1, <1>5, LoopMoves DEF Goto
  <2> QED
    BY <1>3, <1>4, <1>5, <2>1, <2>2
<1>6. {"closing", "starting", "marking", "failing", "accepted"} \subseteq LoopPhase
  BY DEF LoopPhase
<1>7. ASSUME NEW s \in SkippedReason, NEW e \in BOOLEAN PROVE CloseOf(a, s, e, "loop") \in Request
  BY DEF CloseOf, Request, CloseRequest
<1>8. ASSUME NEW k \in {"begin", "sent", "failure"} PROVE [kind |-> k, alert |-> a] \in Request
  BY DEF Request, AttemptRequest
<1>9. CASE AlertIsGone(a)
  <2>1. (IF alerts[a].status = "DELETED" THEN "ALERT_DELETED" ELSE "ALERT_DISABLED")
           \in SkippedReason
    BY DEF SkippedReason
  <2> QED
    BY <1>4, <1>5, <1>6, <1>7, <1>9, <2>1 DEF AlertIsGone
<1>10. CASE PlatformIsMissing(a) \/ GiveUp(a)
  <2>1. "null" \in SkippedReason
    BY DEF SkippedReason
  <2> QED
    BY <1>4, <1>5, <1>6, <1>7, <1>10, <2>1 DEF PlatformIsMissing, GiveUp
<1>11. CASE StartAttempt(a)
  <2>1. CASE deliveries[a].status = "PENDING"
    BY <1>4, <1>5, <1>6, <1>8, <1>11, <2>1 DEF StartAttempt
  <2>2. CASE deliveries[a].status # "PENDING"
    <3>1. loop' \in LoopMap
      BY <1>1, <1>11, <2>2, LoopMoves DEF StartAttempt
    <3> QED
      BY <1>2, <1>3, <1>4, <1>11, <2>2, <3>1 DEF StartAttempt
  <2> QED
    BY <2>1, <2>2
<1>12. CASE PlatformAccepts(a)
  <2>1. loop' \in LoopMap
    BY <1>1, <1>6, <1>12, LoopMoves DEF PlatformAccepts, Goto
  <2>2. received' \in [AlertIds -> Nat]
    BY <1>4, <1>12 DEF PlatformAccepts
  <2> QED
    BY <1>2, <1>3, <1>4, <1>12, <2>1, <2>2 DEF PlatformAccepts
<1>13. CASE SendSucceeds(a)
  BY <1>4, <1>5, <1>6, <1>8, <1>13 DEF SendSucceeds
<1>14. CASE SendFails(a)
  BY <1>4, <1>5, <1>6, <1>8, <1>14 DEF SendFails
<1>15. CASE AnswerIsLost(a)
  <2>1. lostAnswers' \in 0..MaxLostAnswers
    BY <1>4, <1>15, AlertNotificationAssumption DEF AnswerIsLost, AlertNotificationAssumption
  <2> QED
    BY <1>5, <1>6, <1>8, <1>15, <2>1 DEF AnswerIsLost
<1>16. CASE Retry(a)
  <2>1. [at |-> "check", attempt |-> loop[a].attempt + 1]
           \in [at : LoopPhase, attempt : 0..MaxAttempts]
    BY <1>1, <1>16, AlertNotificationAssumption
       DEF Retry, LoopMap, LoopPhase, AlertNotificationAssumption
  <2>2. loop' \in LoopMap
    BY <1>1, <1>16, <2>1 DEF Retry, LoopMap
  <2> QED
    BY <1>2, <1>3, <1>4, <1>16, <2>2 DEF Retry
<1> QED
  BY <1>9, <1>10, <1>11, <1>12, <1>13, <1>14, <1>15, <1>16 DEF LoopStep

\* The recovery after a restart.
LEMMA RecoveryTypes ==
  ASSUME TypeInv, NEW a \in AlertIds, RecoveryStep(a), EngineUnchanged
  PROVE  TypeInv'
<1>1. CASE RecoverUnknown(a)
  <2>1. CloseOf(a, "DELIVERY_OUTCOME_UNKNOWN", TRUE, "recovery") \in Request
    BY DEF CloseOf, Request, CloseRequest, SkippedReason
  <2>2. chain' \in Seq(Request) /\ chain' # <<>>
    BY <1>1, <2>1, EnqueueType DEF RecoverUnknown, TypeInv, TypeOK, StoreTypeOK
  <2>3. recovery' \in [todo : SUBSET AlertIds, waiting : BOOLEAN]
    BY <1>1 DEF RecoverUnknown, TypeInv, TypeOK, NotificationTypeOK
  <2> QED
    BY <1>1, <2>2, <2>3 DEF RecoverUnknown, RecoveryStep, MapsUnchanged, EngineUnchanged,
       engineVars, serviceVars, TypeInv, TypeOK, StoreTypeOK, ServiceTypeOK, NotificationTypeOK
<1>2. CASE RecoverDispatch(a)
  <2>1. loop' \in LoopMap
    BY <1>2, LoopMoves DEF RecoverDispatch, TypeInv, TypeOK, NotificationTypeOK, LoopMap
  <2>2. recovery' \in [todo : SUBSET AlertIds, waiting : BOOLEAN]
    BY <1>2 DEF RecoverDispatch, TypeInv, TypeOK, NotificationTypeOK
  <2> QED
    BY <1>2, <2>1, <2>2 DEF RecoverDispatch, RecoveryStep, MapsUnchanged, EngineUnchanged,
       engineVars, serviceVars, LoopMap,
       TypeInv, TypeOK, StoreTypeOK, ServiceTypeOK, NotificationTypeOK
<1> QED
  BY <1>1, <1>2 DEF RecoveryStep

\* A caller that resumes is a loop, the recovery or the engine.
LEMMA ResumeTypes ==
  ASSUME TypeInv, NEW r \in Request, NEW accepted \in BOOLEAN, Resume(r, accepted)
  PROVE  ServiceTypeOK' /\ NotificationTypeOK' /\ events' \subseteq Observation
           /\ engine' \in Evaluation /\ up' \in BOOLEAN /\ crashes' \in 0..MaxCrashes
<1>1. loop \in LoopMap
  BY DEF TypeInv, TypeOK, NotificationTypeOK, LoopMap
<1>2. loop' \in LoopMap
  <2>1. ASSUME r.kind # "create" PROVE r.alert \in AlertIds
    BY <2>1, RequestAlert
  <2>2. CASE r.kind \in LoopKinds \/ (r.kind = "close" /\ r.by = "loop")
    <3>1. NextPhase(r, accepted) \in {"sending", "delay", "none"}
      BY DEF NextPhase
    <3>2. r.alert \in AlertIds
      BY <2>1, <2>2 DEF LoopKinds
    <3>3. loop' = [loop EXCEPT ![r.alert] =
                     IF NextPhase(r, accepted) = "none" THEN NoLoop
                     ELSE [@ EXCEPT !.at = NextPhase(r, accepted)]]
      BY <2>2 DEF Resume, Answered
    <3>4. CASE NextPhase(r, accepted) = "none"
      BY <1>1, <3>2, <3>3, <3>4, LoopMoves
    <3>5. CASE NextPhase(r, accepted) # "none"
      <4>1. NextPhase(r, accepted) \in LoopPhase
        BY <3>1 DEF LoopPhase
      <4>2. [loop EXCEPT ![r.alert].at = NextPhase(r, accepted)] \in LoopMap
        BY <1>1, <3>2, <4>1, LoopMoves
      <4> QED
        BY <3>3, <3>5, <4>2
    <3> QED
      BY <3>4, <3>5
  <2>3. CASE ~(r.kind \in LoopKinds \/ (r.kind = "close" /\ r.by = "loop"))
    <3>1. loop' = IF r.kind = "reserve" /\ accepted THEN Dispatched(loop, r.alert) ELSE loop
      BY <2>3 DEF Resume, Answered
    <3> QED
      BY <1>1, <2>1, <3>1, LoopMoves
  <2> QED
    BY <2>2, <2>3
<1>3. recovery' \in [todo : SUBSET AlertIds, waiting : BOOLEAN]
  BY DEF Resume, Answered, TypeInv, TypeOK, NotificationTypeOK
<1>4. engine' \in Evaluation
  BY DEF Resume, EngineAnswered, Evaluation, TypeInv, TypeOK
<1> QED
  BY <1>2, <1>3, <1>4 DEF Resume, Answered, serviceVars, LoopMap,
     TypeInv, TypeOK, ServiceTypeOK, NotificationTypeOK

\* The head of the chain and what is left behind it.
LEMMA ChainHead ==
  ASSUME TypeInv, chain # <<>>
  PROVE  Head(chain) \in Request /\ Tail(chain) \in Seq(Request)
  BY DEF TypeInv, TypeOK, StoreTypeOK

\* The chain.
LEMMA LinkTypes ==
  ASSUME TypeInv, LinkStep
  PROVE  TypeInv'
<1> USE DEF TypeInv, TypeOK, StoreTypeOK
<1>1. CASE LinkApplied
  <2>1. Head(chain) \in Request /\ chain # <<>>
    BY <1>1, ChainHead DEF LinkApplied, Applied, LinkIsDue
  <2>2. MapsAreTyped'
    <3>1. MapsAreTyped
      BY DEF MapsAreTyped, AlertMap, DeliveryMap
    <3> QED
      BY <1>1, <2>1, <3>1, OperateTypes DEF LinkApplied, Applied
  <2>3. StoreTypeOK' /\ chain' = chain
    BY <1>1, <2>2 DEF LinkApplied, Applied, MapsAreTyped, AlertMap, DeliveryMap
  <2> QED
    BY <1>1, <2>1, <2>3 DEF LinkApplied, serviceVars, notificationVars, engineVars,
       ServiceTypeOK, NotificationTypeOK
<1>2. CASE LinkRefused
  <2>1. Head(chain) \in Request /\ Tail(chain) \in Seq(Request)
    BY <1>2, ChainHead DEF LinkRefused, Refused, LinkIsDue
  <2>2. StoreTypeOK' /\ link' = "idle"
    BY <1>2, <2>1 DEF LinkRefused, Refused, LinkIsDue
  <2> QED
    BY <1>2, <2>1, <2>2, ResumeTypes DEF LinkRefused
<1>3. CASE LinkWritten
  <2>1. Head(chain) \in Request /\ Tail(chain) \in Seq(Request)
    BY <1>3, ChainHead DEF LinkWritten, Written
  <2>2. disk' \in Document
    BY <1>3 DEF LinkWritten, Written, Snapshot, Document
  <2>3. writeFailures' \in 0..MaxWriteFailures
    BY <1>3, AlertStoreAssumption DEF LinkWritten, Written, AlertStoreAssumption
  <2>4. StoreTypeOK' /\ link' = "idle"
    BY <1>3, <2>1, <2>2, <2>3 DEF LinkWritten, Written
  <2> QED
    BY <1>3, <2>1, <2>4, ResumeTypes DEF LinkWritten
<1> QED
  BY <1>1, <1>2, <1>3 DEF LinkStep

\* A crash and the restart after it.
LEMMA CrashTypes ==
  ASSUME TypeInv, Crash \/ Restart
  PROVE  TypeInv'
<1> USE DEF TypeInv, TypeOK, StoreTypeOK, ServiceTypeOK, NotificationTypeOK
<1>1. CASE Crash
  <2>1. alerts' \in [AlertIds -> Alert \cup {NoAlert}]
        /\ deliveries' \in [AlertIds -> Delivery \cup {NoDelivery}]
    BY <1>1 DEF Crash, Document
  <2>2. loop' \in LoopMap
    BY <1>1, AlertNotificationAssumption
       DEF Crash, LoopMap, NoLoop, LoopPhase, AlertNotificationAssumption
  <2>3. engine' \in Evaluation /\ crashes' \in 0..MaxCrashes
    BY <1>1, AlertEngineAssumption
       DEF Crash, Evaluation, NoEvaluation, NoPrice, AlertEngineAssumption
  <2>4. recovery' \in [todo : SUBSET AlertIds, waiting : BOOLEAN]
    BY <1>1 DEF Crash, NoRecovery
  <2>5. StoreTypeOK' /\ link' = "idle"
    BY <1>1, <2>1 DEF Crash
  <2> QED
    BY <1>1, <2>2, <2>3, <2>4, <2>5 DEF Crash, LoopMap, serviceVars
<1>2. CASE Restart
  <2>1. recovery' \in [todo : SUBSET AlertIds, waiting : BOOLEAN]
    BY <1>2 DEF Restart
  <2> QED
    BY <1>2, <2>1 DEF Restart, storeVars, serviceVars
<1> QED
  BY <1>1, <1>2

\* Every step keeps the type invariant.
LEMMA TypeStep == TypeInv /\ [Next]_vars => TypeInv'
<1> SUFFICES ASSUME TypeInv, [Next]_vars PROVE TypeInv'
  OBVIOUS
<1>1. CASE UserStep /\ UNCHANGED <<notificationVars, engineVars>>
  BY <1>1, UserTypes
<1>2. CASE MarketCommits \/ EngineStep
  BY <1>2, EngineTypes
<1>3. CASE LinkStep
  BY <1>3, LinkTypes
<1>4. ASSUME NEW a \in AlertIds, LoopStep(a) /\ EngineUnchanged PROVE TypeInv'
  BY <1>4, LoopTypes
<1>5. ASSUME NEW a \in AlertIds, RecoveryStep(a) /\ EngineUnchanged PROVE TypeInv'
  BY <1>5, RecoveryTypes
<1>6. CASE Crash \/ Restart
  BY <1>6, CrashTypes
<1>7. CASE UNCHANGED vars
  BY <1>7 DEF vars, storeVars, serviceVars, notificationVars, engineVars,
     TypeInv, TypeOK, StoreTypeOK, ServiceTypeOK, NotificationTypeOK
<1> QED
  BY <1>1, <1>2, <1>3, <1>4, <1>5, <1>6, <1>7 DEF Next, RunningStep

\* Every variable of the subsystem keeps its type, whatever the interleaving of
\* requests, market cycles, transactions, sends and crashes.
THEOREM TypeCorrect == Spec => []TypeOK
<1>1. TypeInv => TypeOK
  BY DEF TypeInv
<1> QED
  BY TypeInit, TypeStep, <1>1, PTL DEF Spec

-----------------------------------------------------------------------------
(* The inductive invariant of the document *)

CountedIn(als, u) == {a \in AlertIds : als[a].status \in CapacityStatuses /\ als[a].owner = u}
Limits == [u \in Users |-> EffectiveLimit(u)]

\* What is true of the document in memory and of the one in the file, where dr
\* are the drawn ids and limits the capacities.
Safe(als, dels, dr, limits) ==
    /\ \A a \in AlertIds \ dr : als[a] = NoAlert /\ dels[a] = NoDelivery
    /\ HasRecord(als, dels)
    /\ NoDuplicates(als)
    /\ \A u \in Users : Cardinality(CountedIn(als, u)) <= limits[u]

\* The file is behind the memory, never on another course.
Behind ==
    \A a \in AlertIds :
        /\ disk.alerts[a].status = "TRIGGERED" => alerts[a].status \in {"TRIGGERED", "DELETED"}
        /\ disk.alerts[a].status = "DELETED" => alerts[a].status = "DELETED"

\* A create waits with the limit its caller read, which is never withdrawn.
QueuedLimits ==
    \A i \in DOMAIN chain : chain[i].kind = "create" => chain[i].limit <= Limits[chain[i].user]

StoreInv ==
    /\ TypeInv
    /\ IsFiniteSet(drawn)
    /\ Safe(alerts, deliveries, drawn, Limits)
    /\ Safe(disk.alerts, disk.deliveries, drawn, Limits)
    /\ Behind
    /\ QueuedLimits

\* The capacities are numbers.
LEMMA LimitsType ==
  ASSUME TypeInv
  PROVE  Limits \in [Users -> Nat] /\ \A u \in Users : Limits[u] = EffectiveLimit(u)
<1>1. ASSUME NEW u \in Users PROVE EffectiveLimit(u) \in Nat
  BY AlertServiceAssumption
     DEF EffectiveLimit, AlertServiceAssumption, TypeInv, TypeOK, ServiceTypeOK
<1> QED
  BY <1>1 DEF Limits

\* The empty document is safe.
LEMMA StoreInit_Inv == Init => StoreInv
<1> SUFFICES ASSUME Init PROVE StoreInv
  OBVIOUS
<1>1. TypeInv
  BY TypeInit
<1>2. drawn = {} /\ chain = <<>> /\ disk.alerts = alerts /\ disk.deliveries = deliveries
      /\ \A a \in AlertIds : alerts[a] = NoAlert /\ deliveries[a] = NoDelivery
  BY DEF Init, StoreInit, Snapshot
<1>3. IsFiniteSet(drawn)
  BY <1>2, FS_EmptySet
<1>4. ASSUME NEW u \in Users PROVE Cardinality(CountedIn(alerts, u)) <= Limits[u]
  <2>1. CountedIn(alerts, u) = {}
    BY <1>2 DEF CountedIn, NoAlert, CapacityStatuses
  <2>2. Limits[u] \in Nat
    BY <1>1, LimitsType
  <2> QED
    BY <2>1, <2>2, FS_EmptySet
<1>5. HasRecord(alerts, deliveries) /\ NoDuplicates(alerts)
  BY <1>2 DEF HasRecord, NoDuplicates, NoAlert, CapacityStatuses
<1>6. Safe(alerts, deliveries, drawn, Limits)
  BY <1>2, <1>4, <1>5 DEF Safe
<1> QED
  BY <1>1, <1>2, <1>3, <1>6 DEF StoreInv, Behind, QueuedLimits

\* Capacities that grow leave a safe document safe.
LEMMA SafeWithMore ==
  ASSUME NEW als, NEW dels, NEW dr, NEW l1 \in [Users -> Nat], NEW l2 \in [Users -> Nat],
         Safe(als, dels, dr, l1), IsFiniteSet(dr), \A u \in Users : l1[u] <= l2[u]
  PROVE  Safe(als, dels, dr, l2)
<1>1. ASSUME NEW u \in Users PROVE Cardinality(CountedIn(als, u)) <= l2[u]
  <2>1. CountedIn(als, u) \subseteq dr
    BY DEF Safe, CountedIn, NoAlert, CapacityStatuses
  <2>2. Cardinality(CountedIn(als, u)) \in Nat
    BY <2>1, FS_Subset, FS_CardinalityType
  <2>3. Cardinality(CountedIn(als, u)) <= l1[u]
    BY DEF Safe
  <2> QED
    BY <2>2, <2>3
<1> QED
  BY <1>1 DEF Safe

\* A step that leaves both documents alone, and queues no create, is safe.
LEMMA QuietSteps ==
  ASSUME StoreInv, TypeInv', UNCHANGED <<alerts, deliveries, disk, drawn, bonus>>,
         \/ UNCHANGED chain
         \/ chain # <<>> /\ chain' = Tail(chain)
         \/ \E r \in Request : r.kind # "create" /\ Enqueue(r)
  PROVE  StoreInv'
<1>1. Limits' = Limits
  BY DEF Limits, EffectiveLimit
<1>2. chain \in Seq(Request)
  BY DEF StoreInv, TypeInv, TypeOK, StoreTypeOK
<1>3. QueuedLimits'
  <2>1. CASE UNCHANGED chain
    BY <1>1, <2>1 DEF StoreInv, QueuedLimits
  <2>2. CASE chain # <<>> /\ chain' = Tail(chain)
    <3>1. \A i \in DOMAIN chain' : i + 1 \in DOMAIN chain /\ chain'[i] = chain[i + 1]
      BY <1>2, <2>2
    <3> QED
      BY <1>1, <3>1 DEF StoreInv, QueuedLimits
  <2>3. ASSUME NEW r \in Request, r.kind # "create", Enqueue(r) PROVE QueuedLimits'
    <3>1. \A i \in DOMAIN chain' : \/ i \in DOMAIN chain /\ chain'[i] = chain[i]
                                   \/ chain'[i] = r
      BY <1>2, <2>3 DEF Enqueue
    <3> QED
      BY <1>1, <2>3, <3>1 DEF StoreInv, QueuedLimits
  <2> QED
    BY <2>1, <2>2, <2>3
<1> QED
  BY <1>1, <1>3 DEF StoreInv, Behind

\* The steps of the users and of the referral ledger.
LEMMA UserSafe ==
  ASSUME StoreInv, TypeInv', UserStep, UNCHANGED <<notificationVars, engineVars>>
  PROVE  StoreInv'
<1>1. TypeInv /\ chain \in Seq(Request)
  BY DEF StoreInv, TypeInv, TypeOK, StoreTypeOK
<1>2. ASSUME NEW u \in Users, GrantBonus(u) PROVE StoreInv'
  <2>1. UNCHANGED <<alerts, deliveries, disk, drawn, chain>>
    BY <1>2 DEF GrantBonus, storeVars
  <2>2. \A v \in Users : Limits[v] <= Limits'[v]
    <3>1. ASSUME NEW v \in Users PROVE bonus[v] \in Nat /\ bonus'[v] \in Nat /\ bonus[v] <= bonus'[v]
      BY <1>1, <1>2 DEF GrantBonus, TypeInv, TypeOK, ServiceTypeOK
    <3>2. ASSUME NEW v \in Users PROVE EffectiveLimit(v) <= EffectiveLimit(v)'
      BY <3>1, AlertServiceAssumption DEF EffectiveLimit, AlertServiceAssumption
    <3> QED
      BY <3>2 DEF Limits
  <2>3. Limits \in [Users -> Nat] /\ Limits' \in [Users -> Nat]
    <3>1. ASSUME NEW v \in Users PROVE EffectiveLimit(v)' \in Nat
      BY AlertServiceAssumption DEF EffectiveLimit, AlertServiceAssumption, TypeInv, TypeOK,
         ServiceTypeOK
    <3> QED
      BY <1>1, <3>1, LimitsType DEF Limits
  <2>4. /\ Safe(alerts, deliveries, drawn, Limits')
        /\ Safe(disk.alerts, disk.deliveries, drawn, Limits')
    BY <2>2, <2>3, SafeWithMore DEF StoreInv
  <2>5. ASSUME NEW i \in DOMAIN chain, chain[i].kind = "create"
        PROVE  chain[i].limit <= Limits'[chain[i].user]
    <3>1. chain[i] \in CreateRequest
      BY <1>1, <2>5, RequestKinds
    <3>2. chain[i].user \in Users /\ chain[i].limit \in Nat
      BY <3>1 DEF CreateRequest
    <3>3. chain[i].limit <= Limits[chain[i].user]
      BY <2>5 DEF StoreInv, QueuedLimits
    <3> QED
      BY <2>2, <2>3, <3>2, <3>3
  <2> QED
    BY <2>1, <2>4, <2>5 DEF StoreInv, Behind, QueuedLimits
<1>3. ASSUME NEW kind, NEW r \in Request, Ask(kind, r), r.kind # "create" PROVE StoreInv'
  BY <1>3, QuietSteps DEF Ask, serviceVars
<1>4. ASSUME NEW u \in Users, NEW c \in Condition, AskCreate(u, c) PROVE StoreInv'
  <2> DEFINE r == [kind |-> "create", user |-> u, condition |-> c,
                   baseline |-> Baseline(c, NoPrice), limit |-> EffectiveLimit(u)]
  <2>1. Limits' = Limits /\ UNCHANGED <<alerts, deliveries, disk, drawn>>
    BY <1>4 DEF AskCreate, Ask, Limits, EffectiveLimit, serviceVars
  <2>2. chain' = Append(chain, r) /\ r.user = u /\ r.limit = Limits[u] /\ Limits[u] \in Nat
    BY <1>1, <1>4, LimitsType DEF AskCreate, Ask, Enqueue
  <2>3. QueuedLimits'
    <3> HIDE DEF r
    <3>1. \A i \in DOMAIN chain' : \/ i \in DOMAIN chain /\ chain'[i] = chain[i]
                                   \/ chain'[i] = r
      BY <1>1, <2>2
    <3> QED
      BY <2>1, <2>2, <3>1 DEF StoreInv, QueuedLimits
  <2> QED
    BY <2>1, <2>3 DEF StoreInv, Behind
<1>5. ASSUME NEW u \in Users, NEW a \in AlertIds, Owns(u, a)
      PROVE  alerts[a].condition \in Condition /\ alerts[a].baseline \in Nat
  BY <1>1, <1>5 DEF Owns, Alert, AlertStatus, NoAlert, TypeInv, TypeOK, StoreTypeOK
<1>6. ASSUME NEW c \in Condition, NEW kept \in Nat PROVE Baseline(c, kept) \in Nat
  BY <1>1 DEF Baseline, Condition, TypeInv, TypeOK, ServiceTypeOK
<1>7. ASSUME NEW u \in Users, NEW a \in AlertIds, AskEnable(u, a) PROVE StoreInv'
  <2>1. [kind |-> "enable", user |-> u, alert |-> a,
         baseline |-> Baseline(alerts[a].condition, alerts[a].baseline)] \in Request
    BY <1>5, <1>6, <1>7 DEF AskEnable, Request, EnableRequest
  <2> QED
    BY <1>3, <1>7, <2>1 DEF AskEnable
<1>8. ASSUME NEW u \in Users, NEW a \in AlertIds, AskDisable(u, a) \/ AskRemove(u, a)
      PROVE StoreInv'
  <2>1. ASSUME NEW k \in {"disable", "remove"}
        PROVE  [kind |-> k, user |-> u, alert |-> a] \in Request
    BY DEF Request, OwnerRequest
  <2> QED
    BY <1>3, <1>8, <2>1 DEF AskDisable, AskRemove
<1>9. ASSUME NEW u \in Users, NEW a \in AlertIds, NEW t \in PriceTargets \cup PercentTargets,
             AskEdit(u, a, t)
      PROVE StoreInv'
  <2>1. [kind |-> "edit", user |-> u, alert |-> a, target |-> t,
         baseline |-> Baseline(alerts[a].condition, alerts[a].baseline)] \in Request
    BY <1>5, <1>6, <1>9 DEF AskEdit, Request, EditRequest
  <2> QED
    BY <1>3, <1>9, <2>1 DEF AskEdit
<1> QED
  BY <1>2, <1>4, <1>7, <1>8, <1>9 DEF UserStep

\* The market, the engine, the delivery loops and the recovery only queue.
LEMMA OthersSafe ==
  ASSUME StoreInv, TypeInv',
         \/ MarketCommits \/ EngineStep
         \/ \E a \in AlertIds : (LoopStep(a) \/ RecoveryStep(a)) /\ EngineUnchanged
  PROVE  StoreInv'
<1>1. CASE MarketCommits
  BY <1>1, QuietSteps DEF MarketCommits, storeVars
<1>2. CASE EngineStep
  <2>1. ASSUME NEW a \in AlertIds, Reserve(a) PROVE StoreInv'
    <3>1. engine.price \in Nat
      BY AlertEngineAssumption
         DEF StoreInv, TypeInv, TypeOK, Evaluation, AlertEngineAssumption
    <3>2. [kind |-> "reserve", alert |-> a, price |-> engine.price] \in Request
      BY <3>1 DEF Request, ReserveRequest
    <3> QED
      BY <2>1, <3>2, QuietSteps DEF Reserve, MapsUnchanged, serviceVars
  <2> QED
    BY <1>2, <2>1, QuietSteps DEF EngineStep, EvaluateSymbol, SymbolIsDone, storeVars, serviceVars
<1>3. ASSUME NEW a \in AlertIds, NEW s \in SkippedReason, NEW e \in BOOLEAN,
             NEW by \in {"loop", "recovery"}
      PROVE  CloseOf(a, s, e, by) \in Request /\ CloseOf(a, s, e, by).kind # "create"
  BY DEF CloseOf, Request, CloseRequest
<1>4. ASSUME NEW a \in AlertIds, NEW k \in {"begin", "sent", "failure"}
      PROVE  [kind |-> k, alert |-> a] \in Request
  BY DEF Request, AttemptRequest
<1>5. {"ALERT_DELETED", "ALERT_DISABLED", "DELIVERY_OUTCOME_UNKNOWN", "null"} \subseteq SkippedReason
  BY DEF SkippedReason
<1>6. ASSUME NEW a \in AlertIds, LoopStep(a) PROVE StoreInv'
  <2>1. UNCHANGED <<alerts, deliveries, disk, drawn, bonus>>
    BY <1>6 DEF LoopStep, MapsUnchanged, serviceVars
  <2>2. UNCHANGED chain \/ \E r \in Request : r.kind # "create" /\ Enqueue(r)
    <3>1. CASE AlertIsGone(a)
      BY <1>3, <1>5, <3>1 DEF AlertIsGone
    <3>2. CASE PlatformIsMissing(a) \/ GiveUp(a)
      BY <1>3, <1>5, <3>2 DEF PlatformIsMissing, GiveUp
    <3>3. CASE StartAttempt(a)
      BY <1>4, <3>3 DEF StartAttempt
    <3>4. CASE SendSucceeds(a) \/ SendFails(a) \/ AnswerIsLost(a)
      BY <1>4, <3>4 DEF SendSucceeds, SendFails, AnswerIsLost
    <3>5. CASE PlatformAccepts(a) \/ Retry(a)
      BY <3>5 DEF PlatformAccepts, Retry
    <3> QED
      BY <1>6, <3>1, <3>2, <3>3, <3>4, <3>5 DEF LoopStep
  <2> QED
    BY <2>1, <2>2, QuietSteps
<1>7. ASSUME NEW a \in AlertIds, RecoveryStep(a) PROVE StoreInv'
  <2>1. UNCHANGED <<alerts, deliveries, disk, drawn, bonus>>
    BY <1>7 DEF RecoveryStep, MapsUnchanged, serviceVars
  <2>2. UNCHANGED chain \/ \E r \in Request : r.kind # "create" /\ Enqueue(r)
    BY <1>3, <1>5, <1>7 DEF RecoveryStep, RecoverUnknown, RecoverDispatch
  <2> QED
    BY <2>1, <2>2, QuietSteps
<1> QED
  BY <1>1, <1>2, <1>6, <1>7

\* The synchronous operation of a transaction keeps the document safe.
LEMMA AppliedSafe ==
  ASSUME StoreInv, TypeInv', LinkApplied
  PROVE  StoreInv'
<1> DEFINE r == Head(chain)
<1>1. /\ Operate(r)
      /\ UNCHANGED <<disk, chain, bonus>>
      /\ chain # <<>>
  BY DEF LinkApplied, Applied, LinkIsDue, serviceVars
<1>2. TypeInv /\ r \in Request
  BY <1>1, ChainHead DEF StoreInv
<1>3. MapsAreTyped
  BY <1>2 DEF TypeInv, TypeOK, StoreTypeOK, MapsAreTyped, AlertMap, DeliveryMap
<1>4. Fresh /\ HasRecord(alerts, deliveries) /\ NoDuplicates(alerts) /\ IsFiniteSet(drawn)
  BY DEF StoreInv, Safe, Fresh
<1>5. r.kind = "create" => r \in CreateRequest /\ r.limit <= Limits[r.user]
  <2>1. 1 \in DOMAIN chain /\ r = chain[1]
    BY <1>1, <1>2 DEF TypeInv, TypeOK, StoreTypeOK
  <2> QED
    BY <1>2, <2>1, RequestKinds DEF StoreInv, QueuedLimits
<1> HIDE DEF r
<1>6. Fresh' /\ HasRecord(alerts', deliveries') /\ NoDuplicates(alerts')
  BY <1>1, <1>2, <1>3, <1>4, OperateFresh, OperateRecords, OperateDuplicates
<1>7. Limits' = Limits
  BY <1>1 DEF Limits, EffectiveLimit
<1>8. Limits \in [Users -> Nat]
  BY <1>2, LimitsType
<1>9. drawn \subseteq drawn' /\ IsFiniteSet(drawn')
  <2>1. drawn \subseteq drawn'
    BY <1>1, <1>2, <1>3, <1>4, OperateShape
  <2>2. CASE Users = {}
    <3>1. r.kind # "create"
      BY <1>5, <2>2 DEF CreateRequest
    <3> QED
      BY <1>1, <1>2, <1>3, <1>4, <3>1, OperateShape DEF MayCreate
  <2>3. CASE Users # {}
    BY <1>1, <1>2, <1>3, <1>4, <2>1, <2>3, OperateCounts
  <2> QED
    BY <2>2, <2>3
<1>10. ASSUME NEW u \in Users
       PROVE  /\ Cardinality(Counted(u)') <= Limits[u]
              /\ CountedIn(alerts', u) = Counted(u)'
  <2>1. CountedIn(alerts, u) = Counted(u) /\ CountedIn(alerts', u) = Counted(u)'
    BY DEF CountedIn, Counted
  <2>2. Cardinality(Counted(u)) <= Limits[u]
    BY <2>1 DEF StoreInv, Safe
  <2>3. Counted(u) \subseteq drawn /\ Counted(u)' \subseteq drawn'
    BY <1>3, <1>4, <1>6 DEF Counted, Fresh, NoAlert, CapacityStatuses
  <2>4. Cardinality(Counted(u)) \in Nat /\ Cardinality(Counted(u)') \in Nat
    BY <1>4, <1>9, <2>3, FS_Subset, FS_CardinalityType
  <2>5. \/ Cardinality(Counted(u)') <= Cardinality(Counted(u))
        \/ /\ r.kind = "create"
           /\ r.user = u
           /\ Cardinality(Counted(u)') <= r.limit
    BY <1>1, <1>2, <1>3, <1>4, OperateCounts
  <2> QED
    BY <1>5, <1>8, <2>1, <2>2, <2>4, <2>5 DEF CreateRequest
<1>11. Safe(alerts', deliveries', drawn', Limits')
  BY <1>6, <1>7, <1>10 DEF Safe, Fresh
<1>12. Safe(disk.alerts, disk.deliveries, drawn', Limits')
  BY <1>7, <1>9 DEF StoreInv, Safe
<1>13. Behind'
  <2>1. ASSUME NEW a \in AlertIds
        PROVE  /\ alerts[a].status = "TRIGGERED" => alerts'[a].status \in {"TRIGGERED", "DELETED"}
               /\ alerts[a].status = "DELETED" => alerts'[a].status = "DELETED"
    BY <1>1, <1>2, <1>3, <1>4, OperateIsFinal
  <2> QED
    BY <1>1, <2>1 DEF StoreInv, Behind
<1>14. QueuedLimits'
  BY <1>1, <1>7 DEF StoreInv, QueuedLimits
<1> QED
  BY <1>1, <1>9, <1>11, <1>12, <1>13, <1>14 DEF StoreInv

\* A refused request, a write, a crash and a restart keep the documents safe.
LEMMA CopiesSafe ==
  ASSUME StoreInv, TypeInv', LinkRefused \/ LinkWritten \/ Crash \/ Restart
  PROVE  StoreInv'
<1>1. CASE LinkRefused
  BY <1>1, QuietSteps DEF LinkRefused, Refused, LinkIsDue, Resume, serviceVars
<1>2. CASE LinkWritten
  <2>1. UNCHANGED <<alerts, deliveries, drawn, bonus>> /\ chain # <<>> /\ chain' = Tail(chain)
    BY <1>2 DEF LinkWritten, Written, Resume, serviceVars, StoreInv, TypeInv
  <2>2. CASE UNCHANGED disk
    BY <2>1, <2>2, QuietSteps
  <2>3. CASE disk' = Snapshot
    <3>1. Limits' = Limits /\ disk'.alerts = alerts /\ disk'.deliveries = deliveries
      BY <2>1, <2>3 DEF Limits, EffectiveLimit, Snapshot
    <3>2. Safe(disk'.alerts, disk'.deliveries, drawn', Limits')
          /\ Safe(alerts', deliveries', drawn', Limits')
      BY <2>1, <3>1 DEF StoreInv
    <3>3. Behind'
      BY <2>1, <3>1 DEF Behind
    <3>4. QueuedLimits'
      <4>1. chain \in Seq(Request)
        BY DEF StoreInv, TypeInv, TypeOK, StoreTypeOK
      <4>2. \A i \in DOMAIN chain' : i + 1 \in DOMAIN chain /\ chain'[i] = chain[i + 1]
        BY <2>1, <4>1
      <4> QED
        BY <3>1, <4>2 DEF StoreInv, QueuedLimits
    <3> QED
      BY <2>1, <3>2, <3>3, <3>4 DEF StoreInv
  <2> QED
    BY <1>2, <2>2, <2>3 DEF LinkWritten, Written
<1>3. CASE Crash
  <2>1. /\ alerts' = disk.alerts /\ deliveries' = disk.deliveries /\ chain' = <<>>
        /\ UNCHANGED <<disk, drawn, bonus>>
    BY <1>3 DEF Crash, serviceVars
  <2>2. Limits' = Limits
    BY <2>1 DEF Limits, EffectiveLimit
  <2>3. Behind' /\ QueuedLimits'
    BY <2>1 DEF Behind, QueuedLimits
  <2> QED
    BY <2>1, <2>2, <2>3 DEF StoreInv
<1>4. CASE Restart
  BY <1>4, QuietSteps DEF Restart, storeVars, serviceVars
<1> QED
  BY <1>1, <1>2, <1>3, <1>4

\* Every step keeps the inductive invariant.
LEMMA StoreStep == StoreInv /\ [Next]_vars => StoreInv'
<1> SUFFICES ASSUME StoreInv, [Next]_vars PROVE StoreInv'
  OBVIOUS
<1>0. TypeInv'
  BY TypeStep DEF StoreInv
<1>1. CASE UserStep /\ UNCHANGED <<notificationVars, engineVars>>
  BY <1>0, <1>1, UserSafe
<1>2. CASE MarketCommits \/ EngineStep
  BY <1>0, <1>2, OthersSafe
<1>3. ASSUME NEW a \in AlertIds, LoopStep(a) \/ RecoveryStep(a), EngineUnchanged PROVE StoreInv'
  BY <1>0, <1>3, OthersSafe
<1>4. CASE LinkApplied
  BY <1>0, <1>4, AppliedSafe
<1>5. CASE LinkRefused \/ LinkWritten \/ Crash \/ Restart
  BY <1>0, <1>5, CopiesSafe
<1>6. CASE UNCHANGED vars
  BY <1>0, <1>6, QuietSteps DEF vars, storeVars, serviceVars
<1> QED
  BY <1>1, <1>2, <1>3, <1>4, <1>5, <1>6 DEF Next, RunningStep, LinkStep

\* An alert that fired has its delivery record, and only such an alert has one, in
\* memory and in the file (reserveTrigger writes both in one transaction).
THEOREM TriggersHaveRecords == Spec => []TriggerHasRecord
<1>1. StoreInv => TriggerHasRecord
  BY DEF StoreInv, Safe, HasRecord, TriggerHasRecord, Stored, Snapshot
<1> QED
  BY StoreInit_Inv, StoreStep, <1>1, PTL DEF Spec

\* No user ever has two counted alerts with the same condition, however many creates,
\* edits and enables of any number of users are in flight (create, edit).
THEOREM TargetsStayDistinct == Spec => []NoDuplicateTargets
<1>1. StoreInv => NoDuplicateTargets
  BY DEF StoreInv, Safe, NoDuplicates, NoDuplicateTargets, Stored, Snapshot
<1> QED
  BY StoreInit_Inv, StoreStep, <1>1, PTL DEF Spec

WithinLimits == \A u \in Users : Cardinality(Counted(u)) <= EffectiveLimit(u)

\* No step of a running process takes a user above the effective capacity, although
\* every create carries a limit that was read before its critical section.
THEOREM CapacityIsAlwaysKept == Spec => CapacityIsKept
<1>1. StoreInv => WithinLimits
  <2> SUFFICES ASSUME StoreInv, NEW u \in Users
               PROVE  Cardinality(Counted(u)) <= EffectiveLimit(u)
    BY DEF WithinLimits
  <2>1. CountedIn(alerts, u) = Counted(u) /\ Limits[u] = EffectiveLimit(u)
    BY LimitsType DEF StoreInv, CountedIn, Counted
  <2> QED
    BY <2>1 DEF StoreInv, Safe
<1>2. WithinLimits' => [\A u \in Users :
        (up /\ Cardinality(Counted(u)') > Cardinality(Counted(u)))
            => Cardinality(Counted(u)') <= EffectiveLimit(u)']_vars
  BY DEF WithinLimits
<1> QED
  BY StoreInit_Inv, StoreStep, <1>1, <1>2, PTL DEF Spec, CapacityIsKept

\* A saved trigger or deletion is never undone: the file is only ever replaced by a
\* memory that is ahead of it on the same course.
THEOREM TriggersAreFinal == Spec => SavedTriggersAreFinal
<1>1. StoreInv /\ [Next]_vars =>
        [\A a \in AlertIds :
           /\ disk.alerts[a].status = "TRIGGERED"
                => disk'.alerts[a].status \in {"TRIGGERED", "DELETED"}
           /\ disk.alerts[a].status = "DELETED" => disk'.alerts[a].status = "DELETED"]_vars
  <2> SUFFICES ASSUME StoreInv, Next
               PROVE  UNCHANGED disk \/ disk' = Snapshot
    BY DEF StoreInv, Behind, Snapshot
  <2>1. CASE UserStep
    BY <2>1 DEF UserStep, GrantBonus, AskCreate, AskEnable, AskDisable, AskEdit, AskRemove, Ask,
       storeVars
  <2>2. CASE MarketCommits \/ EngineStep
    BY <2>2 DEF MarketCommits, EngineStep, EvaluateSymbol, Reserve, SymbolIsDone, storeVars,
       MapsUnchanged
  <2>3. CASE LinkStep
    BY <2>3 DEF LinkStep, LinkApplied, LinkRefused, LinkWritten, Applied, Refused, Written
  <2>4. CASE \E a \in AlertIds : LoopStep(a) \/ RecoveryStep(a)
    BY <2>4 DEF LoopStep, RecoveryStep, MapsUnchanged
  <2>5. CASE Crash \/ Restart
    BY <2>5 DEF Crash, Restart, storeVars
  <2> QED
    BY <2>1, <2>2, <2>3, <2>4, <2>5 DEF Next, RunningStep
<1> QED
  BY StoreInit_Inv, StoreStep, <1>1, PTL DEF Spec, SavedTriggersAreFinal

-----------------------------------------------------------------------------
(* The inductive invariant of the deliveries *)

SettlingKinds == {"begin", "sent", "failure", "close"}
ByLoop(r) == r.kind \in LoopKinds \/ (r.kind = "close" /\ r.by = "loop")
Awaits == [begin |-> "starting", sent |-> "marking", failure |-> "failing", close |-> "closing"]
Asks(i, a) == chain[i].kind \in SettlingKinds /\ chain[i].alert = a

\* The head has reserved the trigger of a, and its caller does not know it yet.
Reserving(a) == link = "writing" /\ chain[1].kind = "reserve" /\ chain[1].alert = a

\* A delivery is in one hand at a time: a loop, the recovery, a request of one of
\* them, or the reservation under way; and what is settled is left alone.
Hand(a) ==
    /\ loop[a].at # "none" => deliveries[a] # NoDelivery /\ a \notin recovery.todo /\ ~ Reserving(a)
    /\ a \in recovery.todo => deliveries[a].status = "PENDING" /\ ~ Reserving(a)
    /\ Reserving(a) => deliveries[a].status = "PENDING"
    \* A request on it is the only one, and the loop it comes from awaits it.
    /\ \A i \in DOMAIN chain : Asks(i, a) =>
        /\ deliveries[a] # NoDelivery /\ a \notin recovery.todo /\ ~ Reserving(a)
        /\ loop[a].at = IF ByLoop(chain[i]) THEN Awaits[chain[i].kind] ELSE "none"
        /\ \A j \in DOMAIN chain : Asks(j, a) => i = j
    \* The request that settled it may still be in the chain, to be written.
    /\ deliveries[a].status \in {"SENT", "FAILED"} =>
        /\ loop[a].at \in {"none", "marking", "closing"}
        /\ \A i \in DOMAIN chain : Asks(i, a) =>
              i = 1 /\ link = "writing" /\ chain[i].kind \in {"sent", "close"}

\* A process that is down has nothing in memory.
DownIsEmpty ==
    ~ up => /\ chain = <<>> /\ link = "idle" /\ recovery.todo = {}
            /\ \A a \in AlertIds : loop[a].at = "none"

HandsInv == DownIsEmpty /\ \A a \in AlertIds : Hand(a)

\* This process may still send the notification of a.
MaySend(a) ==
    \/ ~ up
    \/ a \in recovery.todo
    \/ deliveries[a] = NoDelivery
    \/ Reserving(a)
    \/ loop[a].at \in {"check", "starting", "sending", "failing", "delay"}

\* Every message but the last one of this process is explained.
Explained(a) == received[a] <= crashes + lostAnswers + (IF MaySend(a) THEN 0 ELSE 1)

SavedOutcome(a) ==
    disk.deliveries[a].status \in {"SENT", "FAILED"} => deliveries[a] = disk.deliveries[a]

\* The trigger is in the file before anything is sent.
SavedFirst(a) ==
    received[a] > 0 \/ loop[a].at # "none" \/ a \in recovery.todo =>
        disk.alerts[a].status \in {"TRIGGERED", "DELETED"}

DownIsFile == ~ up => deliveries = disk.deliveries

DeliveryInv ==
    /\ StoreInv
    /\ HandsInv
    /\ DownIsFile
    /\ \A a \in AlertIds : Explained(a) /\ SavedOutcome(a)
    /\ writeFailures = 0 => \A a \in AlertIds : SavedFirst(a)

LEMMA AppendedChain ==
  ASSUME TypeInv, NEW r \in Request, Enqueue(r)
  PROVE  /\ DOMAIN chain' = DOMAIN chain \cup {Len(chain) + 1} /\ Len(chain) \in Nat
         /\ DOMAIN chain = 1 .. Len(chain)
         /\ chain'[Len(chain) + 1] = r
         /\ \A i \in DOMAIN chain : chain'[i] = chain[i]
         /\ link = "writing" => 1 \in DOMAIN chain
         /\ 1 \notin DOMAIN chain => Len(chain) = 0
<1>1. chain \in Seq(Request) /\ (link = "writing" => chain # <<>>)
  BY DEF TypeInv, TypeOK, StoreTypeOK
<1> QED
  BY <1>1 DEF Enqueue

LEMMA ShorterChain ==
  ASSUME TypeInv, chain # <<>>
  PROVE  /\ 1 \in DOMAIN chain /\ Head(chain) = chain[1] /\ chain[1] \in Request
         /\ \A i \in DOMAIN Tail(chain) : i + 1 \in DOMAIN chain /\ Tail(chain)[i] = chain[i + 1]
                                          /\ i \in Nat /\ i > 0
<1>1. chain \in Seq(Request)
  BY DEF TypeInv, TypeOK, StoreTypeOK
<1> QED
  BY <1>1

LEMMA DeliveryStatus ==
  ASSUME TypeInv, NEW a \in AlertIds
  PROVE  /\ deliveries[a] = NoDelivery \/ deliveries[a].status \in {"PENDING", "SENT", "FAILED"}
         /\ deliveries[a].status \in {"PENDING", "SENT", "FAILED"} => deliveries[a] # NoDelivery
         /\ loop[a].at \in LoopPhase
<1>1. deliveries[a] \in Delivery \cup {NoDelivery} /\ loop[a] \in [at : LoopPhase, attempt : 0..MaxAttempts]
  BY DEF TypeInv, TypeOK, StoreTypeOK, NotificationTypeOK
<1> QED
  BY <1>1 DEF Delivery, NoDelivery

\* A step that is not about a leaves its hand as it is.
LEMMA Spared ==
  ASSUME TypeInv, NEW a \in AlertIds, Hand(a),
         loop'[a].at = loop[a].at, deliveries'[a].status = deliveries[a].status,
         deliveries'[a] = NoDelivery <=> deliveries[a] = NoDelivery,
         a \in recovery'.todo <=> a \in recovery.todo,
         \/ UNCHANGED <<chain, link>>
         \/ UNCHANGED chain /\ link = "idle" /\ link' = "writing" /\ chain # <<>>
            /\ ~ (chain[1].kind = "reserve" /\ chain[1].alert = a)
         \/ \E r \in Request : /\ Enqueue(r) /\ UNCHANGED link
                               /\ ~ (r.kind \in SettlingKinds /\ r.alert = a)
         \/ /\ chain # <<>> /\ chain' = Tail(chain) /\ link' = "idle"
            /\ ~ Asks(1, a)
  PROVE  Hand(a)'
<1>1. CASE UNCHANGED <<chain, link>>
  BY <1>1 DEF Hand, Asks, Reserving
<1>2. CASE UNCHANGED chain /\ link = "idle" /\ link' = "writing"
           /\ ~ (chain[1].kind = "reserve" /\ chain[1].alert = a)
  <2>1. ~ Reserving(a) /\ ~ Reserving(a)'
    BY <1>2 DEF Reserving
  <2>2. \A i : Asks(i, a)' <=> Asks(i, a)
    BY <1>2 DEF Asks
  <2> QED
    BY <1>2, <2>1, <2>2 DEF Hand
<1>3. ASSUME NEW r \in Request, Enqueue(r), UNCHANGED link,
             ~ (r.kind \in SettlingKinds /\ r.alert = a)
      PROVE  Hand(a)'
  <2>1. Reserving(a)' <=> Reserving(a)
    BY <1>3, AppendedChain DEF Reserving
  <2>2. \A i \in DOMAIN chain' :
          Asks(i, a)' => i \in DOMAIN chain /\ Asks(i, a) /\ chain'[i] = chain[i]
    BY <1>3, AppendedChain DEF Asks
  <2> QED
    BY <1>3, <2>1, <2>2 DEF Hand
<1>4. CASE chain # <<>> /\ chain' = Tail(chain) /\ link' = "idle" /\ ~ Asks(1, a)
  <2>1. ~ Reserving(a)'
    BY <1>4 DEF Reserving
  <2>2. \A i \in DOMAIN chain' :
          /\ i \in Nat /\ i > 0
          /\ Asks(i, a)' => i + 1 \in DOMAIN chain /\ Asks(i + 1, a) /\ chain'[i] = chain[i + 1]
    BY <1>4, ShorterChain DEF Asks
  <2>3. \A i \in DOMAIN chain' : Asks(i, a)' =>
          /\ deliveries'[a] # NoDelivery /\ a \notin recovery'.todo /\ ~ Reserving(a)'
          /\ loop'[a].at = IF ByLoop(chain'[i]) THEN Awaits[chain'[i].kind] ELSE "none"
          /\ \A j \in DOMAIN chain' : Asks(j, a)' => i = j
          /\ deliveries'[a].status \notin {"SENT", "FAILED"}
    <3> TAKE i \in DOMAIN chain'
    <3> HAVE Asks(i, a)'
    <3>1. i + 1 \in DOMAIN chain /\ Asks(i + 1, a) /\ chain'[i] = chain[i + 1]
          /\ i \in Nat /\ i > 0
      BY <2>2
    <3>2. \A j \in DOMAIN chain' : Asks(j, a)' => i = j
      <4> TAKE j \in DOMAIN chain'
      <4> HAVE Asks(j, a)'
      <4>1. j + 1 \in DOMAIN chain /\ Asks(j + 1, a) /\ j \in Nat
        BY <2>2
      <4>2. i + 1 = j + 1
        BY <3>1, <4>1 DEF Hand
      <4> QED
        BY <3>1, <4>1, <4>2
    <3>3. deliveries[a].status \notin {"SENT", "FAILED"}
      BY <3>1 DEF Hand
    <3>4. deliveries[a] # NoDelivery /\ a \notin recovery.todo
          /\ loop[a].at = IF ByLoop(chain[i + 1]) THEN Awaits[chain[i + 1].kind] ELSE "none"
      BY <3>1 DEF Hand
    <3> QED
      BY <2>1, <3>1, <3>2, <3>3, <3>4
  <2> QED
    BY <2>1, <2>3 DEF Hand
<1> QED
  BY <1>1, <1>2, <1>3, <1>4

\* A hand that puts its request into the chain.
LEMMA Handed ==
  ASSUME TypeInv, NEW a \in AlertIds, Hand(a), deliveries[a].status = "PENDING", UNCHANGED deliveries,
         \A i \in DOMAIN chain : ~ Asks(i, a), ~ Reserving(a), UNCHANGED link,
         NEW r \in Request, Enqueue(r), r.kind \in SettlingKinds, r.alert = a,
         loop'[a].at = IF ByLoop(r) THEN Awaits[r.kind] ELSE "none",
         a \notin recovery'.todo
  PROVE  Hand(a)'
<1>1. ~ Reserving(a)'
  BY AppendedChain DEF Reserving
<1>2. \A i \in DOMAIN chain' : Asks(i, a)' => i = Len(chain) + 1 /\ chain'[i] = r
  BY AppendedChain DEF Asks
<1>3. deliveries'[a] # NoDelivery /\ deliveries'[a].status = "PENDING"
  BY DeliveryStatus
<1> QED
  BY <1>1, <1>2, <1>3 DEF Hand

\* A hand that no request is in, and that goes on to another phase.
LEMMA Moved ==
  ASSUME TypeInv, NEW a \in AlertIds, deliveries[a].status = "PENDING", UNCHANGED <<deliveries, link, chain>>,
         \A i \in DOMAIN chain : ~ Asks(i, a), ~ Reserving(a),
         a \notin recovery'.todo
  PROVE  Hand(a)'
<1>1. \A i : Asks(i, a)' <=> Asks(i, a)
  BY DEF Asks
<1>2. ~ Reserving(a)'
  BY DEF Reserving
<1>3. deliveries'[a] # NoDelivery /\ deliveries'[a].status = "PENDING"
  BY DeliveryStatus
<1> QED
  BY <1>1, <1>2, <1>3 DEF Hand

\* A loop that awaits nothing has no request in the chain.
LEMMA FreeLoop ==
  ASSUME TypeInv, NEW a \in AlertIds, Hand(a),
         loop[a].at \in {"check", "sending", "accepted", "delay"}
  PROVE  /\ deliveries[a].status = "PENDING" /\ a \notin recovery.todo /\ ~ Reserving(a)
         /\ \A i \in DOMAIN chain : ~ Asks(i, a)
<1>1. deliveries[a].status = "PENDING" /\ a \notin recovery.todo /\ ~ Reserving(a)
  BY DeliveryStatus DEF Hand
<1>2. ASSUME NEW i \in DOMAIN chain, Asks(i, a) PROVE FALSE
  <2>1. loop[a].at = IF ByLoop(chain[i]) THEN Awaits[chain[i].kind] ELSE "none"
    BY <1>2 DEF Hand
  <2> QED
    BY <1>2, <2>1 DEF Asks, SettlingKinds, Awaits
<1> QED
  BY <1>1, <1>2

\* Users, the market and the engine queue requests that settle nothing.
LEMMA QuietHands ==
  ASSUME TypeInv, HandsInv, up, UNCHANGED <<deliveries, link, loop, recovery, up>>,
         \/ UNCHANGED chain
         \/ \E r \in Request : Enqueue(r) /\ r.kind \notin SettlingKinds
  PROVE  HandsInv'
<1>1. DownIsEmpty'
  BY DEF DownIsEmpty
<1>2. ASSUME NEW a \in AlertIds PROVE Hand(a)'
  BY <1>2, Spared DEF HandsInv
<1> QED
  BY <1>1, <1>2 DEF HandsInv

\* One phase of a loop.
LEMMA LoopMoved ==
  ASSUME TypeInv, NEW a \in AlertIds, NEW at \in LoopPhase, Goto(a, at)
  PROVE  loop'[a].at = at /\ \A b \in AlertIds \ {a} : loop'[b] = loop[b]
<1>1. loop \in LoopMap
  BY DEF TypeInv, TypeOK, NotificationTypeOK, LoopMap
<1> QED
  BY <1>1 DEF Goto, LoopMap

\* The chain and the phase of a loop after its step.
LEMMA LoopShape ==
  ASSUME TypeInv, NEW a \in AlertIds, LoopStep(a), deliveries[a].status = "PENDING"
  PROVE  /\ loop[a].at \in {"check", "sending", "accepted", "delay"}
         /\ UNCHANGED <<deliveries, link, recovery, disk, alerts, writeFailures>>
         /\ \A b \in AlertIds \ {a} : loop'[b] = loop[b] /\ received'[b] = received[b]
         /\ \/ /\ UNCHANGED <<chain, lostAnswers, received>>
               /\ loop[a].at = "delay" /\ loop'[a].at = "check"
            \/ /\ UNCHANGED <<chain, lostAnswers>>
               /\ received'[a] = received[a] + 1
               /\ loop[a].at = "sending" /\ loop'[a].at = "accepted"
            \/ /\ UNCHANGED received
               /\ \E r \in Request : /\ Enqueue(r) /\ r.kind \in SettlingKinds /\ r.alert = a
                                     /\ ByLoop(r) /\ loop'[a].at = Awaits[r.kind]
                                     /\ r.kind = "sent" => loop[a].at = "accepted"
               /\ \/ UNCHANGED lostAnswers /\ loop[a].at # "accepted"
                  \/ UNCHANGED lostAnswers /\ loop'[a].at = "marking"
                  \/ lostAnswers' = lostAnswers + 1
<1>1. UNCHANGED <<alerts, deliveries, link, disk, writeFailures>>
  BY DEF LoopStep, MapsUnchanged
<1>2. loop \in LoopMap /\ received \in [AlertIds -> Nat]
  BY DEF TypeInv, TypeOK, NotificationTypeOK, LoopMap
<1>3. {"closing", "starting", "marking", "failing", "accepted"} \subseteq LoopPhase
  BY DEF LoopPhase
<1>4. ASSUME NEW s \in SkippedReason, NEW e \in BOOLEAN
      PROVE  /\ CloseOf(a, s, e, "loop") \in Request /\ CloseOf(a, s, e, "loop").kind = "close"
             /\ CloseOf(a, s, e, "loop").alert = a /\ CloseOf(a, s, e, "loop").by = "loop"
  BY DEF CloseOf, Request, CloseRequest
<1>5. ASSUME NEW k \in {"begin", "sent", "failure"}
      PROVE  [kind |-> k, alert |-> a] \in Request
  BY DEF Request, AttemptRequest
<1>6. {"ALERT_DELETED", "ALERT_DISABLED", "null"} \subseteq SkippedReason
  BY DEF SkippedReason
<1>7. CASE AlertIsGone(a) \/ PlatformIsMissing(a) \/ GiveUp(a)
  <2>1. \E s \in SkippedReason, e \in BOOLEAN : Enqueue(CloseOf(a, s, e, "loop"))
    BY <1>6, <1>7 DEF AlertIsGone, PlatformIsMissing, GiveUp
  <2>2. PICK r \in Request : Enqueue(r) /\ r.kind = "close" /\ r.alert = a /\ r.by = "loop"
    BY <1>4, <2>1
  <2>3. Goto(a, "closing") /\ UNCHANGED <<recovery, received, lostAnswers>>
        /\ loop[a].at \in {"check", "delay"}
    BY <1>7 DEF AlertIsGone, PlatformIsMissing, GiveUp
  <2>4. loop'[a].at = "closing" /\ \A b \in AlertIds \ {a} : loop'[b] = loop[b]
    BY <1>3, <2>3, LoopMoved
  <2>5. r.kind \in SettlingKinds /\ ByLoop(r) /\ Awaits[r.kind] = "closing" /\ r.kind # "sent"
    BY <2>2 DEF SettlingKinds, ByLoop, Awaits
  <2> QED
    BY <1>1, <2>2, <2>3, <2>4, <2>5
<1>8. ASSUME NEW k \in {"begin", "sent", "failure"}, NEW at \in LoopPhase,
             Enqueue([kind |-> k, alert |-> a]), Goto(a, at), at = Awaits[k]
      PROVE  /\ \E r \in Request : /\ Enqueue(r) /\ r.kind \in SettlingKinds /\ r.alert = a
                                   /\ ByLoop(r) /\ loop'[a].at = Awaits[r.kind]
                                   /\ r.kind = k
             /\ loop'[a].at = at /\ \A b \in AlertIds \ {a} : loop'[b] = loop[b]
  <2> DEFINE r == [kind |-> k, alert |-> a]
  <2>1. r \in Request /\ r.kind = k /\ r.alert = a /\ Enqueue(r)
    BY <1>5, <1>8
  <2>2. loop'[a].at = at /\ \A b \in AlertIds \ {a} : loop'[b] = loop[b]
    BY <1>8, LoopMoved
  <2>3. k \in SettlingKinds /\ ByLoop(r)
    BY DEF SettlingKinds, ByLoop, LoopKinds
  <2> HIDE DEF r
  <2> QED
    BY <1>8, <2>1, <2>2, <2>3
<1>9. CASE StartAttempt(a)
  <2>1. Enqueue([kind |-> "begin", alert |-> a]) /\ Goto(a, "starting") /\ loop[a].at = "check"
        /\ UNCHANGED <<recovery, received, lostAnswers>>
    BY <1>9 DEF StartAttempt
  <2> QED
    BY <1>1, <1>3, <1>8, <2>1 DEF Awaits
<1>10. CASE SendSucceeds(a)
  <2>1. Enqueue([kind |-> "sent", alert |-> a]) /\ Goto(a, "marking") /\ loop[a].at = "accepted"
        /\ UNCHANGED <<recovery, received, lostAnswers>>
    BY <1>10 DEF SendSucceeds
  <2> QED
    BY <1>1, <1>3, <1>8, <2>1 DEF Awaits
<1>11. CASE SendFails(a) \/ AnswerIsLost(a)
  <2>1. Enqueue([kind |-> "failure", alert |-> a]) /\ Goto(a, "failing")
        /\ UNCHANGED <<recovery, received>>
        /\ \/ loop[a].at = "sending" /\ UNCHANGED lostAnswers
           \/ loop[a].at = "accepted" /\ lostAnswers' = lostAnswers + 1
    BY <1>11 DEF SendFails, AnswerIsLost
  <2>2. loop[a].at \in {"sending", "accepted"}
    BY <2>1
  <2> QED
    BY <1>1, <1>3, <1>8, <2>1, <2>2 DEF Awaits
<1>12. CASE PlatformAccepts(a)
  <2>1. loop'[a].at = "accepted" /\ \A b \in AlertIds \ {a} : loop'[b] = loop[b]
    BY <1>3, <1>12, LoopMoved DEF PlatformAccepts
  <2> QED
    BY <1>1, <1>2, <1>12, <2>1 DEF PlatformAccepts
<1>13. CASE Retry(a)
  <2>1. loop'[a].at = "check" /\ \A b \in AlertIds \ {a} : loop'[b] = loop[b]
    BY <1>2, <1>13 DEF Retry, LoopMap
  <2> QED
    BY <1>1, <1>13, <2>1 DEF Retry
<1> QED
  BY <1>7, <1>9, <1>10, <1>11, <1>12, <1>13 DEF LoopStep

\* A loop steps only when its record is pending.
LEMMA LoopIsPending ==
  ASSUME TypeInv, HandsInv, NEW a \in AlertIds, LoopStep(a)
  PROVE  deliveries[a].status = "PENDING"
<1>1. loop[a].at \in {"check", "sending", "accepted", "delay"}
  BY DEF LoopStep, AlertIsGone, PlatformIsMissing, StartAttempt, PlatformAccepts, SendSucceeds,
     SendFails, AnswerIsLost, Retry, GiveUp
<1> QED
  BY <1>1, FreeLoop DEF HandsInv

LEMMA LoopHands ==
  ASSUME TypeInv, HandsInv, up, NEW a \in AlertIds, LoopStep(a), EngineUnchanged
  PROVE  HandsInv'
<1>1. deliveries[a].status = "PENDING" /\ Hand(a)
  BY LoopIsPending DEF HandsInv
<1>2. loop[a].at \in {"check", "sending", "accepted", "delay"}
  BY <1>1, LoopShape
<1>3. a \notin recovery.todo /\ ~ Reserving(a) /\ \A i \in DOMAIN chain : ~ Asks(i, a)
  BY <1>1, <1>2, FreeLoop
<1>4. UNCHANGED <<deliveries, link, recovery, up>> /\ \A b \in AlertIds \ {a} : loop'[b] = loop[b]
  BY <1>1, LoopShape DEF EngineUnchanged, engineVars
<1>5. UNCHANGED chain
      \/ \E r \in Request : /\ Enqueue(r) /\ r.kind \in SettlingKinds /\ r.alert = a
                            /\ ByLoop(r) /\ loop'[a].at = Awaits[r.kind]
  BY <1>1, LoopShape
<1>6. Hand(a)'
  <2>1. CASE UNCHANGED chain
    BY <1>1, <1>3, <1>4, <2>1, Moved
  <2>2. ASSUME NEW r \in Request, Enqueue(r), r.kind \in SettlingKinds, r.alert = a,
               ByLoop(r), loop'[a].at = Awaits[r.kind]
        PROVE  Hand(a)'
    BY <1>1, <1>3, <1>4, <2>2, Handed
  <2> QED
    BY <1>5, <2>1, <2>2
<1>7. ASSUME NEW b \in AlertIds \ {a} PROVE Hand(b)'
  <2>1. UNCHANGED <<chain, link>>
        \/ \E r \in Request : Enqueue(r) /\ UNCHANGED link /\ ~ (r.kind \in SettlingKinds /\ r.alert = b)
    BY <1>4, <1>5
  <2> QED
    BY <1>4, <2>1, Spared DEF HandsInv
<1> QED
  BY <1>4, <1>6, <1>7 DEF HandsInv, DownIsEmpty

LEMMA RecoveryHands ==
  ASSUME TypeInv, HandsInv, up, NEW a \in AlertIds, RecoveryStep(a), EngineUnchanged
  PROVE  HandsInv'
<1>1. /\ a \in recovery.todo /\ Hand(a)
      /\ UNCHANGED <<deliveries, link, up>>
  BY DEF HandsInv, RecoveryStep, RecoverUnknown, RecoverDispatch, MapsUnchanged, EngineUnchanged,
     engineVars
<1>2. /\ deliveries[a].status = "PENDING" /\ ~ Reserving(a) /\ loop[a].at = "none"
      /\ \A i \in DOMAIN chain : ~ Asks(i, a)
  BY <1>1 DEF Hand
<1>3. recovery'.todo = recovery.todo \ {a}
  <2>1. recovery \in [todo : SUBSET AlertIds, waiting : BOOLEAN]
    BY DEF TypeInv, TypeOK, NotificationTypeOK
  <2>2. \/ recovery' = [todo |-> recovery.todo \ {a}, waiting |-> TRUE]
        \/ recovery' = [recovery EXCEPT !.todo = @ \ {a}]
    BY DEF RecoveryStep, RecoverUnknown, RecoverDispatch
  <2> QED
    BY <2>1, <2>2
<1>4. CASE RecoverUnknown(a)
  <2>1. PICK r \in Request : /\ Enqueue(r) /\ r.kind \in SettlingKinds /\ r.alert = a
                             /\ ~ ByLoop(r)
    <3>1. CloseOf(a, "DELIVERY_OUTCOME_UNKNOWN", TRUE, "recovery") \in Request
      BY DEF CloseOf, Request, CloseRequest, SkippedReason
    <3> QED
      BY <1>4, <3>1 DEF RecoverUnknown, CloseOf, SettlingKinds, ByLoop, LoopKinds
  <2>2. UNCHANGED loop
    BY <1>4 DEF RecoverUnknown
  <2>3. Hand(a)'
    BY <1>1, <1>2, <1>3, <2>1, <2>2, Handed
  <2>4. ASSUME NEW b \in AlertIds \ {a} PROVE Hand(b)'
    BY <1>1, <1>3, <2>1, <2>2, Spared DEF HandsInv
  <2> QED
    BY <1>1, <2>3, <2>4 DEF HandsInv, DownIsEmpty
<1>5. CASE RecoverDispatch(a)
  <2>1. UNCHANGED chain /\ \A b \in AlertIds \ {a} : loop'[b] = loop[b]
    BY <1>5 DEF RecoverDispatch, Dispatched, TypeInv, TypeOK, NotificationTypeOK
  <2>2. Hand(a)'
    BY <1>1, <1>2, <1>3, <2>1, Moved
  <2>3. ASSUME NEW b \in AlertIds \ {a} PROVE Hand(b)'
    BY <1>1, <1>3, <2>1, Spared DEF HandsInv
  <2> QED
    BY <1>1, <2>2, <2>3 DEF HandsInv, DownIsEmpty
<1> QED
  BY <1>4, <1>5 DEF RecoveryStep

LEMMA AppliedHands ==
  ASSUME TypeInv, HandsInv, up, LinkApplied
  PROVE  HandsInv'
<1> PICK r : r = Head(chain)
  OBVIOUS
<1>1. /\ Operate(r) /\ link = "idle" /\ link' = "writing" /\ chain # <<>>
      /\ UNCHANGED <<chain, loop, recovery, up>>
  BY DEF LinkApplied, Applied, LinkIsDue, notificationVars, engineVars
<1>2. r \in Request /\ 1 \in DOMAIN chain /\ r = chain[1]
  BY <1>1, ShorterChain
<1>3. MapsAreTyped
  BY DEF MapsAreTyped, AlertMap, DeliveryMap, TypeInv, TypeOK, StoreTypeOK
<1>4. ASSUME NEW a \in AlertIds PROVE Hand(a)'
  <2>0. Hand(a) /\ ~ Reserving(a)
    BY <1>1 DEF HandsInv, Reserving
  <2>1. CASE ~ (r.kind \in {"reserve", "begin", "sent", "failure", "close"} /\ r.alert = a)
    <3>1. deliveries'[a] = deliveries[a]
      BY <1>1, <1>2, <1>3, <2>1, OperateDeliveries
    <3> QED
      BY <1>1, <1>2, <2>0, <2>1, <3>1, Spared
  <2>2. CASE r.kind = "reserve" /\ r.alert = a
    <3>1. deliveries[a] = NoDelivery /\ deliveries'[a].status = "PENDING"
      BY <1>1, <1>2, <1>3, <2>2, OperateDeliveries
    <3>2. loop[a].at = "none" /\ a \notin recovery.todo /\ \A i \in DOMAIN chain : ~ Asks(i, a)
      BY <2>0, <3>1 DEF Hand, NoDelivery
    <3>3. \A i \in DOMAIN chain' : ~ Asks(i, a)'
      BY <1>1, <3>2 DEF Asks
    <3> QED
      BY <1>1, <3>1, <3>2, <3>3 DEF Hand
  <2>3. CASE r.kind \in SettlingKinds /\ r.alert = a
    <3>1. /\ Asks(1, a) /\ deliveries[a] # NoDelivery /\ a \notin recovery.todo
          /\ loop[a].at = IF ByLoop(chain[1]) THEN Awaits[chain[1].kind] ELSE "none"
          /\ \A j \in DOMAIN chain : Asks(j, a) => 1 = j
      BY <1>2, <2>0, <2>3 DEF Hand, Asks
    <3>2. deliveries[a].status = "PENDING"
      BY <1>1, <1>2, <2>0, <3>1, DeliveryStatus DEF Hand
    <3>3. deliveries'[a].status = CASE r.kind \in {"begin", "failure"} -> "PENDING"
                                    [] r.kind = "sent" -> "SENT"
                                    [] OTHER -> "FAILED"
      BY <1>1, <1>2, <1>3, <2>3, <3>2, OperateDeliveries DEF SettlingKinds
    <3>4. deliveries'[a] # NoDelivery
      BY <3>3 DEF NoDelivery
    <3>5. ~ Reserving(a)'
      BY <1>1, <1>2, <2>3 DEF Reserving, SettlingKinds
    <3>6. \A i : Asks(i, a)' <=> Asks(i, a)
      BY <1>1 DEF Asks
    <3>7. r.kind \in {"begin", "failure"} \/ loop[a].at \in {"none", "marking", "closing"}
      BY <1>2, <2>3, <3>1 DEF SettlingKinds, Awaits
    <3>8. deliveries'[a].status \in {"SENT", "FAILED"} => r.kind \in {"sent", "close"}
      BY <2>3, <3>3 DEF SettlingKinds
    <3> QED
      BY <1>1, <1>2, <3>1, <3>4, <3>5, <3>6, <3>7, <3>8 DEF Hand
  <2> QED
    BY <2>1, <2>2, <2>3 DEF SettlingKinds
<1> QED
  BY <1>1, <1>4 DEF HandsInv, DownIsEmpty

\* Where the caller of the head goes on.
LEMMA ResumedLoop ==
  ASSUME TypeInv, NEW r \in Request, NEW accepted \in BOOLEAN, Resume(r, accepted), NEW a \in AlertIds
  PROVE  /\ recovery'.todo = recovery.todo
         /\ ~ (r.kind \in SettlingKinds \cup {"reserve"} /\ r.alert = a) => loop'[a] = loop[a]
         /\ r.kind \in SettlingKinds /\ r.alert = a =>
              loop'[a].at = IF ByLoop(r) THEN NextPhase(r, accepted) ELSE loop[a].at
         /\ r.kind = "reserve" /\ r.alert = a =>
              IF accepted THEN loop'[a].at = "check" ELSE loop'[a] = loop[a]
<1>1. loop \in LoopMap /\ recovery \in [todo : SUBSET AlertIds, waiting : BOOLEAN]
  BY DEF TypeInv, TypeOK, NotificationTypeOK, LoopMap
<1>2. recovery'.todo = recovery.todo
  <2>1. recovery' = recovery \/ recovery' = [recovery EXCEPT !.waiting = FALSE]
    BY DEF Resume, Answered
  <2> QED
    BY <1>1, <2>1
<1>3. CASE ByLoop(r)
  <2>1. loop' = [loop EXCEPT ![r.alert] =
                   IF NextPhase(r, accepted) = "none" THEN NoLoop
                   ELSE [@ EXCEPT !.at = NextPhase(r, accepted)]]
    BY <1>3 DEF ByLoop, Resume, Answered
  <2>2. r.kind \in SettlingKinds
    BY <1>3 DEF ByLoop, SettlingKinds, LoopKinds
  <2>3. r.alert # a => loop'[a] = loop[a]
    BY <1>1, <2>1 DEF LoopMap
  <2>4. CASE r.alert = a /\ NextPhase(r, accepted) = "none"
    BY <1>1, <1>2, <1>3, <2>1, <2>2, <2>4 DEF LoopMap, NoLoop, SettlingKinds
  <2>5. CASE r.alert = a /\ NextPhase(r, accepted) # "none"
    <3>1. loop' = [loop EXCEPT ![a] = [@ EXCEPT !.at = NextPhase(r, accepted)]]
      BY <2>1, <2>5
    <3>2. loop'[a].at = NextPhase(r, accepted)
      BY <1>1, <3>1 DEF LoopMap
    <3> QED
      BY <1>2, <1>3, <2>2, <2>5, <3>2 DEF SettlingKinds
  <2> QED
    BY <1>2, <2>2, <2>3, <2>4, <2>5 DEF SettlingKinds
<1>4. CASE ~ ByLoop(r)
  <2>1. loop' = IF r.kind = "reserve" /\ accepted THEN Dispatched(loop, r.alert) ELSE loop
    BY <1>4 DEF ByLoop, Resume, Answered
  <2> QED
    BY <1>1, <1>2, <1>4, <2>1 DEF SettlingKinds, Dispatched, LoopMap
<1> QED
  BY <1>3, <1>4

LEMMA WrittenHands ==
  ASSUME TypeInv, HandsInv, up, LinkRefused \/ LinkWritten
  PROVE  HandsInv'
<1>1. /\ chain # <<>> /\ chain' = Tail(chain) /\ link' = "idle" /\ UNCHANGED <<deliveries, up>>
      /\ LinkRefused => link = "idle" /\ ~ Accepts(Head(chain))
      /\ LinkWritten => link = "writing"
  BY DEF LinkRefused, LinkWritten, Refused, Written, LinkIsDue, Resume, TypeInv
<1> PICK r : r = Head(chain)
  OBVIOUS
<1> PICK accepted \in BOOLEAN : Resume(r, accepted) /\ (link = "idle" => accepted = FALSE)
  <2>1. CASE LinkRefused
    BY <2>1 DEF LinkRefused
  <2>2. CASE LinkWritten
    BY <1>1, <2>2 DEF LinkWritten
  <2> QED
    BY <2>1, <2>2
<1>2. r \in Request /\ 1 \in DOMAIN chain /\ r = chain[1]
  BY <1>1, ShorterChain
<1>3. ASSUME NEW a \in AlertIds PROVE Hand(a)'
  <2>0. Hand(a)
    BY DEF HandsInv
  <2>1. CASE ~ (r.kind \in SettlingKinds \cup {"reserve"} /\ r.alert = a)
    <3>1. ~ Asks(1, a) /\ loop'[a] = loop[a] /\ recovery'.todo = recovery.todo
      BY <1>2, <2>1, ResumedLoop DEF Asks, SettlingKinds
    <3> QED
      BY <1>1, <2>0, <3>1, Spared
  <2>2. CASE r.kind = "reserve" /\ r.alert = a
    <3>1. ~ Asks(1, a)
      BY <1>2, <2>2 DEF Asks, SettlingKinds
    <3>2. CASE link = "idle"
      <4>1. ~ accepted
        BY <1>1, <3>2
      <4>2. loop'[a] = loop[a] /\ recovery'.todo = recovery.todo
        BY <1>2, <2>2, <4>1, ResumedLoop
      <4> QED
        BY <1>1, <2>0, <3>1, <4>2, Spared
    <3>3. CASE link = "writing"
      <4>1. Reserving(a)
        BY <1>2, <2>2, <3>3 DEF Reserving
      <4>2. /\ deliveries[a].status = "PENDING" /\ deliveries[a] # NoDelivery
            /\ loop[a].at = "none" /\ a \notin recovery.todo
            /\ \A i \in DOMAIN chain : ~ Asks(i, a)
        BY <2>0, <4>1, DeliveryStatus DEF Hand
      <4>3. \A i \in DOMAIN chain' : ~ Asks(i, a)'
        BY <1>1, <4>2, ShorterChain DEF Asks
      <4>4. recovery'.todo = recovery.todo
        BY <1>2, ResumedLoop
      <4>5. ~ Reserving(a)'
        BY <1>1 DEF Reserving
      <4> QED
        BY <1>1, <4>2, <4>3, <4>4, <4>5 DEF Hand
    <3> QED
      BY <3>2, <3>3 DEF TypeInv, TypeOK, StoreTypeOK
  <2>3. CASE r.kind \in SettlingKinds /\ r.alert = a
    <3>1. /\ Asks(1, a) /\ deliveries[a] # NoDelivery /\ a \notin recovery.todo
          /\ loop[a].at = IF ByLoop(r) THEN Awaits[r.kind] ELSE "none"
          /\ \A j \in DOMAIN chain : Asks(j, a) => 1 = j
      BY <1>2, <2>0, <2>3 DEF Hand, Asks
    <3>2. \A i \in DOMAIN chain' : ~ Asks(i, a)'
      <4> SUFFICES ASSUME NEW i \in DOMAIN chain', Asks(i, a)' PROVE FALSE
        OBVIOUS
      <4>1. i + 1 \in DOMAIN chain /\ Asks(i + 1, a) /\ i \in Nat /\ i > 0
        BY <1>1, ShorterChain DEF Asks
      <4> QED
        BY <3>1, <4>1
    <3>3. ~ Reserving(a)'
      BY <1>1 DEF Reserving
    <3>4. recovery'.todo = recovery.todo
          /\ loop'[a].at = IF ByLoop(r) THEN NextPhase(r, accepted) ELSE "none"
      BY <1>2, <2>3, <3>1, ResumedLoop
    <3>5. deliveries[a].status \in {"SENT", "FAILED"} => loop'[a].at = "none"
      <4> SUFFICES ASSUME deliveries[a].status \in {"SENT", "FAILED"} PROVE loop'[a].at = "none"
        OBVIOUS
      <4>1. r.kind \in {"sent", "close"}
        BY <1>2, <2>0, <3>1 DEF Hand
      <4> QED
        BY <3>4, <4>1 DEF NextPhase
    <3> QED
      BY <1>1, <3>1, <3>2, <3>3, <3>4, <3>5 DEF Hand
  <2> QED
    BY <2>1, <2>2, <2>3
<1> QED
  BY <1>1, <1>3 DEF HandsInv, DownIsEmpty

\* A crash lets go of everything; a restart takes up what is pending.
LEMMA CrashHands ==
  ASSUME TypeInv, HandsInv, Crash \/ Restart
  PROVE  HandsInv'
<1>1. CASE Crash
  BY <1>1 DEF Crash, HandsInv, DownIsEmpty, Hand, Reserving, Asks, NoLoop, NoRecovery
<1>2. CASE Restart
  <2>1. /\ chain = <<>> /\ link = "idle" /\ \A a \in AlertIds : loop[a].at = "none"
        /\ UNCHANGED <<chain, link, loop, deliveries>> /\ up'
        /\ recovery'.todo = {a \in AlertIds : deliveries[a].status = "PENDING"}
    BY <1>2 DEF Restart, storeVars, HandsInv, DownIsEmpty
  <2>2. ASSUME NEW a \in AlertIds PROVE Hand(a)'
    BY <2>1 DEF Hand, Reserving
  <2> QED
    BY <2>1, <2>2 DEF HandsInv, DownIsEmpty
<1> QED
  BY <1>1, <1>2

LEMMA UserShape ==
  ASSUME TypeInv, UserStep, UNCHANGED <<notificationVars, engineVars>>
  PROVE  /\ UNCHANGED <<alerts, deliveries, disk, link, drawn, writeFailures, notificationVars,
                        up, crashes>>
         /\ UNCHANGED chain \/ \E r \in Request : Enqueue(r) /\ r.kind \notin SettlingKinds
<1>1. chain' \in Seq(Request) /\ chain \in Seq(Request)
  BY UserTypes DEF TypeInv, TypeOK, StoreTypeOK
<1>2. UNCHANGED <<alerts, deliveries, disk, link, drawn, writeFailures>>
  BY DEF UserStep, GrantBonus, AskCreate, AskEnable, AskDisable, AskEdit, AskRemove, Ask, storeVars
<1>3. UNCHANGED chain \/ \E r : Enqueue(r) /\ r.kind \in {"create", "enable", "disable", "edit", "remove"}
  <2>0. ASSUME NEW kind \in {"create", "enable", "disable", "edit", "remove"}, NEW q,
               q.kind = kind, Ask(kind, q)
        PROVE  \E r : Enqueue(r) /\ r.kind \in {"create", "enable", "disable", "edit", "remove"}
    BY <2>0 DEF Ask
  <2>1. ASSUME NEW u \in Users, NEW c \in Condition, AskCreate(u, c)
        PROVE  \E r : Enqueue(r) /\ r.kind \in {"create", "enable", "disable", "edit", "remove"}
    BY <2>0, <2>1 DEF AskCreate
  <2>2. ASSUME NEW u \in Users, NEW a \in AlertIds,
               \/ AskEnable(u, a) \/ AskDisable(u, a) \/ AskRemove(u, a)
               \/ \E target \in PriceTargets \cup PercentTargets : AskEdit(u, a, target)
        PROVE  \E r : Enqueue(r) /\ r.kind \in {"create", "enable", "disable", "edit", "remove"}
    <3>1. CASE AskEnable(u, a)
      BY <2>0, <3>1 DEF AskEnable
    <3>2. CASE AskDisable(u, a) \/ AskRemove(u, a)
      BY <2>0, <3>2 DEF AskDisable, AskRemove
    <3>3. ASSUME NEW target \in PriceTargets \cup PercentTargets, AskEdit(u, a, target)
          PROVE  \E r : Enqueue(r) /\ r.kind \in {"create", "enable", "disable", "edit", "remove"}
      BY <2>0, <3>3 DEF AskEdit
    <3> QED
      BY <2>2, <3>1, <3>2, <3>3
  <2>3. ASSUME NEW u \in Users, GrantBonus(u) PROVE UNCHANGED chain
    BY <2>3 DEF GrantBonus, storeVars
  <2> QED
    BY <2>1, <2>2, <2>3 DEF UserStep
<1>4. ASSUME NEW r, Enqueue(r) PROVE r \in Request
  <2>1. chain'[Len(chain) + 1] = r /\ Len(chain) + 1 \in DOMAIN chain'
    BY <1>1, <1>4 DEF Enqueue
  <2> QED
    BY <1>1, <2>1
<1> QED
  BY <1>2, <1>3, <1>4 DEF engineVars, SettlingKinds

LEMMA EngineShape ==
  ASSUME TypeInv, MarketCommits \/ EngineStep
  PROVE  /\ UNCHANGED <<alerts, deliveries, disk, link, drawn, writeFailures, notificationVars,
                        up, crashes>>
         /\ UNCHANGED chain \/ \E r \in Request : Enqueue(r) /\ r.kind \notin SettlingKinds
<1>1. CASE MarketCommits
  BY <1>1 DEF MarketCommits, storeVars
<1>2. ASSUME NEW a \in AlertIds, Reserve(a)
      PROVE  /\ UNCHANGED <<alerts, deliveries, disk, link, drawn, writeFailures, notificationVars,
                            up, crashes>>
             /\ \E r \in Request : Enqueue(r) /\ r.kind \notin SettlingKinds
  <2>1. engine.price \in Nat
    BY AlertEngineAssumption DEF TypeInv, TypeOK, Evaluation, AlertEngineAssumption
  <2>2. [kind |-> "reserve", alert |-> a, price |-> engine.price] \in Request
    BY <2>1 DEF Request, ReserveRequest
  <2> QED
    BY <1>2, <2>2 DEF Reserve, MapsUnchanged, SettlingKinds
<1>3. CASE SymbolIsDone \/ \E obs \in events : EvaluateSymbol(obs)
  BY <1>3 DEF SymbolIsDone, EvaluateSymbol, storeVars
<1> QED
  BY <1>1, <1>2, <1>3 DEF EngineStep

LEMMA RecoveryShape ==
  ASSUME TypeInv, NEW a \in AlertIds, RecoveryStep(a), EngineUnchanged
  PROVE  /\ UNCHANGED <<alerts, deliveries, disk, link, drawn, writeFailures, received,
                        lostAnswers, up, crashes>>
         /\ a \in recovery.todo /\ recovery'.todo \subseteq recovery.todo
         /\ \A b \in AlertIds \ {a} : loop'[b] = loop[b]
         /\ UNCHANGED chain \/ \E r \in Request : Enqueue(r)
<1>1. recovery \in [todo : SUBSET AlertIds, waiting : BOOLEAN] /\ loop \in LoopMap
  BY DEF TypeInv, TypeOK, NotificationTypeOK, LoopMap
<1>2. recovery'.todo \subseteq recovery.todo
  <2>1. \/ recovery' = [todo |-> recovery.todo \ {a}, waiting |-> TRUE]
        \/ recovery' = [recovery EXCEPT !.todo = @ \ {a}]
    BY DEF RecoveryStep, RecoverUnknown, RecoverDispatch
  <2> QED
    BY <1>1, <2>1
<1>3. CloseOf(a, "DELIVERY_OUTCOME_UNKNOWN", TRUE, "recovery") \in Request
  BY DEF CloseOf, Request, CloseRequest, SkippedReason
<1>4. UNCHANGED chain \/ \E r \in Request : Enqueue(r)
  BY <1>3 DEF RecoveryStep, RecoverUnknown, RecoverDispatch
<1>5. \A b \in AlertIds \ {a} : loop'[b] = loop[b]
  BY <1>1 DEF RecoveryStep, RecoverUnknown, RecoverDispatch, Dispatched, LoopMap
<1> QED
  BY <1>2, <1>4, <1>5
  DEF RecoveryStep, RecoverUnknown, RecoverDispatch, MapsUnchanged, EngineUnchanged, engineVars

\* What waits in the chain does not change the head.
LEMMA SameReserving ==
  ASSUME TypeInv, UNCHANGED link, UNCHANGED chain \/ \E r \in Request : Enqueue(r), NEW a
  PROVE  Reserving(a)' <=> Reserving(a)
BY AppendedChain DEF Reserving

\* Every step keeps each delivery in one hand.
LEMMA HandsStep == TypeInv /\ HandsInv /\ [Next]_vars => HandsInv'
<1> SUFFICES ASSUME TypeInv, HandsInv, [Next]_vars PROVE HandsInv'
  OBVIOUS
<1>1. CASE up /\ UserStep /\ UNCHANGED <<notificationVars, engineVars>>
  BY <1>1, UserShape, QuietHands DEF notificationVars
<1>2. CASE up /\ (MarketCommits \/ EngineStep)
  BY <1>2, EngineShape, QuietHands DEF notificationVars
<1>3. CASE up /\ LinkStep
  BY <1>3, AppliedHands, WrittenHands DEF LinkStep
<1>4. ASSUME up, NEW a \in AlertIds, LoopStep(a) /\ EngineUnchanged PROVE HandsInv'
  BY <1>4, LoopHands
<1>5. ASSUME up, NEW a \in AlertIds, RecoveryStep(a) /\ EngineUnchanged PROVE HandsInv'
  BY <1>5, RecoveryHands
<1>6. CASE Crash \/ Restart
  BY <1>6, CrashHands
<1>7. CASE UNCHANGED vars
  BY <1>7 DEF vars, storeVars, notificationVars, engineVars, HandsInv, DownIsEmpty, Hand,
     Reserving, Asks
<1> QED
  BY <1>1, <1>2, <1>3, <1>4, <1>5, <1>6, <1>7 DEF Next, RunningStep

\* The file is replaced by the memory as a whole, or not at all.
LEMMA DiskShape ==
  ASSUME [Next]_vars
  PROVE  \/ UNCHANGED <<disk, writeFailures>>
         \/ LinkWritten /\ disk' = Snapshot /\ UNCHANGED writeFailures
         \/ LinkWritten /\ UNCHANGED disk /\ writeFailures' = writeFailures + 1
<1>1. CASE UserStep
  BY <1>1 DEF UserStep, GrantBonus, AskCreate, AskEnable, AskDisable, AskEdit, AskRemove, Ask,
     storeVars
<1>2. CASE MarketCommits \/ EngineStep
  BY <1>2 DEF MarketCommits, EngineStep, EvaluateSymbol, Reserve, SymbolIsDone, storeVars,
     MapsUnchanged
<1>3. CASE LinkStep
  BY <1>3 DEF LinkStep, LinkApplied, LinkRefused, LinkWritten, Applied, Refused, Written
<1>4. CASE \E a \in AlertIds : LoopStep(a) \/ RecoveryStep(a)
  BY <1>4 DEF LoopStep, RecoveryStep, MapsUnchanged
<1>5. CASE Crash \/ Restart \/ UNCHANGED vars
  BY <1>5 DEF Crash, Restart, vars, storeVars
<1> QED
  BY <1>1, <1>2, <1>3, <1>4, <1>5 DEF Next, RunningStep

\* Messages and their explanations.
LEMMA ExplainedStep ==
  ASSUME TypeInv, HandsInv, [Next]_vars, NEW a \in AlertIds, Explained(a)
  PROVE  Explained(a)'
<1>0. received \in [AlertIds -> Nat] /\ crashes \in Nat /\ lostAnswers \in Nat /\ Hand(a)
  BY AlertEngineAssumption, AlertNotificationAssumption
  DEF TypeInv, TypeOK, NotificationTypeOK, HandsInv, AlertEngineAssumption,
      AlertNotificationAssumption
<1>1. ASSUME UNCHANGED <<received, crashes, lostAnswers>>, MaySend(a)' => MaySend(a)
      PROVE  Explained(a)'
  BY <1>0, <1>1 DEF Explained
<1>2. ASSUME UNCHANGED <<deliveries, link, notificationVars, up, crashes>>,
             UNCHANGED chain \/ \E r \in Request : Enqueue(r)
      PROVE  Explained(a)'
  BY <1>1, <1>2, SameReserving DEF notificationVars, MaySend
<1>3. CASE up /\ UserStep /\ UNCHANGED <<notificationVars, engineVars>>
  BY <1>2, <1>3, UserShape
<1>4. CASE up /\ (MarketCommits \/ EngineStep)
  BY <1>2, <1>4, EngineShape
<1>5. ASSUME up, NEW b \in AlertIds, LoopStep(b), EngineUnchanged PROVE Explained(a)'
  <2>1. deliveries[b].status = "PENDING" /\ Hand(b)
    BY <1>5, LoopIsPending DEF HandsInv
  <2>2. loop[b].at \in {"check", "sending", "accepted", "delay"}
    BY <1>5, <2>1, LoopShape
  <2>3. b \notin recovery.todo /\ ~ Reserving(b) /\ deliveries[b] # NoDelivery
    BY <2>1, <2>2, FreeLoop, DeliveryStatus
  <2>4. UNCHANGED <<deliveries, link, recovery, up, crashes>>
    BY <1>5, <2>1, LoopShape DEF EngineUnchanged, engineVars
  <2>5. UNCHANGED chain \/ \E r \in Request : Enqueue(r)
    BY <1>5, <2>1, LoopShape
  <2>6. Reserving(a)' <=> Reserving(a)
    BY <2>4, <2>5, SameReserving
  <2>7. CASE a # b
    <3>1. UNCHANGED lostAnswers \/ lostAnswers' = lostAnswers + 1
      BY <1>5, <2>1, LoopShape
    <3>2. loop'[a] = loop[a] /\ received'[a] = received[a]
      BY <1>5, <2>1, <2>7, LoopShape
    <3>3. MaySend(a)' <=> MaySend(a)
      BY <2>4, <2>6, <3>2 DEF MaySend
    <3> QED
      BY <1>0, <2>4, <3>1, <3>2, <3>3 DEF Explained
  <2>8. CASE a = b
    <3>1. MaySend(a) <=> loop[a].at # "accepted"
      BY <1>5, <2>2, <2>3, <2>8 DEF MaySend
    <3>2. CASE loop[a].at = "delay" /\ UNCHANGED <<lostAnswers, received>>
      BY <1>1, <2>4, <3>1, <3>2
    <3>3. CASE loop[a].at = "sending" /\ loop'[a].at = "accepted" /\ received'[a] = received[a] + 1
               /\ UNCHANGED lostAnswers
      <4>1. ~ MaySend(a)'
        BY <1>5, <2>3, <2>4, <2>6, <2>8, <3>3 DEF MaySend
      <4> QED
        BY <1>0, <2>4, <3>1, <3>3, <4>1 DEF Explained
    <3>4. CASE UNCHANGED received /\ lostAnswers' = lostAnswers + 1
      BY <1>0, <2>4, <3>4 DEF Explained
    <3>5. CASE UNCHANGED <<received, lostAnswers>> /\ loop[a].at # "accepted"
      BY <1>1, <2>4, <3>1, <3>5
    <3>6. CASE UNCHANGED <<received, lostAnswers>> /\ loop'[a].at = "marking"
      <4>1. ~ MaySend(a)'
        BY <1>5, <2>3, <2>4, <2>6, <2>8, <3>6 DEF MaySend
      <4> QED
        BY <1>1, <2>4, <3>6, <4>1
    <3> QED
      BY <1>5, <2>1, <2>8, <3>2, <3>3, <3>4, <3>5, <3>6, LoopShape
  <2> QED
    BY <2>7, <2>8
<1>6. ASSUME up, NEW b \in AlertIds, RecoveryStep(b), EngineUnchanged PROVE Explained(a)'
  <2>1. Reserving(a)' <=> Reserving(a)
    BY <1>6, RecoveryShape, SameReserving
  <2>2. MaySend(a)' => MaySend(a)
    BY <1>6, <2>1, RecoveryShape DEF MaySend
  <2> QED
    BY <1>1, <1>6, <2>2, RecoveryShape
<1>7. CASE LinkApplied
  <2> PICK r : r = Head(chain)
    OBVIOUS
  <2>1. /\ Operate(r) /\ link = "idle" /\ link' = "writing" /\ chain # <<>>
        /\ UNCHANGED <<chain, loop, recovery, received, lostAnswers, up, crashes>>
    BY <1>7 DEF LinkApplied, Applied, LinkIsDue, notificationVars, engineVars
  <2>2. r \in Request /\ r = chain[1]
    BY <2>1, ShorterChain
  <2>3. MapsAreTyped
    BY DEF MapsAreTyped, AlertMap, DeliveryMap, TypeInv, TypeOK, StoreTypeOK
  <2>4. Reserving(a)' => deliveries[a] = NoDelivery
    BY <2>1, <2>2, <2>3, OperateDeliveries DEF Reserving
  <2>5. deliveries'[a] = NoDelivery => deliveries[a] = NoDelivery
    <3> SUFFICES ASSUME deliveries'[a] = NoDelivery PROVE deliveries[a] = NoDelivery
      OBVIOUS
    <3>1. deliveries'[a].status \notin {"PENDING", "SENT", "FAILED"}
      BY DEF NoDelivery
    <3>2. CASE r.kind = "failure" /\ r.alert = a
      BY <2>1, <2>2, <2>3, <3>1, <3>2, OperateDeliveries, DeliveryStatus
    <3> QED
      BY <2>1, <2>2, <2>3, <3>1, <3>2, OperateDeliveries
  <2> QED
    BY <1>1, <2>1, <2>4, <2>5 DEF MaySend
<1>8. CASE LinkRefused \/ LinkWritten
  <2>1. /\ chain # <<>> /\ chain' = Tail(chain) /\ link' = "idle"
        /\ UNCHANGED <<deliveries, received, lostAnswers, up, crashes>>
        /\ LinkRefused => link = "idle"
    BY <1>8 DEF LinkRefused, LinkWritten, Refused, Written, LinkIsDue, Resume, Answered, TypeInv
  <2> PICK r : r = Head(chain)
    OBVIOUS
  <2> PICK accepted \in BOOLEAN : Resume(r, accepted) /\ (accepted => link = "writing")
    <3>1. CASE LinkRefused
      BY <3>1 DEF LinkRefused
    <3>2. CASE LinkWritten
      BY <3>2 DEF LinkWritten, Written
    <3> QED
      BY <1>8, <3>1, <3>2
  <2>2. r \in Request /\ 1 \in DOMAIN chain /\ r = chain[1]
    BY <2>1, ShorterChain
  <2>3. ~ Reserving(a)' /\ recovery'.todo = recovery.todo
    BY <2>1, <2>2, ResumedLoop DEF Reserving
  <2>4. loop'[a].at \in {"check", "starting", "sending", "failing", "delay"} => MaySend(a)
    <3>1. CASE ~ (r.kind \in SettlingKinds \cup {"reserve"} /\ r.alert = a)
      <4>1. loop'[a] = loop[a]
        BY <2>2, <3>1, ResumedLoop
      <4> QED
        BY <4>1 DEF MaySend
    <3>2. CASE r.kind = "reserve" /\ r.alert = a
      <4>1. accepted => Reserving(a)
        BY <2>2, <3>2 DEF Reserving
      <4>2. ~ accepted => loop'[a] = loop[a]
        BY <2>2, <3>2, ResumedLoop
      <4> QED
        BY <4>1, <4>2 DEF MaySend
    <3>3. CASE r.kind \in SettlingKinds /\ r.alert = a
      <4>1. loop[a].at = IF ByLoop(r) THEN Awaits[r.kind] ELSE "none"
        BY <1>0, <2>2, <3>3 DEF Hand, Asks
      <4>2. loop'[a].at = IF ByLoop(r) THEN NextPhase(r, accepted) ELSE loop[a].at
        BY <2>2, <3>3, ResumedLoop
      <4>3. r.kind \in {"sent", "close"} => NextPhase(r, accepted) = "none"
        BY DEF NextPhase
      <4>4. Awaits.begin = "starting" /\ Awaits.failure = "failing"
        BY DEF Awaits
      <4> QED
        BY <3>3, <4>1, <4>2, <4>3, <4>4 DEF MaySend, SettlingKinds
    <3> QED
      BY <3>1, <3>2, <3>3
  <2>5. MaySend(a)' => MaySend(a)
    BY <2>1, <2>3, <2>4 DEF MaySend
  <2> QED
    BY <1>1, <2>1, <2>5
<1>9. CASE Crash
  <2>1. crashes' = crashes + 1 /\ UNCHANGED <<received, lostAnswers>>
    BY <1>9 DEF Crash
  <2> QED
    BY <1>0, <2>1 DEF Explained
<1>10. CASE Restart
  <2>1. UNCHANGED <<received, crashes, lostAnswers>> /\ MaySend(a)
    BY <1>10 DEF Restart, MaySend
  <2> QED
    BY <1>1, <2>1
<1>11. CASE UNCHANGED vars
  BY <1>2, <1>11 DEF vars, storeVars, notificationVars, engineVars
<1> QED
  BY <1>3, <1>4, <1>5, <1>6, <1>7, <1>8, <1>9, <1>10, <1>11 DEF Next, RunningStep, LinkStep

\* A step of a running process that does not change what the memory says of a delivery,
\* or one that settles or reserves it.
LEMMA OutcomeStep ==
  ASSUME TypeInv, HandsInv, DownIsFile, [Next]_vars, NEW a \in AlertIds, SavedOutcome(a)
  PROVE  SavedOutcome(a)'
<1>1. CASE LinkApplied
  <2> PICK r : r = Head(chain)
    OBVIOUS
  <2>1. Operate(r) /\ link = "idle" /\ chain # <<>> /\ UNCHANGED disk
    BY <1>1 DEF LinkApplied, Applied, LinkIsDue
  <2>2. r \in Request /\ 1 \in DOMAIN chain /\ r = chain[1]
    BY <2>1, ShorterChain
  <2>3. MapsAreTyped
    BY DEF MapsAreTyped, AlertMap, DeliveryMap, TypeInv, TypeOK, StoreTypeOK
  <2> SUFFICES ASSUME disk.deliveries[a].status \in {"SENT", "FAILED"}
               PROVE  deliveries'[a] = deliveries[a]
    BY <2>1 DEF SavedOutcome
  <2>4. deliveries[a].status \in {"SENT", "FAILED"}
    BY DEF SavedOutcome
  <2>5. ~ Asks(1, a)
    BY <2>1, <2>2, <2>4 DEF HandsInv, Hand
  <2>6. ~ (r.kind = "reserve" /\ r.alert = a)
    <3>1. deliveries[a] # NoDelivery
      BY <2>4, DeliveryStatus
    <3> QED
      BY <2>1, <2>2, <2>3, <3>1, OperateDeliveries
  <2> QED
    BY <2>1, <2>2, <2>3, <2>5, <2>6, OperateDeliveries DEF Asks, SettlingKinds
<1>2. ASSUME UNCHANGED deliveries, UNCHANGED disk \/ disk' = Snapshot PROVE SavedOutcome(a)'
  BY <1>2 DEF SavedOutcome, Snapshot
<1>3. CASE up /\ UserStep /\ UNCHANGED <<notificationVars, engineVars>>
  BY <1>2, <1>3, UserShape
<1>4. CASE up /\ (MarketCommits \/ EngineStep)
  BY <1>2, <1>4, EngineShape
<1>5. ASSUME NEW b \in AlertIds, LoopStep(b) \/ RecoveryStep(b) PROVE SavedOutcome(a)'
  BY <1>2, <1>5 DEF LoopStep, RecoveryStep, MapsUnchanged
<1>6. CASE LinkRefused \/ LinkWritten
  BY <1>2, <1>6 DEF LinkRefused, LinkWritten, Refused, Written
<1>7. CASE Crash
  BY <1>7 DEF Crash, SavedOutcome
<1>8. CASE Restart \/ UNCHANGED vars
  BY <1>2, <1>8 DEF Restart, vars, storeVars
<1> QED
  BY <1>1, <1>3, <1>4, <1>5, <1>6, <1>7, <1>8 DEF Next, RunningStep, LinkStep

LEMMA DownStep ==
  ASSUME DownIsFile, [Next]_vars
  PROVE  DownIsFile'
<1>1. CASE up /\ RunningStep
  <2>1. up'
    BY <1>1 DEF RunningStep, MarketCommits, EngineStep, EvaluateSymbol, Reserve, SymbolIsDone,
       LinkStep, LinkApplied, LinkRefused, LinkWritten, Resume, EngineUnchanged, engineVars
  <2> QED
    BY <2>1 DEF DownIsFile
<1>2. CASE Crash
  BY <1>2 DEF Crash, DownIsFile
<1>3. CASE Restart
  BY <1>3 DEF Restart, DownIsFile
<1>4. CASE UNCHANGED vars
  BY <1>4 DEF vars, storeVars, engineVars, DownIsFile
<1> QED
  BY <1>1, <1>2, <1>3, <1>4 DEF Next

LEMMA SavedFirstStep ==
  ASSUME StoreInv, HandsInv, DownIsFile, writeFailures = 0 => \A a \in AlertIds : SavedFirst(a),
         [Next]_vars, writeFailures' = 0, NEW a \in AlertIds
  PROVE  SavedFirst(a)'
<1>1. TypeInv /\ writeFailures \in Nat
  BY AlertStoreAssumption DEF StoreInv, TypeInv, TypeOK, StoreTypeOK, AlertStoreAssumption
<1>2. writeFailures = 0 /\ (UNCHANGED disk \/ disk' = Snapshot)
  BY <1>1, DiskShape
<1>3. SavedFirst(a) /\ Hand(a)
  BY <1>2 DEF HandsInv
\* What the file says of a fired alert stays.
<1>4. disk.alerts[a].status \in {"TRIGGERED", "DELETED"} =>
        disk'.alerts[a].status \in {"TRIGGERED", "DELETED"}
  BY <1>2 DEF StoreInv, Behind, Snapshot
<1>5. deliveries[a] # NoDelivery => alerts[a].status \in {"TRIGGERED", "DELETED"}
  BY DEF StoreInv, Safe, HasRecord
<1>6. disk.deliveries[a] # NoDelivery => disk.alerts[a].status \in {"TRIGGERED", "DELETED"}
  BY DEF StoreInv, Safe, HasRecord
<1>7. ASSUME received'[a] > 0 => received[a] > 0 \/ loop[a].at # "none" \/ a \in recovery.todo,
             loop'[a].at # "none" => received[a] > 0 \/ loop[a].at # "none" \/ a \in recovery.todo,
             a \in recovery'.todo => received[a] > 0 \/ loop[a].at # "none" \/ a \in recovery.todo
      PROVE  SavedFirst(a)'
  BY <1>3, <1>4, <1>7 DEF SavedFirst
<1>8. ASSUME UNCHANGED notificationVars PROVE SavedFirst(a)'
  BY <1>7, <1>8 DEF notificationVars
<1>9. CASE up /\ UserStep /\ UNCHANGED <<notificationVars, engineVars>>
  BY <1>8, <1>9
<1>10. CASE up /\ (MarketCommits \/ EngineStep)
  BY <1>1, <1>8, <1>10, EngineShape
<1>11. ASSUME NEW b \in AlertIds, LoopStep(b) PROVE SavedFirst(a)'
  <2>1. deliveries[b].status = "PENDING"
    BY <1>1, <1>11, LoopIsPending
  <2>2. loop[b].at # "none" /\ UNCHANGED recovery
        /\ (a # b => loop'[a] = loop[a] /\ received'[a] = received[a])
    BY <1>1, <1>11, <2>1, LoopShape
  <2> QED
    BY <1>7, <2>2
<1>12. ASSUME NEW b \in AlertIds, RecoveryStep(b), EngineUnchanged PROVE SavedFirst(a)'
  BY <1>1, <1>7, <1>12, RecoveryShape
<1>13. CASE LinkApplied
  BY <1>8, <1>13 DEF LinkApplied
<1>14. CASE LinkRefused \/ LinkWritten
  <2>1. /\ chain # <<>> /\ UNCHANGED received
        /\ LinkRefused => link = "idle"
    BY <1>1, <1>14 DEF LinkRefused, LinkWritten, Refused, Written, LinkIsDue, Resume, Answered, TypeInv
  <2> PICK r : r = Head(chain)
    OBVIOUS
  <2> PICK accepted \in BOOLEAN :
        Resume(r, accepted) /\ (accepted => link = "writing" /\ LinkWritten)
    <3>1. CASE LinkRefused
      BY <3>1 DEF LinkRefused
    <3>2. CASE LinkWritten
      BY <3>2 DEF LinkWritten, Written
    <3> QED
      BY <1>14, <3>1, <3>2
  <2>2. r \in Request /\ 1 \in DOMAIN chain /\ r = chain[1]
    BY <1>1, <2>1, ShorterChain
  <2>3. recovery'.todo = recovery.todo
    BY <1>1, <2>2, ResumedLoop
  <2>4. CASE ~ (r.kind \in SettlingKinds \cup {"reserve"} /\ r.alert = a)
    <3>1. loop'[a] = loop[a]
      BY <1>1, <2>2, <2>4, ResumedLoop
    <3> QED
      BY <1>7, <2>1, <2>3, <3>1
  <2>5. CASE r.kind = "reserve" /\ r.alert = a
    <3>1. CASE ~ accepted
      <4>1. loop'[a] = loop[a]
        BY <1>1, <2>2, <2>5, <3>1, ResumedLoop
      <4> QED
        BY <1>7, <2>1, <2>3, <4>1
    <3>2. CASE accepted
      <4>1. Reserving(a)
        BY <2>2, <2>5, <3>2 DEF Reserving
      <4>2. deliveries[a] # NoDelivery
        BY <1>1, <1>3, <4>1, DeliveryStatus DEF Hand
      <4>3. disk' = Snapshot
        BY <1>1, <3>2 DEF LinkWritten, Written
      <4> QED
        BY <1>5, <4>2, <4>3 DEF SavedFirst, Snapshot
    <3> QED
      BY <3>1, <3>2
  <2>6. CASE r.kind \in SettlingKinds /\ r.alert = a
    <3>1. loop'[a].at # "none" => loop[a].at # "none"
      <4>1. loop[a].at = IF ByLoop(r) THEN Awaits[r.kind] ELSE "none"
        BY <1>3, <2>2, <2>6 DEF Hand, Asks
      <4>2. loop'[a].at = IF ByLoop(r) THEN NextPhase(r, accepted) ELSE loop[a].at
        BY <1>1, <2>2, <2>6, ResumedLoop
      <4>3. \A k \in SettlingKinds : Awaits[k] # "none"
        BY DEF Awaits, SettlingKinds
      <4> QED
        BY <2>6, <4>1, <4>2, <4>3
    <3> QED
      BY <1>7, <2>1, <2>3, <3>1
  <2> QED
    BY <2>4, <2>5, <2>6
<1>15. CASE Crash
  BY <1>7, <1>15 DEF Crash, NoLoop, NoRecovery
<1>16. CASE Restart
  <2>1. UNCHANGED <<loop, received, disk>> /\ ~ up
        /\ recovery'.todo = {b \in AlertIds : deliveries[b].status = "PENDING"}
    BY <1>16 DEF Restart, storeVars
  <2>2. a \in recovery'.todo => disk.deliveries[a] # NoDelivery
    BY <1>1, <2>1, DeliveryStatus DEF DownIsFile
  <2> QED
    BY <1>3, <1>6, <2>1, <2>2 DEF SavedFirst
<1>17. CASE UNCHANGED vars
  BY <1>8, <1>17 DEF vars
<1> QED
  BY <1>9, <1>10, <1>11, <1>12, <1>13, <1>14, <1>15, <1>16, <1>17 DEF Next, RunningStep, LinkStep

LEMMA DeliveryStart == Init => DeliveryInv
<1> SUFFICES ASSUME Init PROVE DeliveryInv
  OBVIOUS
<1>1. StoreInv
  BY StoreInit_Inv
<1>2. /\ \A a \in AlertIds : loop[a].at = "none" /\ deliveries[a] = NoDelivery /\ received[a] = 0
                             /\ disk.deliveries[a] = NoDelivery
      /\ chain = <<>> /\ link = "idle" /\ recovery.todo = {} /\ up /\ crashes = 0 /\ lostAnswers = 0
  BY DEF Init, StoreInit, NotificationInit, NoLoop, NoRecovery, Snapshot
<1>3. ASSUME NEW a \in AlertIds PROVE Hand(a) /\ Explained(a) /\ SavedOutcome(a) /\ SavedFirst(a)
  <2>1. ~ Reserving(a) /\ MaySend(a)
    BY <1>2 DEF Reserving, MaySend
  <2> QED
    BY <1>2, <2>1 DEF Hand, Explained, SavedOutcome, SavedFirst, NoDelivery
<1> QED
  BY <1>1, <1>2, <1>3 DEF DeliveryInv, HandsInv, DownIsEmpty, DownIsFile

LEMMA DeliveryStep == DeliveryInv /\ [Next]_vars => DeliveryInv'
<1> SUFFICES ASSUME DeliveryInv, [Next]_vars PROVE DeliveryInv'
  OBVIOUS
<1>1. StoreInv /\ TypeInv /\ HandsInv /\ DownIsFile
  BY DEF DeliveryInv, StoreInv
<1>2. StoreInv' /\ HandsInv' /\ DownIsFile'
  BY <1>1, StoreStep, HandsStep, DownStep
<1>3. ASSUME NEW a \in AlertIds PROVE Explained(a)' /\ SavedOutcome(a)'
  BY <1>1, ExplainedStep, OutcomeStep DEF DeliveryInv
<1>4. ASSUME writeFailures' = 0, NEW a \in AlertIds PROVE SavedFirst(a)'
  BY <1>1, <1>4, SavedFirstStep DEF DeliveryInv
<1> QED
  BY <1>2, <1>3, <1>4 DEF DeliveryInv

\* An owner gets a notification twice only if the process died in between or an answer
\* of the platform was lost, one message each: a delivery is in one hand at a time,
\* through retries, recoveries and repeated market cycles (deliver, recoverPending).
THEOREM DuplicatesAreAlwaysExplained == Spec => []DuplicatesAreExplained
<1>1. DeliveryInv => DuplicatesAreExplained
  <2> SUFFICES ASSUME DeliveryInv, NEW a \in AlertIds
               PROVE  received[a] <= 1 + crashes + lostAnswers
    BY DEF DuplicatesAreExplained
  <2>1. received[a] \in Nat /\ crashes \in Nat /\ lostAnswers \in Nat
    BY AlertEngineAssumption, AlertNotificationAssumption
    DEF DeliveryInv, StoreInv, TypeInv, TypeOK, NotificationTypeOK, AlertEngineAssumption,
        AlertNotificationAssumption
  <2> QED
    BY <2>1 DEF DeliveryInv, Explained
<1> QED
  BY DeliveryStart, DeliveryStep, <1>1, PTL DEF Spec

\* While writes succeed, what was notified has fired for good, through crashes at any
\* point: the trigger is in the file before its message leaves (reserveTrigger is
\* awaited before deliver).
THEOREM NotifiedAlwaysStaysFired == Spec => []NotifiedStaysFired
<1>1. DeliveryInv => NotifiedStaysFired
  BY DEF DeliveryInv, StoreInv, Behind, SavedFirst, NotifiedStaysFired
<1> QED
  BY DeliveryStart, DeliveryStep, <1>1, PTL DEF Spec

\* An outcome in the file is never replaced, although the requests that settle a
\* delivery do not look at the status they replace: no second hand is ever on it.
THEOREM OutcomesAreFinal == Spec => SavedOutcomesAreFinal
<1>1. DeliveryInv /\ [Next]_vars =>
        [\A a \in AlertIds : disk.deliveries[a].status \in {"SENT", "FAILED"}
            => disk'.deliveries[a] = disk.deliveries[a]]_vars
  BY DiskShape DEF DeliveryInv, SavedOutcome, Snapshot
<1> QED
  BY DeliveryStart, DeliveryStep, <1>1, PTL DEF Spec, SavedOutcomesAreFinal

-----------------------------------------------------------------------------
(* The promise, step by step *)

AlertMoves ==
    {<<"NONE", "ACTIVE">>, <<"ACTIVE", "DISABLED">>, <<"DISABLED", "ACTIVE">>,
     <<"ACTIVE", "DELETED">>, <<"DISABLED", "DELETED">>, <<"TRIGGERED", "DELETED">>}

\* What the head has changed of a in the memory, and not yet in the file.
Unwritten(a) ==
    LET was == disk.alerts[a].status
        is == alerts[a].status
        wasOwed == disk.deliveries[a].status
        isOwed == deliveries[a].status
    IN  \/ is = was /\ isOwed = wasOwed
        \/ <<was, is>> \in AlertMoves /\ isOwed = wasOwed
        \/ /\ was = "ACTIVE" /\ is = "TRIGGERED" /\ wasOwed = "NONE" /\ isOwed = "PENDING"
           /\ Reserving(a)
        \/ /\ is = was /\ wasOwed = "PENDING"
           /\ isOwed = "FAILED" \/ (isOwed = "SENT" /\ received[a] > 0)

Same(a) == alerts[a].status = disk.alerts[a].status /\ deliveries[a].status = disk.deliveries[a].status

\* As long as writes succeed, the file is behind the memory by the head at most.
Following ==
    /\ link = "idle" => \A a \in AlertIds : Same(a)
    /\ \E a : \A b \in AlertIds : IF b = a THEN Unwritten(b) ELSE Same(b)

\* SENT is claimed of what was received.
SentIsReceived ==
    /\ \A a \in AlertIds : loop[a].at = "accepted" => received[a] > 0
    /\ \A i \in DOMAIN chain : chain[i].kind = "sent" => received[chain[i].alert] > 0

FollowingInv == DeliveryInv /\ SentIsReceived /\ Following

\* What a transaction does to the statuses: it moves one alert, or one delivery, or
\* fires one alert.
LEMMA OperateMoves ==
  ASSUME MapsAreTyped, Fresh, NEW r \in Request, Operate(r)
  PROVE  \E a \in AlertIds :
           /\ \A b \in AlertIds \ {a} : alerts'[b] = alerts[b] /\ deliveries'[b] = deliveries[b]
           /\ \/ alerts'[a].status = alerts[a].status /\ deliveries'[a].status = deliveries[a].status
              \/ <<alerts[a].status, alerts'[a].status>> \in AlertMoves /\ deliveries'[a] = deliveries[a]
              \/ /\ r.kind = "reserve" /\ r.alert = a
                 /\ alerts[a].status = "ACTIVE" /\ alerts'[a].status = "TRIGGERED"
                 /\ deliveries[a] = NoDelivery /\ deliveries'[a].status = "PENDING"
              \/ /\ r.kind = "sent" /\ r.alert = a
                 /\ alerts'[a] = alerts[a] /\ deliveries'[a].status = "SENT"
              \/ /\ r.kind = "close" /\ r.alert = a
                 /\ alerts'[a] = alerts[a] /\ deliveries'[a].status = "FAILED"
<1> USE DEF MapsAreTyped, AlertMap, DeliveryMap
<1>0. r.kind # "create" => r.alert \in AlertIds
  BY RequestAlert
<1>1. CASE Create(r)
  <2>1. PICK a \in AlertIds \ drawn :
          alerts' = [alerts EXCEPT ![a] = [status |-> "ACTIVE", owner |-> r.user,
                       condition |-> r.condition, baseline |-> r.baseline]]
    BY <1>1 DEF Create
  <2>2. alerts[a].status = "NONE" /\ alerts'[a].status = "ACTIVE" /\ deliveries' = deliveries
        /\ \A b \in AlertIds \ {a} : alerts'[b] = alerts[b]
    BY <1>1, <2>1 DEF Create, Fresh, NoAlert
  <2>3. <<"NONE", "ACTIVE">> \in AlertMoves
    BY DEF AlertMoves
  <2> QED
    BY <2>1, <2>2, <2>3
<1>2. CASE Enable(r) \/ Disable(r) \/ Remove(r)
  <2> PICK a : a = r.alert
    OBVIOUS
  <2>1. a \in AlertIds /\ alerts[a] \in Alert /\ deliveries' = deliveries
    BY <1>0, <1>2 DEF Enable, MayEnable, Disable, MayDisable, Remove, MayRemove, Owns, NoAlert,
       AlertStatus
  <2>2. \A b \in AlertIds \ {a} : alerts'[b] = alerts[b]
    BY <1>2, <2>1 DEF Enable, Disable, Remove, SetStatus
  <2>3. CASE Enable(r)
    <3>1. alerts[a].status = "DISABLED" /\ alerts'[a].status = "ACTIVE"
      BY <2>1, <2>3 DEF Enable, MayEnable, Alert
    <3> QED
      BY <2>1, <2>2, <3>1 DEF AlertMoves
  <2>4. CASE Disable(r)
    <3>1. alerts[a].status = "ACTIVE" /\ alerts'[a].status = "DISABLED"
      BY <2>1, <2>4 DEF Disable, MayDisable, SetStatus, Alert
    <3> QED
      BY <2>1, <2>2, <3>1 DEF AlertMoves
  <2>5. CASE Remove(r)
    <3>1. alerts[a].status \in {"ACTIVE", "DISABLED", "TRIGGERED"} /\ alerts'[a].status = "DELETED"
      BY <2>1, <2>5 DEF Remove, MayRemove, SetStatus, Alert, AlertStatus
    <3> QED
      BY <2>1, <2>2, <3>1 DEF AlertMoves
  <2> QED
    BY <1>2, <2>3, <2>4, <2>5
<1>3. CASE Edit(r)
  <2> PICK a : a = r.alert
    OBVIOUS
  <2>1. a \in AlertIds /\ alerts[a] \in Alert /\ deliveries' = deliveries
    BY <1>0, <1>3 DEF Edit, MayEdit, Owns, NoAlert, AlertStatus
  <2>2. alerts'[a].status = alerts[a].status /\ \A b \in AlertIds \ {a} : alerts'[b] = alerts[b]
    BY <1>3, <2>1 DEF Edit, Alert
  <2> QED
    BY <2>1, <2>2
<1>4. CASE ReserveTrigger(r)
  <2> PICK a : a = r.alert
    OBVIOUS
  <2>1. a \in AlertIds /\ r.kind = "reserve" /\ alerts[a].status = "ACTIVE" /\ deliveries[a] = NoDelivery
    BY <1>0, <1>4 DEF ReserveTrigger, MayReserve
  <2>2. alerts[a] \in Alert
    BY <2>1 DEF NoAlert
  <2>3. alerts'[a].status = "TRIGGERED"
    BY <1>4, <2>1, <2>2 DEF ReserveTrigger, SetStatus, Alert
  <2>4. deliveries'[a].status = "PENDING"
        /\ \A b \in AlertIds \ {a} : alerts'[b] = alerts[b] /\ deliveries'[b] = deliveries[b]
    BY <1>4, <2>1 DEF ReserveTrigger, SetStatus
  <2> QED
    BY <2>1, <2>3, <2>4
<1>5. CASE BeginAttempt(r) \/ RecordFailure(r) \/ MarkSent(r) \/ MarkUndeliverable(r)
  <2> PICK a : a = r.alert
    OBVIOUS
  <2>1. /\ a \in AlertIds /\ alerts' = alerts
        /\ BeginAttempt(r) => r.kind = "begin"
        /\ RecordFailure(r) => r.kind = "failure"
        /\ MarkSent(r) => r.kind = "sent"
        /\ MarkUndeliverable(r) => r.kind = "close"
    BY <1>0, <1>5 DEF BeginAttempt, MayBegin, RecordFailure, MarkSent, MarkUndeliverable, MaySettle
  <2>2. \A b \in AlertIds \ {a} : deliveries'[b] = deliveries[b]
    BY OperateDeliveries
  <2> QED
    BY <1>5, <2>1, <2>2, OperateDeliveries
<1> QED
  BY <1>1, <1>2, <1>3, <1>4, <1>5 DEF Operate

LEMMA SentStep ==
  ASSUME TypeInv, HandsInv, SentIsReceived, [Next]_vars
  PROVE  SentIsReceived'
<1>0. received \in [AlertIds -> Nat] /\ chain \in Seq(Request)
  BY DEF TypeInv, TypeOK, StoreTypeOK, NotificationTypeOK
<1>1. ASSUME UNCHANGED <<loop, received>>,
             UNCHANGED chain \/ \E r \in Request : Enqueue(r) /\ r.kind \notin SettlingKinds
      PROVE  SentIsReceived'
  <2>1. \A i \in DOMAIN chain' : chain'[i].kind = "sent" => i \in DOMAIN chain /\ chain'[i] = chain[i]
    BY <1>1, AppendedChain DEF SettlingKinds
  <2> QED
    BY <1>1, <2>1 DEF SentIsReceived
<1>2. CASE up /\ UserStep /\ UNCHANGED <<notificationVars, engineVars>>
  BY <1>1, <1>2, UserShape DEF notificationVars
<1>3. CASE up /\ (MarketCommits \/ EngineStep)
  BY <1>1, <1>3, EngineShape DEF notificationVars
<1>4. ASSUME NEW b \in AlertIds, LoopStep(b) PROVE SentIsReceived'
  <2>1. deliveries[b].status = "PENDING"
    BY <1>4, LoopIsPending
  <2>2. \A a \in AlertIds : received[a] > 0 => received'[a] > 0
    <3>1. received' = received \/ received'[b] = received[b] + 1
      BY <1>4, <2>1, LoopShape
    <3>2. \A a \in AlertIds \ {b} : received'[a] = received[a]
      BY <1>4, <2>1, LoopShape
    <3> QED
      BY <1>0, <3>1, <3>2
  <2>3. \A a \in AlertIds : loop'[a].at = "accepted" => received'[a] > 0
    <3>1. loop'[b].at = "accepted" => received'[b] = received[b] + 1
      <4>1. \A r : Awaits[r.kind] = "accepted" => r.kind \notin SettlingKinds
        BY DEF Awaits, SettlingKinds
      <4> QED
        BY <1>4, <2>1, <4>1, LoopShape
    <3>2. \A a \in AlertIds \ {b} : loop'[a] = loop[a]
      BY <1>4, <2>1, LoopShape
    <3> QED
      BY <1>0, <2>2, <3>1, <3>2 DEF SentIsReceived
  <2>4. \A i \in DOMAIN chain' : chain'[i].kind = "sent" => received'[chain'[i].alert] > 0
    <3>1. \A i \in DOMAIN chain : chain[i].kind = "sent" => chain[i].alert \in AlertIds
      BY <1>0, RequestAlert
    <3>2. \A i \in DOMAIN chain' :
            \/ i \in DOMAIN chain /\ chain'[i] = chain[i]
            \/ /\ chain'[i].kind = "sent" => loop[b].at = "accepted"
               /\ chain'[i].alert = b
      <4>1. UNCHANGED chain \/ \E r \in Request :
               Enqueue(r) /\ r.alert = b /\ (r.kind = "sent" => loop[b].at = "accepted")
        BY <1>4, <2>1, LoopShape
      <4> QED
        BY <4>1, AppendedChain
    <3> QED
      BY <2>2, <3>1, <3>2 DEF SentIsReceived
  <2> QED
    BY <2>3, <2>4 DEF SentIsReceived
<1>5. ASSUME NEW b \in AlertIds, RecoveryStep(b) PROVE SentIsReceived'
  <2>1. UNCHANGED received /\ \A a \in AlertIds : loop'[a].at = "accepted" => loop[a].at = "accepted"
    <3>1. loop \in LoopMap
      BY DEF TypeInv, TypeOK, NotificationTypeOK, LoopMap
    <3>2. CASE RecoverUnknown(b)
      BY <3>2 DEF RecoverUnknown
    <3>3. CASE RecoverDispatch(b)
      <4>1. loop' = [loop EXCEPT ![b] = [at |-> "check", attempt |-> 1]] /\ UNCHANGED received
        BY <3>3 DEF RecoverDispatch, Dispatched
      <4>2. \A a \in AlertIds : loop'[a] = loop[a] \/ loop'[a].at = "check"
        BY <3>1, <4>1 DEF LoopMap
      <4> QED
        BY <4>1, <4>2
    <3> QED
      BY <1>5, <3>2, <3>3 DEF RecoveryStep
  <2>2. UNCHANGED chain \/ \E r \in Request : Enqueue(r) /\ r.kind = "close"
    <3>1. CloseOf(b, "DELIVERY_OUTCOME_UNKNOWN", TRUE, "recovery") \in Request
      BY DEF CloseOf, Request, CloseRequest, SkippedReason
    <3> QED
      BY <1>5, <3>1 DEF RecoveryStep, RecoverUnknown, RecoverDispatch, CloseOf
  <2>3. \A i \in DOMAIN chain' : chain'[i].kind = "sent" => i \in DOMAIN chain /\ chain'[i] = chain[i]
    BY <2>2, AppendedChain
  <2> QED
    BY <2>1, <2>3 DEF SentIsReceived
<1>6. CASE LinkApplied
  BY <1>6 DEF LinkApplied, Applied, notificationVars, SentIsReceived
<1>7. CASE LinkRefused \/ LinkWritten
  <2>1. chain # <<>> /\ chain' = Tail(chain) /\ UNCHANGED received
    BY <1>7 DEF LinkRefused, LinkWritten, Refused, Written, LinkIsDue, Resume, Answered, TypeInv
  <2>2. \A i \in DOMAIN chain' : i + 1 \in DOMAIN chain /\ chain'[i] = chain[i + 1]
    BY <2>1, ShorterChain
  <2> PICK r : r = Head(chain)
    OBVIOUS
  <2> PICK accepted \in BOOLEAN : Resume(r, accepted)
    BY <1>7 DEF LinkRefused, LinkWritten
  <2>3. r \in Request
    BY <2>1, ShorterChain
  <2>4. \A a \in AlertIds : loop'[a].at = "accepted" => loop[a].at = "accepted"
    <3> TAKE a \in AlertIds
    <3>1. CASE ~ (r.kind \in SettlingKinds \cup {"reserve"} /\ r.alert = a)
      BY <2>3, <3>1, ResumedLoop
    <3>2. CASE r.kind = "reserve" /\ r.alert = a
      BY <2>3, <3>2, ResumedLoop
    <3>3. CASE r.kind \in SettlingKinds /\ r.alert = a
      <4>1. NextPhase(r, accepted) # "accepted"
        BY DEF NextPhase
      <4> QED
        BY <2>3, <3>3, <4>1, ResumedLoop
    <3> QED
      BY <3>1, <3>2, <3>3
  <2> QED
    BY <2>1, <2>2, <2>4 DEF SentIsReceived
<1>8. CASE Crash
  BY <1>8 DEF Crash, SentIsReceived, NoLoop
<1>9. CASE Restart \/ UNCHANGED vars
  BY <1>9 DEF Restart, vars, storeVars, notificationVars, SentIsReceived
<1> QED
  BY <1>2, <1>3, <1>4, <1>5, <1>6, <1>7, <1>8, <1>9 DEF Next, RunningStep, LinkStep

\* Steps outside the chain leave both documents alone.
LEMMA OutsideShape ==
  ASSUME TypeInv, HandsInv,
         \/ UserStep /\ UNCHANGED <<notificationVars, engineVars>>
         \/ MarketCommits \/ EngineStep
         \/ \E a \in AlertIds : (LoopStep(a) \/ RecoveryStep(a)) /\ EngineUnchanged
         \/ Restart \/ UNCHANGED vars
  PROVE  /\ UNCHANGED <<alerts, deliveries, disk, link>>
         /\ UNCHANGED chain \/ \E r \in Request : Enqueue(r)
         /\ \/ UNCHANGED received
            \/ \E a \in AlertIds : loop[a].at = "sending" /\ received' = [received EXCEPT ![a] = @ + 1]
<1>1. CASE UserStep /\ UNCHANGED <<notificationVars, engineVars>>
  BY <1>1, UserShape DEF notificationVars
<1>2. CASE MarketCommits \/ EngineStep
  BY <1>2, EngineShape DEF notificationVars
<1>3. ASSUME NEW a \in AlertIds, LoopStep(a)
      PROVE  /\ UNCHANGED <<alerts, deliveries, disk, link>>
             /\ UNCHANGED chain \/ \E r \in Request : Enqueue(r)
             /\ \/ UNCHANGED received
                \/ loop[a].at = "sending" /\ received' = [received EXCEPT ![a] = @ + 1]
  <2>1. deliveries[a].status = "PENDING"
    BY <1>3, LoopIsPending
  <2>2. \/ UNCHANGED received
        \/ loop[a].at = "sending" /\ received' = [received EXCEPT ![a] = @ + 1]
    BY <1>3 DEF LoopStep, AlertIsGone, PlatformIsMissing, StartAttempt, PlatformAccepts,
       SendSucceeds, SendFails, AnswerIsLost, Retry, GiveUp
  <2> QED
    BY <1>3, <2>1, <2>2, LoopShape
<1>4. ASSUME NEW a \in AlertIds, RecoveryStep(a), EngineUnchanged
      PROVE  /\ UNCHANGED <<alerts, deliveries, disk, link, received>>
             /\ UNCHANGED chain \/ \E r \in Request : Enqueue(r)
  BY <1>4, RecoveryShape
<1>5. CASE Restart \/ UNCHANGED vars
  BY <1>5 DEF Restart, vars, storeVars, notificationVars
<1> QED
  BY <1>1, <1>2, <1>3, <1>4, <1>5

LEMMA FollowingStep ==
  ASSUME FollowingInv, [Next]_vars, writeFailures' = 0
  PROVE  Following'
<1>0. TypeInv /\ HandsInv /\ SentIsReceived /\ Following
  BY DEF FollowingInv, DeliveryInv, StoreInv
<1>1. received \in [AlertIds -> Nat]
  BY <1>0 DEF TypeInv, TypeOK, NotificationTypeOK
\* All is the same: nobody's change is to be written.
<1>2. ASSUME \A a \in AlertIds : Same(a)' PROVE Following'
  BY <1>2 DEF Following, Unwritten, Same
<1>3. ASSUME UNCHANGED <<alerts, deliveries, disk, link>>,
             UNCHANGED chain \/ \E r \in Request : Enqueue(r),
             \/ UNCHANGED received
             \/ \E a \in AlertIds : loop[a].at = "sending" /\ received' = [received EXCEPT ![a] = @ + 1]
      PROVE  Following'
  <2>1. \A a \in AlertIds : received[a] > 0 => received'[a] > 0
    BY <1>1, <1>3
  <2>2. \A a \in AlertIds : Unwritten(a) => Unwritten(a)'
    BY <1>0, <1>3, <2>1, SameReserving DEF Unwritten
  <2>3. \A a \in AlertIds : Same(a) => Same(a)'
    BY <1>3 DEF Same
  <2>4. PICK a : \A b \in AlertIds : IF b = a THEN Unwritten(b) ELSE Same(b)
    BY <1>0 DEF Following
  <2>5. \A b \in AlertIds : IF b = a THEN Unwritten(b)' ELSE Same(b)'
    BY <2>2, <2>3, <2>4
  <2>6. link' = "idle" => \A b \in AlertIds : Same(b)'
    BY <1>0, <1>3, <2>3 DEF Following
  <2> QED
    BY <2>5, <2>6 DEF Following
<1>4. CASE \/ UserStep /\ UNCHANGED <<notificationVars, engineVars>>
           \/ MarketCommits \/ EngineStep
           \/ \E a \in AlertIds : (LoopStep(a) \/ RecoveryStep(a)) /\ EngineUnchanged
           \/ Restart \/ UNCHANGED vars
  BY <1>0, <1>3, <1>4, OutsideShape
<1>5. CASE LinkApplied
  <2> PICK r : r = Head(chain)
    OBVIOUS
  <2>1. Operate(r) /\ link = "idle" /\ link' = "writing" /\ chain # <<>> /\ UNCHANGED <<chain, disk, received>>
    BY <1>5 DEF LinkApplied, Applied, LinkIsDue, notificationVars
  <2>2. r \in Request /\ 1 \in DOMAIN chain /\ r = chain[1]
    BY <1>0, <2>1, ShorterChain
  <2>3. MapsAreTyped /\ Fresh
    BY <1>0 DEF MapsAreTyped, AlertMap, DeliveryMap, TypeInv, TypeOK, StoreTypeOK, FollowingInv,
       DeliveryInv, StoreInv, Safe, Fresh
  <2>4. \A b \in AlertIds : Same(b)
    BY <1>0, <2>1 DEF Following
  <2>5. PICK a \in AlertIds :
           /\ \A b \in AlertIds \ {a} : alerts'[b] = alerts[b] /\ deliveries'[b] = deliveries[b]
           /\ \/ alerts'[a].status = alerts[a].status /\ deliveries'[a].status = deliveries[a].status
              \/ <<alerts[a].status, alerts'[a].status>> \in AlertMoves /\ deliveries'[a] = deliveries[a]
              \/ /\ r.kind = "reserve" /\ r.alert = a
                 /\ alerts[a].status = "ACTIVE" /\ alerts'[a].status = "TRIGGERED"
                 /\ deliveries[a] = NoDelivery /\ deliveries'[a].status = "PENDING"
              \/ /\ r.kind = "sent" /\ r.alert = a
                 /\ alerts'[a] = alerts[a] /\ deliveries'[a].status = "SENT"
              \/ /\ r.kind = "close" /\ r.alert = a
                 /\ alerts'[a] = alerts[a] /\ deliveries'[a].status = "FAILED"
    BY <2>1, <2>2, <2>3, OperateMoves
  <2>6. r.kind \in {"sent", "close"} /\ r.alert = a => deliveries[a].status = "PENDING"
    <3> SUFFICES ASSUME r.kind \in {"sent", "close"}, r.alert = a
                 PROVE  deliveries[a].status = "PENDING"
      OBVIOUS
    <3>1. Asks(1, a) /\ Hand(a)
      BY <1>0, <2>2 DEF Asks, SettlingKinds, HandsInv
    <3> QED
      BY <1>0, <2>1, <2>2, <3>1, DeliveryStatus DEF Hand
  <2>7. r.kind = "sent" /\ r.alert = a => received[a] > 0
    BY <1>0, <2>2 DEF SentIsReceived
  <2>8. r.kind = "reserve" /\ r.alert = a => Reserving(a)'
    BY <2>1, <2>2 DEF Reserving
  <2>9. disk.alerts[a].status = alerts[a].status /\ disk.deliveries[a].status = deliveries[a].status
    BY <2>4 DEF Same
  <2>10. Unwritten(a)'
    BY <2>1, <2>5, <2>6, <2>7, <2>8, <2>9 DEF Unwritten, NoDelivery
  <2>11. \A b \in AlertIds \ {a} : Same(b)'
    BY <2>1, <2>4, <2>5 DEF Same
  <2> QED
    BY <2>1, <2>10, <2>11 DEF Following
<1>6. CASE LinkRefused
  <2>1. link = "idle" /\ UNCHANGED <<alerts, deliveries, disk>>
    BY <1>6 DEF LinkRefused, Refused, LinkIsDue
  <2> QED
    BY <1>0, <1>2, <2>1 DEF Following, Same
<1>7. CASE LinkWritten
  <2>1. writeFailures \in Nat
    BY <1>0, AlertStoreAssumption DEF TypeInv, TypeOK, StoreTypeOK, AlertStoreAssumption
  <2>2. disk' = Snapshot /\ UNCHANGED <<alerts, deliveries>>
    BY <1>7, <2>1 DEF LinkWritten, Written
  <2> QED
    BY <1>2, <2>2 DEF Same, Snapshot
<1>8. CASE Crash
  BY <1>2, <1>8 DEF Crash, Same
<1> QED
  BY <1>4, <1>5, <1>6, <1>7, <1>8 DEF Next, RunningStep, LinkStep

LEMMA FollowingAlways == Spec /\ [](writeFailures = 0) => []FollowingInv
<1>1. Init => FollowingInv
  <2> SUFFICES ASSUME Init PROVE FollowingInv
    OBVIOUS
  <2>1. \A a \in AlertIds : Same(a) /\ loop[a].at = "none"
    BY DEF Init, StoreInit, NotificationInit, Snapshot, Same, NoLoop
  <2>2. chain = <<>>
    BY DEF Init, StoreInit
  <2> QED
    BY <2>1, <2>2, DeliveryStart DEF FollowingInv, SentIsReceived, Following, Unwritten, Same
<1>2. FollowingInv /\ [Next]_vars /\ (writeFailures = 0)' => FollowingInv'
  <2> SUFFICES ASSUME FollowingInv, [Next]_vars, writeFailures' = 0 PROVE FollowingInv'
    OBVIOUS
  <2>1. DeliveryInv' /\ TypeInv /\ HandsInv
    BY DeliveryStep DEF FollowingInv, DeliveryInv, StoreInv
  <2> QED
    BY <2>1, SentStep, FollowingStep DEF FollowingInv
<1> QED
  BY <1>1, <1>2, PTL DEF Spec

\* The file's statuses are those of alerts and deliveries.
LEMMA SavedStatus ==
  ASSUME TypeInv, NEW a \in AlertIds
  PROVE  /\ disk.alerts[a].status \in AlertStatus \cup {"NONE"}
         /\ disk.deliveries[a].status \in {"NONE", "PENDING", "SENT", "FAILED"}
<1>1. disk.alerts[a] \in Alert \cup {NoAlert} /\ disk.deliveries[a] \in Delivery \cup {NoDelivery}
  BY DEF TypeInv, TypeOK, StoreTypeOK, Document
<1> QED
  BY <1>1 DEF Alert, NoAlert, Delivery, NoDelivery

OwnersPhase == [a \in AlertIds |-> PhaseOf[disk.alerts[a].status]]
OwnersNotice == [a \in AlertIds |-> NoticeOf[disk.deliveries[a].status]]

\* A write of the head is a move of the promise, or shows the owner nothing.
LEMMA WriteIsPromised ==
  ASSUME FollowingInv, disk' = Snapshot, UNCHANGED received
  PROVE  Promise!PromiseNext \/ UNCHANGED <<OwnersPhase, OwnersNotice, received>>
<1>0. TypeInv /\ Following
  BY DEF FollowingInv, DeliveryInv, StoreInv
<1>1. PICK a : \A b \in AlertIds : IF b = a THEN Unwritten(b) ELSE Same(b)
  BY <1>0 DEF Following
<1>2. \A b \in AlertIds : b # a => /\ disk'.alerts[b].status = disk.alerts[b].status
                                   /\ disk'.deliveries[b].status = disk.deliveries[b].status
  BY <1>1 DEF Same, Snapshot
<1> PICK ph, no, ph2, no2 : /\ ph = OwnersPhase /\ ph2 = OwnersPhase'
                            /\ no = OwnersNotice /\ no2 = OwnersNotice'
  OBVIOUS
<1>3. /\ ph \in [AlertIds -> {PhaseOf[x] : x \in AlertStatus \cup {"NONE"}}]
      /\ ph = [b \in AlertIds |-> PhaseOf[disk.alerts[b].status]]
      /\ no = [b \in AlertIds |-> NoticeOf[disk.deliveries[b].status]]
      /\ ph2 = [b \in AlertIds |-> PhaseOf[disk'.alerts[b].status]]
      /\ no2 = [b \in AlertIds |-> NoticeOf[disk'.deliveries[b].status]]
  BY <1>0, SavedStatus DEF OwnersPhase, OwnersNotice
<1>4. \A b \in AlertIds : b # a => ph2[b] = ph[b] /\ no2[b] = no[b]
  BY <1>2, <1>3
<1>5. CASE a \notin AlertIds
  <2>1. ph2 = ph /\ no2 = no
    BY <1>3, <1>4, <1>5
  <2> QED
    BY <2>1
<1>6. CASE a \in AlertIds
  <2>1. Unwritten(a) /\ disk'.alerts[a] = alerts[a] /\ disk'.deliveries[a] = deliveries[a]
    BY <1>1, <1>6 DEF Snapshot
  <2>2. ph2 = [ph EXCEPT ![a] = ph2[a]] /\ no2 = [no EXCEPT ![a] = no2[a]]
    BY <1>3, <1>4, <1>6
  <2>3. /\ ph[a] = PhaseOf[disk.alerts[a].status] /\ ph2[a] = PhaseOf[alerts[a].status]
        /\ no[a] = NoticeOf[disk.deliveries[a].status] /\ no2[a] = NoticeOf[deliveries[a].status]
    BY <1>3, <1>6, <2>1
  <2>4. /\ PhaseOf.NONE = "absent" /\ PhaseOf.ACTIVE = "armed" /\ PhaseOf.DISABLED = "paused"
        /\ PhaseOf.TRIGGERED = "fired" /\ PhaseOf.DELETED = "gone"
        /\ NoticeOf.NONE = "none" /\ NoticeOf.PENDING = "owed" /\ NoticeOf.SENT = "given"
        /\ NoticeOf.FAILED = "dropped"
    BY DEF PhaseOf, NoticeOf
  <2>5. CASE alerts[a].status = disk.alerts[a].status /\ deliveries[a].status = disk.deliveries[a].status
    <3>1. \A b \in AlertIds : ph2[b] = ph[b] /\ no2[b] = no[b]
      BY <1>4, <2>3, <2>5
    <3>2. ph2 = ph /\ no2 = no
      BY <1>3, <3>1
    <3> QED
      BY <3>2
  <2>6. CASE <<disk.alerts[a].status, alerts[a].status>> \in AlertMoves
             /\ deliveries[a].status = disk.deliveries[a].status
    <3>0. \A b \in AlertIds : no2[b] = no[b]
      BY <1>4, <2>3, <2>6
    <3>1. no2 = no
      BY <1>3, <3>0
    <3>2. \/ ph[a] = "absent" /\ ph2[a] = "armed"
          \/ ph[a] = "armed" /\ ph2[a] = "paused"
          \/ ph[a] = "paused" /\ ph2[a] = "armed"
          \/ ph[a] \in {"armed", "paused", "fired"} /\ ph2[a] = "gone"
      BY <2>3, <2>4, <2>6 DEF AlertMoves
    <3>3. Promise!Manage(a)
      BY <2>2, <3>1, <3>2 DEF Promise!Manage, Promise!Move, OwnersPhase, OwnersNotice
    <3> QED
      BY <1>6, <3>3 DEF Promise!PromiseNext
  <2>7. CASE /\ disk.alerts[a].status = "ACTIVE" /\ alerts[a].status = "TRIGGERED"
             /\ disk.deliveries[a].status = "NONE" /\ deliveries[a].status = "PENDING"
    <3>1. ph[a] = "armed" /\ ph2[a] = "fired" /\ no[a] = "none" /\ no2[a] = "owed"
      BY <2>3, <2>4, <2>7
    <3>2. Promise!Fire(a)
      BY <2>2, <3>1 DEF Promise!Fire, Promise!Move, OwnersPhase, OwnersNotice
    <3> QED
      BY <1>6, <3>2 DEF Promise!PromiseNext
  <2>8. CASE /\ alerts[a].status = disk.alerts[a].status /\ disk.deliveries[a].status = "PENDING"
             /\ deliveries[a].status = "FAILED" \/ (deliveries[a].status = "SENT" /\ received[a] > 0)
    <3>1. \A b \in AlertIds : ph2[b] = ph[b]
      BY <1>4, <2>3, <2>8
    <3>2. ph2 = ph
      BY <1>3, <3>1
    <3>3. no[a] = "owed" /\ (no2[a] = "dropped" \/ (no2[a] = "given" /\ received[a] > 0))
      BY <2>3, <2>4, <2>8
    <3>4. Promise!Settle(a)
      BY <2>2, <3>2, <3>3 DEF Promise!Settle, OwnersPhase, OwnersNotice
    <3> QED
      BY <1>6, <3>4 DEF Promise!PromiseNext
  <2> QED
    BY <2>1, <2>5, <2>6, <2>7, <2>8 DEF Unwritten
<1> QED
  BY <1>5, <1>6

\* A message leaves only while the file owes it.
LEMMA MessageIsPromised ==
  ASSUME FollowingInv, NEW a \in AlertIds, loop[a].at = "sending", UNCHANGED disk,
         received' = [received EXCEPT ![a] = @ + 1]
  PROVE  Promise!PromiseNext
<1>1. TypeInv /\ Following /\ Hand(a)
  BY DEF FollowingInv, DeliveryInv, StoreInv, HandsInv
<1>2. deliveries[a].status = "PENDING" /\ ~ Reserving(a)
  BY <1>1, FreeLoop
<1>3. disk.deliveries[a].status = "PENDING"
  BY <1>1, <1>2 DEF Following, Unwritten, Same
<1>4. OwnersNotice[a] = "owed" /\ UNCHANGED <<OwnersPhase, OwnersNotice>>
  BY <1>3 DEF OwnersNotice, OwnersPhase, NoticeOf
<1>5. Promise!Message(a)
  BY <1>4 DEF Promise!Message, OwnersPhase, OwnersNotice
<1> QED
  BY <1>5 DEF Promise!PromiseNext

\* As long as writes succeed, the subsystem implements the promise to the owner: every
\* step is a step of AlertPromise or changes nothing the owner or the file shows,
\* through crashes at any point, lost answers and requests that were overtaken.
THEOREM PromiseIsImplemented == Spec /\ [](writeFailures = 0) => Promise!PromiseSpec
<1>1. Init => Promise!PromiseInit
  <2> SUFFICES ASSUME Init PROVE Promise!PromiseInit
    OBVIOUS
  <2>1. \A a \in AlertIds : disk.alerts[a].status = "NONE" /\ disk.deliveries[a].status = "NONE"
    BY DEF Init, StoreInit, Snapshot, NoAlert, NoDelivery
  <2>2. received = [a \in AlertIds |-> 0]
    BY DEF Init, NotificationInit
  <2>3. PhaseOf.NONE = "absent" /\ NoticeOf.NONE = "none"
    BY DEF PhaseOf, NoticeOf
  <2> QED
    BY <2>1, <2>2, <2>3 DEF Promise!PromiseInit
<1>2. FollowingInv /\ (writeFailures = 0)' /\ [Next]_vars => [Promise!PromiseNext]_(Promise!promiseVars)
  <2> SUFFICES ASSUME FollowingInv, writeFailures' = 0, [Next]_vars
               PROVE  Promise!PromiseNext \/ UNCHANGED <<OwnersPhase, OwnersNotice, received>>
    BY DEF Promise!promiseVars, OwnersPhase, OwnersNotice
  <2>0. TypeInv /\ HandsInv
    BY DEF FollowingInv, DeliveryInv, StoreInv
  <2>1. ASSUME UNCHANGED disk PROVE UNCHANGED <<OwnersPhase, OwnersNotice>>
    BY <2>1 DEF OwnersPhase, OwnersNotice
  <2>2. CASE \/ UserStep /\ UNCHANGED <<notificationVars, engineVars>>
             \/ MarketCommits \/ EngineStep
             \/ \E a \in AlertIds : (LoopStep(a) \/ RecoveryStep(a)) /\ EngineUnchanged
             \/ Restart \/ UNCHANGED vars
    BY <2>0, <2>1, <2>2, OutsideShape, MessageIsPromised
  <2>3. CASE LinkApplied \/ LinkRefused \/ Crash
    <3>1. UNCHANGED <<disk, received>>
      BY <2>3 DEF LinkApplied, LinkRefused, Applied, Refused, Resume, Answered, Crash,
         notificationVars
    <3> QED
      BY <2>1, <3>1
  <2>4. CASE LinkWritten
    <3>1. writeFailures \in Nat
      BY <2>0, AlertStoreAssumption DEF TypeInv, TypeOK, StoreTypeOK, AlertStoreAssumption
    <3>2. disk' = Snapshot /\ UNCHANGED received
      BY <2>4, <3>1 DEF LinkWritten, Written, Resume, Answered
    <3> QED
      BY <3>2, WriteIsPromised
  <2> QED
    BY <2>2, <2>3, <2>4 DEF Next, RunningStep, LinkStep
<1> QED
  BY <1>1, <1>2, FollowingAlways, PTL DEF Spec, Promise!PromiseSpec
=============================================================================
