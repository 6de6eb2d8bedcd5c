---------------------------- MODULE AlertService ----------------------------
(***************************************************************************)
(* What a user asks of AlertService.  Each operation looks at the maps     *)
(* (the pre-check and the values it computes) and queues its transaction   *)
(* in the same synchronous step; the transaction re-checks when it runs.   *)
(* A refused pre-check answers the user and changes nothing: no step.      *)
(***************************************************************************)
EXTENDS AlertStore

CONSTANTS
    Requests,           \* the operations users perform
    BaseLimit,          \* MAX_ALERTS_PER_USER
    MaxBonus,           \* REFERRAL_MAX_BONUS_SLOTS, the cap of the bonus
    MaxQueue            \* bound on the user requests that wait in the chain

ASSUME AlertServiceAssumption ==
    /\ Requests \subseteq {"create", "enable", "disable", "edit", "remove"}
    /\ BaseLimit \in Nat
    /\ MaxBonus \in Nat
    /\ MaxQueue \in Nat

VARIABLES
    bonus,      \* bonus[u]: granted slots of the reward ledger
    price       \* price[s]: the current price of the market state, or NoPrice

serviceVars == <<bonus, price>>

ServiceTypeOK ==
    /\ bonus \in [Users -> Nat]
    /\ price \in [Symbols -> Nat]

ServiceInit ==
    /\ bonus = [u \in Users |-> 0]
    /\ price = [s \in Symbols |-> NoPrice]

\* alert-capacity: derived from the ledger, capped.
EffectiveLimit(u) == BaseLimit + (IF bonus[u] < MaxBonus THEN bonus[u] ELSE MaxBonus)

\* External: the referral ledger grants a reward of one or two slots unless the
\* cap is reached; the sum of the ledger may exceed the cap.
GrantBonus(u) ==
    /\ bonus[u] < MaxBonus
    /\ \E slots \in {1, 2} : bonus' = [bonus EXCEPT ![u] = @ + slots]
    /\ UNCHANGED <<storeVars, price>>

UserKinds == {"create", "enable", "disable", "edit", "remove"}
Waiting(kinds) == {i \in DOMAIN chain : chain[i].kind \in kinds}

Ask(kind, r) ==
    /\ kind \in Requests
    /\ Cardinality(Waiting(UserKinds)) < MaxQueue
    /\ Enqueue(r)
    /\ UNCHANGED <<alerts, deliveries, disk, link, drawn, writeFailures, serviceVars>>

\* validateInput, requireUsablePrice: a percentage alert starts from the
\* current price and needs one; an absolute alert keeps what it has.
HasBaseline(condition) ==
    condition.type \in PercentTypes => price[condition.symbol] # NoPrice
Baseline(condition, kept) ==
    IF condition.type \in PercentTypes THEN price[condition.symbol] ELSE kept

\* The limit is read before the critical section.
AskCreate(u, condition) ==
    /\ condition.target \in Targets(condition.type)
    /\ Cardinality(Waiting({"create"}) \ (IF link = "writing" THEN {1} ELSE {}))
         < Cardinality(AlertIds \ drawn)
    /\ HasBaseline(condition)
    /\ Ask("create", [kind |-> "create", user |-> u, condition |-> condition,
                      baseline |-> Baseline(condition, NoPrice),
                      limit |-> EffectiveLimit(u)])

AskEnable(u, a) ==
    /\ Owns(u, a)
    /\ alerts[a].status = "DISABLED"
    /\ HasBaseline(alerts[a].condition)
    /\ Ask("enable", [kind |-> "enable", user |-> u, alert |-> a,
                      baseline |-> Baseline(alerts[a].condition, alerts[a].baseline)])

AskDisable(u, a) ==
    /\ Owns(u, a)
    /\ alerts[a].status = "ACTIVE"
    /\ Ask("disable", [kind |-> "disable", user |-> u, alert |-> a])

AskEdit(u, a, target) ==
    /\ Owns(u, a)
    /\ alerts[a].status \in CapacityStatuses
    /\ target \in Targets(alerts[a].condition.type)
    /\ HasBaseline(alerts[a].condition)
    /\ Ask("edit", [kind |-> "edit", user |-> u, alert |-> a, target |-> target,
                    baseline |-> Baseline(alerts[a].condition, alerts[a].baseline)])

AskRemove(u, a) ==
    /\ Owns(u, a)
    /\ alerts[a].status # "DELETED"
    /\ Ask("remove", [kind |-> "remove", user |-> u, alert |-> a])

UserStep ==
    \E u \in Users :
        \/ GrantBonus(u)
        \/ \E condition \in Condition : AskCreate(u, condition)
        \/ \E a \in AlertIds :
            \/ AskEnable(u, a) \/ AskDisable(u, a) \/ AskRemove(u, a)
            \/ \E target \in PriceTargets \cup PercentTargets : AskEdit(u, a, target)
=============================================================================
