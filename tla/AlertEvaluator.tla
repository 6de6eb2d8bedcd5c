--------------------------- MODULE AlertEvaluator ---------------------------
(***************************************************************************)
(* The pure condition evaluation of a price alert (alert-evaluator.ts).    *)
(* A price is a positive integer of the canonical unit; NoPrice is null.   *)
(***************************************************************************)
EXTENDS Integers

NoPrice == 0

PriceTypes == {"PRICE_ABOVE", "PRICE_BELOW"}
PercentTypes == {"PERCENT_INCREASE", "PERCENT_DECREASE"}
AlertTypes == PriceTypes \cup PercentTypes

\* Crossing semantics: the market was on the other side of the target at the
\* preceding observation and is at or beyond it now.
CrossesAbove(target, obs) ==
    obs.previous # NoPrice /\ obs.previous < target /\ obs.price >= target

CrossesBelow(target, obs) ==
    obs.previous # NoPrice /\ obs.previous > target /\ obs.price <= target

\* change% = (price - baseline) / baseline * 100, compared without dividing.
RisesBy(percent, baseline, obs) ==
    baseline # NoPrice /\ (obs.price - baseline) * 100 >= percent * baseline

FallsBy(percent, baseline, obs) ==
    baseline # NoPrice /\ (obs.price - baseline) * 100 <= -percent * baseline

ConditionMet(condition, baseline, obs) ==
    \/ /\ condition.type = "PRICE_ABOVE"
       /\ CrossesAbove(condition.target, obs)
    \/ /\ condition.type = "PRICE_BELOW"
       /\ CrossesBelow(condition.target, obs)
    \/ /\ condition.type = "PERCENT_INCREASE"
       /\ RisesBy(condition.target, baseline, obs)
    \/ /\ condition.type = "PERCENT_DECREASE"
       /\ FallsBy(condition.target, baseline, obs)

\* evaluateAlert: only an ACTIVE alert of the observed symbol may fire.
ShouldTrigger(alert, obs) ==
    /\ alert.status = "ACTIVE"
    /\ alert.condition.symbol = obs.symbol
    /\ obs.price > 0
    /\ ConditionMet(alert.condition, alert.baseline, obs)
=============================================================================
