----------------------------- MODULE MarketState -----------------------------
(***************************************************************************)
(* The accepted price of a symbol and how it changes: the sanity decision  *)
(* on a quoted value (SanityChecker), the record MarketStateService keeps  *)
(* of a symbol, and what a commit, a new Tehran day and a restart make of  *)
(* it.  No state here: MarketEngine has the variables.                     *)
(*                                                                         *)
(* Prices are positive integers in the canonical unit of the symbol; 0 is  *)
(* null.  The recorded change and percentage are left out: they are set    *)
(* and cleared together with the direction.                                *)
(***************************************************************************)
EXTENDS Integers, Sequences, FiniteSets

CONSTANTS
    Symbols,
    Registry,               \* the SymbolDefinition of each symbol
    CrossDayMultiplier,     \* PRICE_CROSS_DAY_CHANGE_MULTIPLIER
    MaxTime,                \* bound on the clock
    TehranDay(_)            \* the day key of a time

NoPrice == 0
NoLimit == -1
Time == 0..MaxTime

SymbolDefinition ==
    [required : BOOLEAN, factor : Nat \ {0}, minPrice : Nat \cup {NoLimit},
     maxPrice : Nat \cup {NoLimit}, maxChangePercent : Nat \cup {NoLimit},
     maxAbsoluteChange : Nat \cup {NoLimit}]

ASSUME MarketStateAssumption ==
    /\ Registry \in [Symbols -> SymbolDefinition]
    /\ CrossDayMultiplier \in Nat \ {0}
    /\ MaxTime \in Nat
    /\ \A t \in Time : TehranDay(t) \in Nat
    /\ \A t, u \in Time : t <= u => TehranDay(t) <= TehranDay(u)

Direction == {"UP", "DOWN", "UNCHANGED", "UNKNOWN"}
Source == {"SAME_DAY", "PREVIOUS_DAY", "NONE"}

\* daily: the window of the day, NoWindow until its first accepted price.
Window == [open : Nat, high : Nat, low : Nat, current : Nat]
NoWindow == [open |-> 0, high |-> 0, low |-> 0, current |-> 0]

SymbolState == [current : Nat, previous : Nat, lastValid : Nat, updatedAt : Nat,
                day : Nat, direction : Direction, daily : Window]
NoState == [current |-> NoPrice, previous |-> NoPrice, lastValid |-> NoPrice,
            updatedAt |-> 0, day |-> 0, direction |-> "UNKNOWN", daily |-> NoWindow]

-----------------------------------------------------------------------------
(* One entry of the payload *)

\* What the payload says of a symbol; a value is in the unit of the source.
Entry == [kind : {"absent", "unreadable"}, amount : {0}]
            \cup [kind : {"value"}, amount : Int]

\* toCanonicalUnit(): the factor is 10 for a value quoted in Toman, else 1.
Normalized(s, entry) == entry.amount * Registry[s].factor

Baseline == [price : Nat, source : Source]

\* Mutant: the last valid price is taken first, with its cross-day allowance.
BaselineFromLastValid(state, day) ==
    IF state.lastValid > 0
      THEN [price |-> state.lastValid, source |-> "PREVIOUS_DAY"]
      ELSE [price |-> NoPrice, source |-> "NONE"]

\* buildBaseline() over getSameDayPrice() and getLastValidPrice().
BaselineOf(state, day) ==
    IF state.day = day /\ state.daily # NoWindow /\ state.current > 0
      THEN [price |-> state.current, source |-> "SAME_DAY"]
      ELSE IF state.lastValid > 0
             THEN [price |-> state.lastValid, source |-> "PREVIOUS_DAY"]
             ELSE [price |-> NoPrice, source |-> "NONE"]

Distance(p, q) == IF p <= q THEN q - p ELSE p - q

\* checkRange()
InRange(s, price) ==
    /\ Registry[s].minPrice # NoLimit => price >= Registry[s].minPrice
    /\ Registry[s].maxPrice # NoLimit => price <= Registry[s].maxPrice

AllowedPercent(s, source) ==
    Registry[s].maxChangePercent * (IF source = "PREVIOUS_DAY" THEN CrossDayMultiplier ELSE 1)

\* computeChange(): the absolute guard is not widened across days.
MoveIsAllowed(s, base, price, source) ==
    /\ Registry[s].maxAbsoluteChange # NoLimit
         => Distance(base, price) <= Registry[s].maxAbsoluteChange
    /\ Registry[s].maxChangePercent # NoLimit
         => 100 * Distance(base, price) <= AllowedPercent(s, source) * base

DirectionOf(base, price) ==
    IF price > base THEN "UP" ELSE IF price < base THEN "DOWN" ELSE "UNCHANGED"

\* SanityChecker.evaluate() of a normalized price.
Reason(s, price, baseline) ==
    IF ~InRange(s, price)
      THEN "OUT_OF_RANGE"
      ELSE IF \/ baseline.source = "NONE"
              \/ MoveIsAllowed(s, baseline.price, price, baseline.source)
             THEN "ACCEPTED"
             ELSE "EXCESSIVE_CHANGE"

Evaluation == [reason : {"ACCEPTED", "OUT_OF_RANGE", "EXCESSIVE_CHANGE", "INVALID"},
               price : Nat, previous : Nat, source : Source]
NoEvaluation == [reason |-> "INVALID", price |-> NoPrice, previous |-> NoPrice,
                 source |-> "NONE"]

\* An absent symbol, a value that is no number and a value that is not positive
\* are rejected before the sanity engine, for reasons that differ in the log only.
Evaluated(s, entry, state, day) ==
    LET baseline == BaselineOf(state, day)
        price == Normalized(s, entry)
    IN  IF entry.kind # "value" \/ entry.amount <= 0
          THEN NoEvaluation
          ELSE [reason |-> Reason(s, price, baseline), price |-> price,
                previous |-> baseline.price, source |-> baseline.source]

-----------------------------------------------------------------------------
(* The record of a symbol *)

\* applyToDailyWindow()
Applied(daily, price) ==
    IF daily = NoWindow
      THEN [open |-> price, high |-> price, low |-> price, current |-> price]
      ELSE [open |-> daily.open, current |-> price,
            high |-> IF price > daily.high THEN price ELSE daily.high,
            low |-> IF price < daily.low THEN price ELSE daily.low]

\* commit() of an accepted evaluation received at time t.
Committed(state, evaluation, t, day) ==
    LET sameDay == state.day = day /\ state.daily # NoWindow
    IN  [current |-> evaluation.price,
         previous |-> IF sameDay THEN state.current ELSE NoPrice,
         lastValid |-> evaluation.price,
         updatedAt |-> t,
         day |-> day,
         direction |-> IF evaluation.source = "SAME_DAY"
                         THEN DirectionOf(evaluation.previous, evaluation.price)
                         ELSE "UNKNOWN",
         daily |-> Applied(IF sameDay THEN state.daily ELSE NoWindow, evaluation.price)]

\* rollDayIfNeeded() for one symbol, when the day has changed.
Rolled(state) ==
    IF state = NoState
      THEN NoState
      ELSE [state EXCEPT !.previous = NoPrice, !.direction = "UNKNOWN", !.daily = NoWindow]

\* What persist() writes of a symbol: not how the last price compared.
Persisted(state) == [state EXCEPT !.direction = "UNKNOWN"]

\* Mutant: the window of another day is restored as today's.
RestoredAsIs(state, today) ==
    IF state = NoState THEN NoState ELSE [state EXCEPT !.day = today]

\* restore() for one symbol of the file.
Restored(state, today) ==
    IF state = NoState
      THEN NoState
      ELSE IF state.day = today
             THEN state
             ELSE [state EXCEPT !.previous = NoPrice, !.day = today, !.daily = NoWindow]
=============================================================================
