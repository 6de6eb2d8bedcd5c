---------------------------- MODULE Market_proofs ----------------------------
(***************************************************************************)
(* Proofs about the market engine, for any symbols, limits, calendar and   *)
(* bounds: types, and that records tell the history of accepted prices,    *)
(* listeners its path without gaps, updates its last prices, and reports   *)
(* every anomaly.                                                          *)
(***************************************************************************)
EXTENDS MarketProperties, FiniteSetTheorems, TLAPS

-----------------------------------------------------------------------------
(* Types *)

\* A canonical price is a positive integer.
LEMMA NormalizedPositive ==
    ASSUME NEW s \in Symbols, NEW entry, entry.amount \in Int, entry.amount > 0
    PROVE  Normalized(s, entry) \in Nat /\ Normalized(s, entry) > 0
<1> DEFINE a == entry.amount
<1> DEFINE f == Registry[s].factor
<1>1. a \in Nat \ {0} /\ f \in Nat \ {0}
  BY MarketStateAssumption DEF SymbolDefinition
<1>2. \A x, y \in Nat \ {0} : x * y \in Nat /\ x * y > 0
  BY SMT
<1>3. a * f \in Nat /\ a * f > 0
  <2> HIDE DEF a, f
  <2> QED  BY <1>1, <1>2
<1> QED  BY <1>3 DEF Normalized

LEMMA BaselineType ==
    ASSUME NEW state \in SymbolState, NEW day
    PROVE  BaselineOf(state, day) \in Baseline
BY DEF BaselineOf, Baseline, Source, SymbolState, NoPrice

\* An evaluation is one, and an accepted price is positive.
LEMMA EvaluatedType ==
    ASSUME NEW s \in Symbols, NEW entry \in Entry, NEW state \in SymbolState, NEW day
    PROVE  /\ Evaluated(s, entry, state, day) \in Evaluation
           /\ Evaluated(s, entry, state, day).reason = "ACCEPTED"
                => Evaluated(s, entry, state, day).price > 0
<1>1. CASE entry.kind # "value" \/ entry.amount <= 0
  BY <1>1 DEF Evaluated, NoEvaluation, Evaluation, NoPrice, Source
<1>2. CASE ~(entry.kind # "value" \/ entry.amount <= 0)
  <2>1. entry.amount \in Int /\ entry.amount > 0
    BY <1>2 DEF Entry
  <2>2. Normalized(s, entry) \in Nat /\ Normalized(s, entry) > 0
    BY <2>1, NormalizedPositive
  <2>3. BaselineOf(state, day) \in Baseline
    BY BaselineType
  <2>4. Reason(s, Normalized(s, entry), BaselineOf(state, day))
            \in {"ACCEPTED", "OUT_OF_RANGE", "EXCESSIVE_CHANGE"}
    BY DEF Reason
  <2>5. Evaluated(s, entry, state, day) =
            [reason |-> Reason(s, Normalized(s, entry), BaselineOf(state, day)),
             price |-> Normalized(s, entry), previous |-> BaselineOf(state, day).price,
             source |-> BaselineOf(state, day).source]
    BY <1>2 DEF Evaluated
  <2> QED  BY <2>2, <2>3, <2>4, <2>5 DEF Evaluation, Baseline
<1> QED  BY <1>1, <1>2

LEMMA NoStateType == NoState \in SymbolState
BY DEF NoState, SymbolState, NoPrice, NoWindow, Window, Direction

LEMMA CommittedType ==
    ASSUME NEW state \in SymbolState, NEW e \in Evaluation, NEW t \in Time, NEW day \in Nat
    PROVE  Committed(state, e, t, day) \in SymbolState
<1>1. Time \subseteq Nat
  BY MarketStateAssumption DEF Time
<1>2. DirectionOf(e.previous, e.price) \in Direction
  BY DEF DirectionOf, Direction, Evaluation
<1>3. \A w \in Window : Applied(w, e.price) \in Window
  BY DEF Applied, Window, Evaluation
<1>4. state.daily \in Window /\ NoWindow \in Window
  BY DEF SymbolState, NoWindow, Window
<1> QED  BY <1>1, <1>2, <1>3, <1>4 DEF Committed, SymbolState, Evaluation, NoPrice, Direction

LEMMA RecordTypes ==
    ASSUME NEW state \in SymbolState
    PROVE  /\ Rolled(state) \in SymbolState
           /\ Persisted(state) \in SymbolState
           /\ \A day \in Nat : Restored(state, day) \in SymbolState
BY NoStateType
   DEF Rolled, Persisted, Restored, SymbolState, NoPrice, NoWindow, Window, Direction
LEMMA TimeIsNat == Time \subseteq Nat
BY MarketStateAssumption DEF Time

LEMMA InitTypes == Init => TypeOK
<1> SUFFICES ASSUME Init PROVE TypeOK
  OBVIOUS
<1>1. 0 \in Time /\ TehranDay(0) \in Nat
  BY MarketStateAssumption DEF Time
<1>2. NoEvaluation \in Evaluation /\ NoUpdate \in Update
  BY DEF NoEvaluation, Evaluation, NoPrice, Source, NoUpdate, Update
<1>3. NoCycle \in Cycle
  BY <1>1, <1>2 DEF NoCycle, Cycle, Phase
<1>4. NoEntry \in CooldownEntry
  BY DEF NoEntry, CooldownEntry
<1> QED
  BY <1>1, <1>3, <1>4, NoStateType, MarketEngineAssumption DEF Init, TypeOK

\* What one payload makes of the types.
LEMMA EvaluateTypes ==
    ASSUME TypeOK, NEW payload, \A s \in Symbols : payload[s] \in Entries[s],
           Evaluate(payload)
    PROVE  TypeOK'
<1> DEFINE day == TehranDay(now)
<1> DEFINE rolled == RolledStates(day)
<1> DEFINE evaluations == Judged(payload, rolled, day)
<1>1. now \in Time /\ now \in Nat /\ day \in Nat
  BY MarketStateAssumption, TimeIsNat DEF TypeOK
<1>2. rolled \in [Symbols -> SymbolState]
  BY RecordTypes DEF TypeOK, RolledStates
<1>3. \A s \in Symbols : payload[s] \in Entry
  BY MarketEngineAssumption
<1>4. \A s \in Symbols : Evaluated(s, payload[s], rolled[s], day) \in Evaluation
  <2> HIDE DEF rolled, day
  <2> QED  BY <1>2, <1>3, EvaluatedType
<1>5. evaluations \in [Symbols -> Evaluation]
  BY <1>4 DEF Judged
<1> HIDE DEF day, rolled, evaluations
<1>6. states' \in [Symbols -> SymbolState]
  <2>1. \A s \in Symbols : Committed(rolled[s], evaluations[s], now, day) \in SymbolState
    BY <1>1, <1>2, <1>5, CommittedType
  <2> QED  BY <1>2, <2>1 DEF Evaluate, evaluations, rolled, day
<1>7. ledger' \in [Symbols -> Seq(Price)]
  <2>1. \A s \in Symbols : [cycle |-> cycles, at |-> now, price |-> evaluations[s].price] \in Price
    BY <1>1, <1>5, MarketEngineAssumption DEF TypeOK, Price, Evaluation
  <2>2. \A s \in Symbols : Append(ledger[s], [cycle |-> cycles, at |-> now,
                                price |-> evaluations[s].price]) \in Seq(Price)
    BY <2>1 DEF TypeOK
  <2> QED  BY <2>2 DEF Evaluate, evaluations, rolled, day, TypeOK
<1>8. cycle' \in Cycle
  <2>1. AnomaliesOf(evaluations) \in SUBSET Anomaly
    BY DEF AnomaliesOf, Anomaly
  <2>2. NoUpdate \in Update
    BY DEF NoUpdate, Update, NoPrice
  <2>3. cycle' = [at |-> "saving", receivedAt |-> now, evaluations |-> evaluations,
                  anomalies |-> AnomaliesOf(evaluations), update |-> NoUpdate]
    BY DEF Evaluate, evaluations, rolled, day
  <2> QED  BY <1>1, <1>5, <2>1, <2>2, <2>3 DEF Cycle, Phase
<1>9. activeDay' \in Nat \cup {NoDay}
  BY <1>1 DEF Evaluate, day
<1>10. UNCHANGED <<now, up, file, saved, told, anomalyVars, boundVars>>
  BY DEF Evaluate
<1> QED
  BY <1>6, <1>7, <1>8, <1>9, <1>10 DEF TypeOK, anomalyVars, boundVars

LEMMA NextTypes == TypeOK /\ [Next]_vars => TypeOK'
<1> SUFFICES ASSUME TypeOK, [Next]_vars PROVE TypeOK'
  OBVIOUS
<1> USE DEF marketVars, anomalyVars, boundVars
<1>0. /\ now \in Time /\ now \in Nat /\ TehranDay(now) \in Nat
      /\ cycle.receivedAt \in Time /\ cycle.receivedAt \in Nat
      /\ TehranDay(cycle.receivedAt) \in Nat
  BY MarketStateAssumption, TimeIsNat DEF TypeOK, Cycle
<1>a. NoCycle \in Cycle /\ NoEntry \in CooldownEntry
  BY MarketStateAssumption
     DEF NoCycle, Cycle, Phase, Time, NoEvaluation, Evaluation, NoPrice, Source, NoUpdate,
         Update, NoEntry, CooldownEntry
<1>b. \A phase \in Phase : [cycle EXCEPT !.at = phase] \in Cycle
  BY DEF TypeOK, Cycle
<1>1. CASE CycleBegins
  <2>1. cycle' \in Cycle
    BY <1>1, <1>a DEF CycleBegins, Cycle, Phase
  <2>2. cycles' \in 0..MaxCycles
    BY <1>1, MarketEngineAssumption DEF CycleBegins, TypeOK
  <2> QED  BY <1>1, <2>1, <2>2 DEF CycleBegins, TypeOK
<1>2. CASE FetchFails
  BY <1>2, <1>a DEF FetchFails, TypeOK
<1>3. CASE PayloadIsInvalid
  <2>1. RolledStates(TehranDay(now)) \in [Symbols -> SymbolState]
    BY RecordTypes DEF RolledStates, TypeOK
  <2> QED  BY <1>0, <1>3, <1>a, <2>1 DEF PayloadIsInvalid, TypeOK
<1>4. ASSUME NEW payload \in [Symbols -> UNION {Entries[s] : s \in Symbols}],
             (\A s \in Symbols : payload[s] \in Entries[s]) /\ Evaluate(payload)
      PROVE  TypeOK'
  BY <1>4, EvaluateTypes
<1>5. CASE NothingToSave
  BY <1>5, <1>b DEF NothingToSave, TypeOK, Phase
<1>6. CASE SaveSucceeds
  <2>1. file' \in [day : Nat, symbols : [Symbols -> SymbolState]]
    BY <1>0, <1>6, RecordTypes DEF SaveSucceeds, TypeOK
  <2> QED  BY <1>6, <1>b, <2>1 DEF SaveSucceeds, TypeOK, Phase
<1>7. CASE SaveFails
  <2>1. fileFaults' \in 0..MaxFileFaults
    BY <1>7, MarketEngineAssumption DEF SaveFails, TypeOK
  <2> QED  BY <1>7, <1>b, <2>1 DEF SaveFails, TypeOK, Phase
<1>8. ASSUME NEW a \in Anomaly, SuppressAnomaly(a) PROVE TypeOK'
  <2>1. cycle' \in Cycle
    BY <1>8 DEF SuppressAnomaly, TypeOK, Cycle
  <2>2. cooldowns' \in [Anomaly -> CooldownEntry]
    <3>1. cooldowns[a] \in CooldownEntry
      BY DEF TypeOK
    <3>2. [cooldowns[a] EXCEPT !.suppressed = @ + 1] \in CooldownEntry
      BY <3>1 DEF CooldownEntry
    <3>3. cooldowns' = [cooldowns EXCEPT ![a] = [cooldowns[a] EXCEPT !.suppressed = @ + 1]]
      BY <1>8 DEF SuppressAnomaly
    <3> QED  BY <3>2, <3>3 DEF TypeOK
  <2>3. seen' \in [Anomaly -> Nat]
    BY <1>8 DEF SuppressAnomaly, TypeOK
  <2> QED  BY <1>8, <2>1, <2>2, <2>3 DEF SuppressAnomaly, TypeOK
<1>9. ASSUME NEW a \in Anomaly, SendAnomaly(a) PROVE TypeOK'
  <2>1. cycle' \in Cycle
    BY <1>9 DEF SendAnomaly, TypeOK, Cycle, Phase
  <2>2. cooldowns' \in [Anomaly -> CooldownEntry]
    BY <1>0, <1>9 DEF SendAnomaly, TypeOK, CooldownEntry
  <2>3. seen' \in [Anomaly -> Nat]
    BY <1>9 DEF SendAnomaly, TypeOK
  <2>4. accounted' \in [Anomaly -> Nat]
    <3>1. accounted[a] + 1 + cooldowns[a].suppressed \in Nat
      BY DEF TypeOK, CooldownEntry
    <3> QED  BY <1>9, <3>1 DEF SendAnomaly, TypeOK
  <2> QED  BY <1>9, <2>1, <2>2, <2>3, <2>4 DEF SendAnomaly, TypeOK
<1>10. CASE AnomalyIsAnswered
  BY <1>10, <1>b DEF AnomalyIsAnswered, TypeOK, Phase
<1>11. CASE NotifyListeners
  <2>1. told' \in [Symbols -> Seq(Event)]
    <3>1. \A s \in Symbols :
            [cycle |-> cycles, at |-> cycle.receivedAt, price |-> cycle.evaluations[s].price,
             previous |-> cycle.evaluations[s].previous,
             source |-> cycle.evaluations[s].source] \in Event
      BY <1>0, MarketEngineAssumption DEF TypeOK, Cycle, Evaluation, Event
    <3>2. \A s \in Symbols : Append(told[s],
            [cycle |-> cycles, at |-> cycle.receivedAt, price |-> cycle.evaluations[s].price,
             previous |-> cycle.evaluations[s].previous,
             source |-> cycle.evaluations[s].source]) \in Seq(Event)
      BY <3>1 DEF TypeOK
    <3> QED  BY <1>11, <3>2 DEF NotifyListeners, TypeOK
  <2> QED  BY <1>11, <1>b, <2>1 DEF NotifyListeners, TypeOK, Phase
<1>12. CASE BuildUpdate
  <2>1. \A s \in Symbols : states[s].daily.current - states[s].daily.open \in Int
    <3> SUFFICES ASSUME NEW s \in Symbols
                 PROVE  states[s].daily.current - states[s].daily.open \in Int
      OBVIOUS
    <3>1. states[s] \in SymbolState
      BY DEF TypeOK
    <3>2. states[s].daily \in Window
      BY <3>1 DEF SymbolState
    <3> QED  BY <3>2 DEF Window
  <2>2. \A s \in Symbols : cycle.evaluations[s].price \in Nat
    BY DEF TypeOK, Cycle, Evaluation
  <2>3. Publication(cycle) \in Update
    BY <2>1, <2>2 DEF Publication, Update, Stale, NoPrice
  <2>4. cycle' \in Cycle
    BY <1>12, <2>3 DEF BuildUpdate, TypeOK, Cycle, Phase
  <2> QED  BY <1>12, <2>4 DEF BuildUpdate, TypeOK
<1>13. CASE CycleEnds
  BY <1>13, <1>a DEF CycleEnds, TypeOK
<1>14. CASE Tick
  <2>1. now' \in Time
    BY <1>14, MarketStateAssumption DEF Tick, TypeOK, Time
  <2> QED  BY <1>14, <2>1 DEF Tick, TypeOK
<1>15. CASE Crash
  <2>1. crashes' \in 0..MaxCrashes
    BY <1>15, MarketEngineAssumption DEF Crash, TypeOK
  <2>2. states' \in [Symbols -> SymbolState] /\ ledger' \in [Symbols -> Seq(Price)]
    BY <1>15, NoStateType DEF Crash
  <2>3. cycle' \in Cycle /\ cooldowns' \in [Anomaly -> CooldownEntry]
    BY <1>15, <1>a DEF Crash
  <2>4. seen' \in [Anomaly -> Nat] /\ accounted' \in [Anomaly -> Nat]
    BY <1>15 DEF Crash
  <2> QED  BY <1>15, <2>1, <2>2, <2>3, <2>4 DEF Crash, TypeOK
<1>16. CASE Restore
  <2>1. states' \in [Symbols -> SymbolState]
    BY <1>0, <1>16, RecordTypes DEF Restore, TypeOK
  <2> QED  BY <1>0, <1>16, <2>1 DEF Restore, TypeOK
<1>17. CASE RestoreFails
  <2>1. fileFaults' \in 0..MaxFileFaults
    BY <1>17, MarketEngineAssumption DEF RestoreFails, TypeOK
  <2> QED  BY <1>0, <1>17, <2>1 DEF RestoreFails, TypeOK
<1>18. CASE UNCHANGED vars
  BY <1>18 DEF vars, TypeOK
<1> QED
  BY <1>1, <1>2, <1>3, <1>4, <1>5, <1>6, <1>7, <1>8, <1>9, <1>10, <1>11, <1>12, <1>13,
     <1>14, <1>15, <1>16, <1>17, <1>18
  DEF Next, CycleStep

\* Every variable keeps its type: what a payload says, what a restart restores and
\* what a cycle publishes are of the sorts the code declares (MarketStateService,
\* MarketEngineService, AnomalyAlertService).
THEOREM TypeCorrect == Spec => []TypeOK
<1>1. Init => TypeOK
  BY InitTypes
<1>2. TypeOK /\ [Next]_vars => TypeOK'
  BY NextTypes
<1> QED  BY <1>1, <1>2, PTL DEF Spec
-----------------------------------------------------------------------------
(* Records tell history *)

\* A record with the history behind it, both aligned with `day`: times do not run
\* backwards, and nothing is of a later day.
Kept(state, prices, day) ==
    /\ RecordTells(state, prices, day)
    /\ state.day <= day
    /\ \A i \in DOMAIN prices : prices[i].price > 0 /\ TehranDay(prices[i].at) <= day
    /\ \A i, j \in DOMAIN prices : i <= j => prices[i].at <= prices[j].at

Past(prices) == \A i \in DOMAIN prices : prices[i].at <= now

\* The inductive invariant: what is in memory is aligned with the active day and what
\* is in the file with the day it was saved, neither is ahead of the clock, and a
\* process that is down holds nothing.
HistoryInv ==
    /\ up => /\ activeDay \in Nat
             /\ activeDay <= TehranDay(now)
             /\ \A s \in Symbols : Kept(states[s], ledger[s], activeDay)
    /\ ~up => /\ cycle.at = "idle"
              /\ \A s \in Symbols : states[s] = NoState /\ ledger[s] = <<>>
    /\ file.day <= TehranDay(now)
    /\ \A s \in Symbols : Kept(file.symbols[s], saved[s], file.day)
    /\ \A s \in Symbols : Past(ledger[s]) /\ Past(saved[s])
    /\ At("saving") => activeDay = TehranDay(cycle.receivedAt)

LEMMA EmptyKept ==
    ASSUME NEW day \in Nat
    PROVE  Kept(NoState, <<>>, day)
BY DEF Kept, RecordTells, NoState

LEMMA TheNoState ==
    /\ NoState.daily = NoWindow /\ NoState.day = 0 /\ NoState.lastValid = NoPrice
    /\ NoState.current = NoPrice
BY DEF NoState

\* A ledger's last entry belongs to the day as soon as any does.
LEMMA LastOfDay ==
    ASSUME NEW prices \in Seq(Price), NEW state, NEW day \in Nat, Kept(state, prices, day),
           \A i \in DOMAIN prices : prices[i].at \in Time,
           OfDay(prices, day) # {}
    PROVE  /\ Len(prices) \in OfDay(prices, day)
           /\ prices # <<>> /\ Len(prices) \in DOMAIN prices
<1>1. PICK i \in DOMAIN prices : TehranDay(prices[i].at) = day
  BY DEF OfDay
<1>2. /\ Len(prices) \in DOMAIN prices /\ i <= Len(prices) /\ prices # <<>>
  BY <1>1
<1>3. prices[i].at <= prices[Len(prices)].at
  BY <1>1, <1>2 DEF Kept
<1>4. day <= TehranDay(prices[Len(prices)].at)
  BY <1>1, <1>2, <1>3, MarketStateAssumption
<1>5. TehranDay(prices[Len(prices)].at) <= day /\ TehranDay(prices[Len(prices)].at) \in Nat
  BY <1>2, MarketStateAssumption DEF Kept
<1> QED  BY <1>2, <1>4, <1>5 DEF OfDay

\* An empty window is only recorded when the day has no price yet.
LEMMA WindowOfDay ==
    ASSUME NEW prices \in Seq(Price), NEW state \in SymbolState, NEW day \in Nat,
           Kept(state, prices, day)
    PROVE  (state.day = day /\ state.daily # NoWindow) <=> OfDay(prices, day) # {}
<1>1. CASE prices = <<>>
  BY <1>1, TheNoState DEF Kept, RecordTells, OfDay
<1>2. CASE prices # <<>> /\ OfDay(prices, day) = {}
  BY <1>2 DEF Kept, RecordTells
<1>3. CASE prices # <<>> /\ OfDay(prices, day) # {}
  <2>1. state.day = day /\ WindowTells(state.daily, prices, day)
    BY <1>3 DEF Kept, RecordTells
  <2>2. PICK i \in OfDay(prices, day) : state.daily.open = prices[i].price
    BY <2>1 DEF WindowTells
  <2>3. prices[i].price > 0
    BY <2>2 DEF Kept, OfDay
  <2>4. state.daily.open # 0
    BY <2>2, <2>3
  <2> QED  BY <1>3, <2>1, <2>4 DEF NoWindow
<1> QED  BY <1>1, <1>2, <1>3

\* A new day begins: the record loses what belonged to the old one.
LEMMA RollKeeps ==
    ASSUME NEW prices \in Seq(Price), NEW state \in SymbolState, NEW day \in Nat,
           NEW later \in Nat, day < later, Kept(state, prices, day),
           \A i \in DOMAIN prices : TehranDay(prices[i].at) \in Nat
    PROVE  Kept(Rolled(state), prices, later)
<1>1. OfDay(prices, later) = {}
  BY DEF Kept, OfDay
<1>2. state.day <= later /\ \A i \in DOMAIN prices : TehranDay(prices[i].at) <= later
  BY DEF Kept, SymbolState
<1>3. CASE prices = <<>>
  BY <1>3, EmptyKept DEF Kept, RecordTells, Rolled
<1>4. CASE prices # <<>>
  <2>1. state.current > 0
    <3>1. state.current = prices[Len(prices)].price /\ Len(prices) \in DOMAIN prices
      BY <1>4 DEF Kept, RecordTells
    <3> QED  BY <3>1 DEF Kept
  <2>2. state # NoState
    BY <2>1, TheNoState DEF NoPrice
  <2>3. /\ Rolled(state).current = state.current /\ Rolled(state).lastValid = state.lastValid
        /\ Rolled(state).updatedAt = state.updatedAt /\ Rolled(state).day = state.day
        /\ Rolled(state).previous = NoPrice /\ Rolled(state).daily = NoWindow
    BY <2>2 DEF Rolled, SymbolState
  <2> QED  BY <1>1, <1>2, <1>4, <2>3 DEF Kept, RecordTells
<1> QED  BY <1>3, <1>4

LEMMA PersistKeeps ==
    ASSUME NEW prices, NEW state \in SymbolState, NEW day, Kept(state, prices, day)
    PROVE  Kept(Persisted(state), prices, day)
<1>1. /\ Persisted(state).current = state.current /\ Persisted(state).lastValid = state.lastValid
      /\ Persisted(state).updatedAt = state.updatedAt /\ Persisted(state).day = state.day
      /\ Persisted(state).previous = state.previous /\ Persisted(state).daily = state.daily
  BY DEF Persisted, SymbolState
<1>2. Persisted(NoState) = NoState
  BY DEF Persisted, NoState
<1> QED  BY <1>1, <1>2 DEF Kept, RecordTells

\* A restart on the day of the file goes on with the record; on a later day nothing
\* of the day's own remains.
LEMMA RestoreKeeps ==
    ASSUME NEW prices \in Seq(Price), NEW state \in SymbolState, NEW day \in Nat,
           NEW today \in Nat, day <= today, Kept(state, prices, day),
           \A i \in DOMAIN prices : TehranDay(prices[i].at) \in Nat
    PROVE  Kept(Restored(state, today), prices, today)
<1>0. state.day \in Nat /\ state.day <= day
  BY DEF SymbolState, Kept
<1>1. CASE prices = <<>>
  BY <1>1, EmptyKept DEF Kept, RecordTells, Restored
<1>2. CASE prices # <<>> /\ state.day = today
  <2>1. day = today
    BY <1>0, <1>2
  <2> QED  BY <1>2, <2>1 DEF Kept, Restored
<1>3. CASE prices # <<>> /\ state.day # today
  <2>1. OfDay(prices, today) = {}
    <3>1. CASE day = today
      BY <1>3, <3>1 DEF Kept, RecordTells
    <3>2. CASE day < today
      BY <3>2 DEF Kept, OfDay
    <3> QED  BY <3>1, <3>2
  <2>2. state # NoState
    <3>1. state.current = prices[Len(prices)].price /\ Len(prices) \in DOMAIN prices
      BY <1>3 DEF Kept, RecordTells
    <3>2. state.current > 0
      BY <3>1 DEF Kept
    <3> QED  BY <3>2, TheNoState DEF NoPrice
  <2>3. LET r == Restored(state, today)
        IN  /\ r.current = state.current /\ r.lastValid = state.lastValid
            /\ r.updatedAt = state.updatedAt /\ r.day = today
            /\ r.previous = NoPrice /\ r.daily = NoWindow
    BY <1>3, <2>2 DEF Restored, SymbolState
  <2>4. \A i \in DOMAIN prices : TehranDay(prices[i].at) <= today
    BY DEF Kept
  <2> QED  BY <1>3, <2>1, <2>3, <2>4 DEF Kept, RecordTells
<1> QED  BY <1>1, <1>2, <1>3

LEMMA AppendFacts ==
    ASSUME NEW S, NEW prices \in Seq(S), NEW p \in S
    PROVE  LET more == Append(prices, p)
           IN  /\ more \in Seq(S) /\ more # <<>>
               /\ Len(more) = Len(prices) + 1 /\ Len(more) \in DOMAIN more
               /\ DOMAIN more = DOMAIN prices \cup {Len(prices) + 1}
               /\ more[Len(prices) + 1] = p
               /\ \A i \in DOMAIN prices : more[i] = prices[i] /\ i < Len(prices) + 1
OBVIOUS

\* A commit of the active day extends its window, or opens it.
LEMMA CommitKeeps ==
    ASSUME NEW prices \in Seq(Price), NEW state \in SymbolState, NEW e \in Evaluation,
           NEW t \in Time, NEW n \in Nat, e.price > 0,
           Kept(state, prices, TehranDay(t)),
           \A i \in DOMAIN prices : prices[i].at \in Time /\ prices[i].at <= t
    PROVE  Kept(Committed(state, e, t, TehranDay(t)),
                Append(prices, [cycle |-> n, at |-> t, price |-> e.price]), TehranDay(t))
<1> DEFINE day == TehranDay(t)
<1> DEFINE p == [cycle |-> n, at |-> t, price |-> e.price]
<1> DEFINE more == Append(prices, p)
<1> DEFINE new == Committed(state, e, t, day)
<1> DEFINE last == Len(prices) + 1
<1>0. day \in Nat /\ t \in Nat /\ e.price \in Nat /\ Len(prices) \in Nat
  BY MarketStateAssumption, TimeIsNat DEF Evaluation
<1>1. p \in Price /\ p.at = t /\ p.price = e.price
  BY <1>0 DEF Price
<1>2. /\ more \in Seq(Price) /\ more # <<>>
      /\ Len(more) = last /\ last \in DOMAIN more
      /\ DOMAIN more = DOMAIN prices \cup {last}
      /\ more[last] = p
      /\ \A i \in DOMAIN prices : more[i] = prices[i] /\ i < last
  <2> HIDE DEF p
  <2> QED  BY <1>1, AppendFacts
<1>3. OfDay(more, day) = OfDay(prices, day) \cup {last}
  BY <1>1, <1>2 DEF OfDay
<1>4. /\ \A i \in DOMAIN more : more[i].price > 0 /\ TehranDay(more[i].at) <= day
      /\ \A i, j \in DOMAIN more : i <= j => more[i].at <= more[j].at
  <2>1. \A i \in DOMAIN more : more[i].price > 0 /\ TehranDay(more[i].at) <= day
    BY <1>0, <1>1, <1>2 DEF Kept
  <2>2. \A i, j \in DOMAIN more : i <= j => more[i].at <= more[j].at
    <3> SUFFICES ASSUME NEW i \in DOMAIN more, NEW j \in DOMAIN more, i <= j
                 PROVE  more[i].at <= more[j].at
      OBVIOUS
    <3>1. CASE j = last
      BY <1>0, <1>1, <1>2, <3>1
    <3>2. CASE j # last /\ i # last
      BY <1>2, <3>2 DEF Kept
    <3>3. CASE j # last /\ i = last
      BY <1>0, <1>2, <3>3
    <3> QED  BY <3>1, <3>2, <3>3
  <2> QED  BY <2>1, <2>2
<1>5. (state.day = day /\ state.daily # NoWindow) <=> OfDay(prices, day) # {}
  BY <1>0, WindowOfDay
<1>6. /\ new.current = e.price /\ new.lastValid = e.price /\ new.updatedAt = t
      /\ new.day = day
      /\ new.previous = IF OfDay(prices, day) # {} THEN state.current ELSE NoPrice
      /\ new.daily = Applied(IF OfDay(prices, day) # {} THEN state.daily ELSE NoWindow, e.price)
  <2> HIDE DEF day
  <2> QED  BY <1>5 DEF Committed
<1>7. WindowTells(new.daily, more, day)
  <2>1. CASE OfDay(prices, day) = {}
    <3>1. new.daily = [open |-> e.price, high |-> e.price, low |-> e.price, current |-> e.price]
      BY <1>6, <2>1 DEF Applied
    <3>2. OfDay(more, day) = {last}
      BY <1>3, <2>1
    <3> HIDE DEF day, more, new, p
    <3> QED  BY <1>0, <1>1, <1>2, <3>1, <3>2 DEF WindowTells
  <2>2. CASE OfDay(prices, day) # {}
    <3>1. WindowTells(state.daily, prices, day) /\ state.daily # NoWindow
      <4>1. prices # <<>>
        BY <2>2 DEF OfDay
      <4> QED  BY <1>5, <2>2, <4>1 DEF Kept, RecordTells
    <3>2. state.daily \in Window
      BY DEF SymbolState
    <3>3. /\ new.daily.open = state.daily.open /\ new.daily.current = e.price
          /\ new.daily.high = IF e.price > state.daily.high THEN e.price ELSE state.daily.high
          /\ new.daily.low = IF e.price < state.daily.low THEN e.price ELSE state.daily.low
      BY <1>6, <2>2, <3>1 DEF Applied
    <3>4. \A i \in OfDay(prices, day) : i \in DOMAIN prices /\ i \in OfDay(more, day)
                                        /\ more[i].price = prices[i].price /\ i <= last
      BY <1>0, <1>2, <1>3 DEF OfDay
    <3>5. last \in OfDay(more, day) /\ more[last].price = e.price
      BY <1>1, <1>2, <1>3
    <3>6. \A i \in OfDay(more, day) : i \in OfDay(prices, day) \/ i = last
      BY <1>3
    <3>7. \A i \in OfDay(prices, day) : prices[i].price \in Nat
      <4>1. \A i \in DOMAIN prices : prices[i] \in Price
        OBVIOUS
      <4> QED  BY <3>4, <4>1 DEF Price
    <3> HIDE DEF day, more, new, p, last
    <3>8. \E i \in OfDay(more, day) : new.daily.open = more[i].price /\ \A j \in OfDay(more, day) : i <= j
      BY <3>1, <3>3, <3>4, <3>6 DEF WindowTells
    <3>9. \E i \in OfDay(more, day) : new.daily.high = more[i].price
      BY <3>1, <3>3, <3>4, <3>5 DEF WindowTells
    <3>10. \E i \in OfDay(more, day) : new.daily.low = more[i].price
      BY <3>1, <3>3, <3>4, <3>5 DEF WindowTells
    <3>11. \A i \in OfDay(more, day) :
              new.daily.low <= more[i].price /\ more[i].price <= new.daily.high
      <4> SUFFICES ASSUME NEW i \in OfDay(more, day)
                   PROVE  new.daily.low <= more[i].price /\ more[i].price <= new.daily.high
        OBVIOUS
      <4>1. state.daily.low \in Nat /\ state.daily.high \in Nat
        BY <3>2 DEF Window
      <4>2. CASE i = last
        BY <1>0, <3>3, <3>5, <4>1, <4>2
      <4>3. CASE i \in OfDay(prices, day)
        <5>1. state.daily.low <= prices[i].price /\ prices[i].price <= state.daily.high
          BY <3>1, <4>3 DEF WindowTells
        <5> QED  BY <1>0, <3>3, <3>4, <3>7, <4>1, <4>3, <5>1
      <4> QED  BY <3>6, <4>2, <4>3
    <3>12. new.daily.current = more[Len(more)].price
      BY <1>2, <3>3, <3>5
    <3> QED  BY <3>8, <3>9, <3>10, <3>11, <3>12 DEF WindowTells
  <2> QED  BY <2>1, <2>2
<1>8. new.previous = IF Len(more) - 1 \in OfDay(more, day)
                       THEN more[Len(more) - 1].price ELSE NoPrice
  <2>1. Len(more) - 1 = Len(prices) /\ Len(prices) # last
    BY <1>0, <1>2
  <2>2. CASE OfDay(prices, day) = {}
    BY <1>3, <1>6, <2>1, <2>2
  <2>3. CASE OfDay(prices, day) # {}
    <3>1. Len(prices) \in OfDay(prices, day) /\ prices # <<>> /\ Len(prices) \in DOMAIN prices
      BY <1>0, <2>3, LastOfDay
    <3>2. state.current = prices[Len(prices)].price
      BY <3>1 DEF Kept, RecordTells
    <3> QED  BY <1>2, <1>3, <1>6, <2>1, <2>3, <3>1, <3>2
  <2> QED  BY <2>2, <2>3
<1>9. RecordTells(new, more, day)
  <2>1. OfDay(more, day) # {}
    BY <1>3
  <2>2. more[Len(more)].price = e.price /\ more[Len(more)].at = t
    BY <1>1, <1>2
  <2> HIDE DEF day, more, new, p
  <2> QED  BY <1>2, <1>6, <1>7, <1>8, <2>1, <2>2 DEF RecordTells
<1> QED
  <2>1. new.day <= day
    BY <1>0, <1>6
  <2> HIDE DEF day, new
  <2>2. Kept(new, more, day)
    BY <1>4, <1>9, <2>1 DEF Kept
  <2> QED  BY <2>2 DEF new, day

LEMMA PastInTime ==
    ASSUME NEW prices \in Seq(Price), now \in Time, Past(prices)
    PROVE  \A i \in DOMAIN prices :
              /\ prices[i].at \in Time /\ prices[i].at <= now
              /\ prices[i].price \in Nat
              /\ TehranDay(prices[i].at) \in Nat
<1> SUFFICES ASSUME NEW i \in DOMAIN prices
             PROVE  /\ prices[i].at \in Time /\ prices[i].at <= now
                    /\ prices[i].price \in Nat /\ TehranDay(prices[i].at) \in Nat
  OBVIOUS
<1>1. prices[i] \in Price
  OBVIOUS
<1>2. prices[i].at \in Nat /\ prices[i].price \in Nat
  BY <1>1 DEF Price
<1>3. prices[i].at <= now
  BY DEF Past
<1>4. prices[i].at \in Time
  BY <1>2, <1>3, MarketStateAssumption DEF Time
<1> QED  BY <1>2, <1>3, <1>4, MarketStateAssumption

\* The records a payload finds, aligned with its day.
LEMMA RolledKept ==
    ASSUME TypeOK, HistoryInv, up
    PROVE  \A s \in Symbols : Kept(RolledStates(TehranDay(now))[s], ledger[s], TehranDay(now))
<1> SUFFICES ASSUME NEW s \in Symbols
             PROVE  Kept(RolledStates(TehranDay(now))[s], ledger[s], TehranDay(now))
  OBVIOUS
<1>1. /\ Kept(states[s], ledger[s], activeDay) /\ activeDay \in Nat
      /\ activeDay <= TehranDay(now) /\ Past(ledger[s])
  BY DEF HistoryInv
<1>2. /\ states[s] \in SymbolState /\ ledger[s] \in Seq(Price)
      /\ now \in Time /\ TehranDay(now) \in Nat
  BY MarketStateAssumption DEF TypeOK
<1>3. CASE activeDay = TehranDay(now)
  BY <1>1, <1>3 DEF RolledStates
<1>4. CASE activeDay # TehranDay(now)
  <2>1. \A i \in DOMAIN ledger[s] : TehranDay(ledger[s][i].at) \in Nat
    BY <1>1, <1>2, PastInTime
  <2>2. activeDay < TehranDay(now)
    BY <1>1, <1>2, <1>4
  <2>3. Kept(Rolled(states[s]), ledger[s], TehranDay(now))
    BY <1>1, <1>2, <2>1, <2>2, RollKeeps
  <2> QED  BY <1>4, <2>3 DEF RolledStates
<1> QED  BY <1>3, <1>4

LEMMA InitHistory == Init => HistoryInv
<1> SUFFICES ASSUME Init PROVE HistoryInv
  OBVIOUS
<1>1. 0 \in Time /\ TehranDay(0) \in Nat
  BY MarketStateAssumption DEF Time
<1>2. 0 <= TehranDay(0)
  BY <1>1
<1>3. \A day \in Nat : Kept(NoState, <<>>, day)
  BY EmptyKept
<1> QED
  BY <1>1, <1>2, <1>3 DEF Init, HistoryInv, Past, At, NoCycle

LEMMA EvaluateHistory ==
    ASSUME TypeOK, HistoryInv, NEW payload, \A s \in Symbols : payload[s] \in Entries[s],
           Evaluate(payload)
    PROVE  HistoryInv'
<1> DEFINE day == TehranDay(now)
<1> DEFINE rolled == RolledStates(day)
<1> DEFINE evaluations == Judged(payload, rolled, day)
<1> DEFINE accepted == {s \in Symbols : evaluations[s].reason = "ACCEPTED"}
<1> DEFINE p(s) == [cycle |-> cycles, at |-> now, price |-> evaluations[s].price]
<1>1. /\ now \in Time /\ now \in Nat /\ day \in Nat /\ cycles \in Nat
      /\ up /\ up' /\ now' = now /\ activeDay' = day /\ file' = file /\ saved' = saved
      /\ cycle'.receivedAt = now
  BY MarketStateAssumption, MarketEngineAssumption, TimeIsNat DEF TypeOK, Evaluate, At
<1>2. \A s \in Symbols : Kept(rolled[s], ledger[s], day)
  BY <1>1, RolledKept
<1>3. \A s \in Symbols : rolled[s] \in SymbolState
  BY RecordTypes DEF TypeOK, RolledStates
<1>4. \A s \in Symbols : /\ evaluations[s] \in Evaluation
                         /\ s \in accepted => evaluations[s].price > 0
  <2>1. \A s \in Symbols : payload[s] \in Entry
    BY MarketEngineAssumption
  <2>2. \A s \in Symbols : evaluations[s] = Evaluated(s, payload[s], rolled[s], day)
    BY DEF Judged
  <2> HIDE DEF rolled, day, evaluations
  <2> QED  BY <1>3, <2>1, <2>2, EvaluatedType
<1>5. \A s \in Symbols :
        /\ states'[s] = IF s \in accepted THEN Committed(rolled[s], evaluations[s], now, day)
                                          ELSE rolled[s]
        /\ ledger'[s] = IF s \in accepted THEN Append(ledger[s], p(s)) ELSE ledger[s]
  BY DEF Evaluate
<1> HIDE DEF rolled, evaluations, accepted
<1>6. \A s \in Symbols : Kept(states'[s], ledger'[s], day) /\ (Past(ledger[s]))'
  <2> SUFFICES ASSUME NEW s \in Symbols
               PROVE  Kept(states'[s], ledger'[s], day) /\ Past(ledger[s])'
    OBVIOUS
  <2>1. ledger[s] \in Seq(Price) /\ Past(ledger[s])
    BY DEF TypeOK, HistoryInv
  <2>2. \A i \in DOMAIN ledger[s] : ledger[s][i].at \in Time /\ ledger[s][i].at <= now
    BY <1>1, <2>1, PastInTime
  <2>3. CASE s \in accepted
    <3>1. Kept(Committed(rolled[s], evaluations[s], now, day), Append(ledger[s], p(s)), day)
      BY <1>1, <1>2, <1>3, <1>4, <2>1, <2>2, <2>3, CommitKeeps
    <3>2. p(s) \in Price /\ p(s).at = now
      BY <1>1, <1>4 DEF Price, Evaluation
    <3> HIDE DEF p
    <3>3. \A i \in DOMAIN Append(ledger[s], p(s)) : Append(ledger[s], p(s))[i].at <= now
      BY <1>1, <2>1, <2>2, <3>2, AppendFacts
    <3> QED  BY <1>1, <1>5, <2>3, <3>1, <3>3 DEF Past
  <2>4. CASE s \notin accepted
    BY <1>1, <1>2, <1>5, <2>1, <2>4 DEF Past
  <2> QED  BY <2>3, <2>4
<1>7. \A s \in Symbols : Past(saved[s])'
  BY <1>1 DEF HistoryInv, Past
<1>8. file'.day <= TehranDay(now') /\ \A s \in Symbols : Kept(file'.symbols[s], saved'[s], file'.day)
  BY <1>1 DEF HistoryInv
<1> QED
  BY <1>1, <1>6, <1>7, <1>8 DEF HistoryInv

LEMMA PastStays ==
    ASSUME NEW prices \in Seq(Price), now \in Time, now' \in Time, now <= now', Past(prices)
    PROVE  \A i \in DOMAIN prices : prices[i].at <= now'
<1>1. \A i \in DOMAIN prices : prices[i].at \in Nat /\ prices[i].at <= now
  BY PastInTime, TimeIsNat
<1> QED  BY <1>1, TimeIsNat

LEMMA NextHistory == TypeOK /\ HistoryInv /\ [Next]_vars => HistoryInv'
<1> SUFFICES ASSUME TypeOK, HistoryInv, [Next]_vars PROVE HistoryInv'
  OBVIOUS
<1>0. /\ now \in Time /\ TehranDay(now) \in Nat /\ cycle.receivedAt \in Time
      /\ TehranDay(cycle.receivedAt) \in Nat /\ file.day \in Nat
      /\ \A s \in Symbols : /\ states[s] \in SymbolState /\ file.symbols[s] \in SymbolState
                            /\ ledger[s] \in Seq(Price) /\ saved[s] \in Seq(Price)
  BY MarketStateAssumption DEF TypeOK, Cycle
\* Steps that leave the records alone and do not reach "saving".
<1>a. ASSUME UNCHANGED <<now, up, marketVars>>, up => cycle'.at # "saving", up
      PROVE  HistoryInv'
  BY <1>a DEF HistoryInv, marketVars, At, Past
<1>b. ASSUME NEW phase \in Phase \ {"saving"}, cycle' = [cycle EXCEPT !.at = phase]
      PROVE  cycle'.at # "saving"
  BY <1>b DEF TypeOK, Cycle
<1>1. CASE CycleBegins
  <2>1. cycle'.at # "saving"
    BY <1>1 DEF CycleBegins, NoCycle
  <2> QED  BY <1>1, <1>a, <2>1 DEF CycleBegins, At
<1>2. CASE FetchFails
  BY <1>2, <1>a DEF FetchFails, At, NoCycle
<1>3. CASE PayloadIsInvalid
  <2>1. /\ up /\ up' /\ now' = now /\ activeDay' = TehranDay(now) /\ file' = file
        /\ ledger' = ledger /\ saved' = saved /\ states' = RolledStates(TehranDay(now))
        /\ cycle'.at # "saving"
    BY <1>3 DEF PayloadIsInvalid, At, NoCycle
  <2>2. \A s \in Symbols : Kept(states'[s], ledger'[s], activeDay')
    BY <2>1, RolledKept
  <2> QED  BY <1>0, <2>1, <2>2 DEF HistoryInv, Past, At
<1>4. ASSUME NEW payload \in [Symbols -> UNION {Entries[s] : s \in Symbols}],
             (\A s \in Symbols : payload[s] \in Entries[s]) /\ Evaluate(payload)
      PROVE  HistoryInv'
  BY <1>4, EvaluateHistory
<1>5. CASE NothingToSave
  BY <1>5, <1>a, <1>b DEF NothingToSave, At, Phase
<1>6. CASE SaveSucceeds
  <2>1. /\ up /\ up' /\ now' = now /\ activeDay' = activeDay /\ states' = states
        /\ ledger' = ledger /\ saved' = ledger
        /\ file'.day = TehranDay(cycle.receivedAt) /\ activeDay = TehranDay(cycle.receivedAt)
        /\ \A s \in Symbols : file'.symbols[s] = Persisted(states[s])
    BY <1>6 DEF SaveSucceeds, At, HistoryInv
  <2>2. cycle'.at # "saving"
    BY <1>6, <1>b DEF SaveSucceeds, Phase
  <2>3. \A s \in Symbols : Kept(file'.symbols[s], saved'[s], file'.day)
    BY <1>0, <2>1, PersistKeeps DEF HistoryInv
  <2> QED  BY <2>1, <2>2, <2>3 DEF HistoryInv, Past, At
<1>7. CASE SaveFails
  BY <1>7, <1>a, <1>b DEF SaveFails, At, Phase
<1>8. ASSUME NEW a \in Anomaly, SuppressAnomaly(a) PROVE HistoryInv'
  <2>1. cycle'.at # "saving"
    BY <1>8 DEF SuppressAnomaly, At, TypeOK, Cycle
  <2> QED  BY <1>8, <1>a, <2>1 DEF SuppressAnomaly, At
<1>9. ASSUME NEW a \in Anomaly, SendAnomaly(a) PROVE HistoryInv'
  <2>1. cycle'.at # "saving"
    BY <1>9 DEF SendAnomaly, TypeOK, Cycle
  <2> QED  BY <1>9, <1>a, <2>1 DEF SendAnomaly, At
<1>10. CASE AnomalyIsAnswered
  BY <1>10, <1>a, <1>b DEF AnomalyIsAnswered, At, Phase
<1>11. CASE NotifyListeners
  BY <1>11, <1>a, <1>b DEF NotifyListeners, At, Phase
<1>12. CASE BuildUpdate
  <2>1. cycle'.at # "saving"
    BY <1>12 DEF BuildUpdate, TypeOK, Cycle
  <2> QED  BY <1>12, <1>a, <2>1 DEF BuildUpdate, At
<1>13. CASE CycleEnds
  BY <1>13, <1>a DEF CycleEnds, At, NoCycle
<1>14. CASE Tick
  <2>1. /\ now' \in Time /\ now <= now' /\ TehranDay(now) <= TehranDay(now')
        /\ TehranDay(now') \in Nat
    <3>1. now' \in Time /\ now <= now'
      BY <1>0, <1>14, MarketStateAssumption DEF Tick, Time
    <3> QED  BY <1>0, <3>1, MarketStateAssumption
  <2>2. UNCHANGED <<up, states, activeDay, file, ledger, saved, cycle>>
    BY <1>14 DEF Tick, marketVars
  <2>3. \A s \in Symbols : Past(ledger[s])' /\ Past(saved[s])'
    <3>1. \A s \in Symbols : Past(ledger[s]) /\ Past(saved[s])
      BY DEF HistoryInv
    <3>2. \A s \in Symbols : /\ \A i \in DOMAIN ledger[s] : ledger[s][i].at <= now'
                             /\ \A i \in DOMAIN saved[s] : saved[s][i].at <= now'
      BY <1>0, <2>1, <3>1, PastStays
    <3> QED  BY <2>2, <3>2 DEF Past
  <2>4. up => activeDay <= TehranDay(now')
    BY <1>0, <2>1 DEF HistoryInv
  <2>5. file.day <= TehranDay(now')
    BY <1>0, <2>1 DEF HistoryInv
  <2> QED  BY <2>2, <2>3, <2>4, <2>5 DEF HistoryInv, At
<1>15. CASE Crash
  <2>1. /\ ~up' /\ now' = now /\ file' = file /\ saved' = saved /\ cycle'.at = "idle"
        /\ \A s \in Symbols : states'[s] = NoState /\ ledger'[s] = <<>>
    BY <1>15 DEF Crash, NoCycle
  <2> QED  BY <2>1 DEF HistoryInv, Past, At
<1>16. CASE Restore
  <2>1. /\ ~up /\ up' /\ now' = now /\ file' = file /\ saved' = saved /\ ledger' = saved
        /\ cycle' = cycle /\ activeDay' = TehranDay(now) /\ cycle.at = "idle"
        /\ \A s \in Symbols : states'[s] = Restored(file.symbols[s], TehranDay(now))
    BY <1>16 DEF Restore, HistoryInv
  <2>2. \A s \in Symbols : Kept(states'[s], ledger'[s], activeDay')
    <3> SUFFICES ASSUME NEW s \in Symbols
                 PROVE  Kept(Restored(file.symbols[s], TehranDay(now)), saved[s], TehranDay(now))
      BY <2>1
    <3>1. Kept(file.symbols[s], saved[s], file.day) /\ Past(saved[s])
          /\ file.day <= TehranDay(now)
      BY DEF HistoryInv
    <3>2. \A i \in DOMAIN saved[s] : TehranDay(saved[s][i].at) \in Nat
      BY <1>0, <3>1, PastInTime
    <3> QED  BY <1>0, <3>1, <3>2, RestoreKeeps
  <2> QED  BY <1>0, <2>1, <2>2 DEF HistoryInv, Past, At
<1>17. CASE RestoreFails
  <2>1. /\ ~up /\ up' /\ now' = now /\ file' = file /\ saved' = saved /\ ledger' = ledger
        /\ cycle' = cycle /\ activeDay' = TehranDay(now) /\ cycle.at = "idle"
        /\ states' = states
        /\ \A s \in Symbols : states[s] = NoState /\ ledger[s] = <<>>
    BY <1>17 DEF RestoreFails, HistoryInv
  <2>2. Kept(NoState, <<>>, TehranDay(now))
    BY <1>0, EmptyKept
  <2> QED  BY <1>0, <2>1, <2>2 DEF HistoryInv, Past, At
<1>18. CASE UNCHANGED vars
  BY <1>18 DEF vars, marketVars, HistoryInv, Past, At
<1> QED
  BY <1>1, <1>2, <1>3, <1>4, <1>5, <1>6, <1>7, <1>8, <1>9, <1>10, <1>11, <1>12, <1>13,
     <1>14, <1>15, <1>16, <1>17, <1>18
  DEF Next, CycleStep

\* The record of a symbol, in memory and in the file, is the one its accepted prices
\* determine, for any symbols, limits, calendar, cycles, crashes and file faults
\* (MarketStateService: commit, rollDayIfNeeded, restore, persist).
THEOREM StateAlwaysTellsHistory == Spec => []StateTellsHistory
<1>1. Init => TypeOK /\ HistoryInv
  BY InitTypes, InitHistory
<1>2. (TypeOK /\ HistoryInv) /\ [Next]_vars => (TypeOK /\ HistoryInv)'
  BY NextTypes, NextHistory
<1>3. HistoryInv => StateTellsHistory
  BY DEF HistoryInv, Kept, StateTellsHistory
<1> QED  BY <1>1, <1>2, <1>3, PTL DEF Spec

-----------------------------------------------------------------------------
(* Moves are plausible *)

\* MovesArePlausible for one history of a symbol.
Plausible(s, prices) ==
    \A i \in DOMAIN prices :
        /\ InRange(s, prices[i].price)
        /\ i > 1 => MoveIsAllowed(s, prices[i - 1].price, prices[i].price,
                        IF TehranDay(prices[i - 1].at) = TehranDay(prices[i].at)
                          THEN "SAME_DAY" ELSE "PREVIOUS_DAY")

MovesInv == \A s \in Symbols : Plausible(s, ledger[s]) /\ Plausible(s, saved[s])

\* The baseline of a kept record is the last accepted price, and it is of the same day
\* exactly if that price is.
LEMMA BaselineTells ==
    ASSUME NEW prices \in Seq(Price), NEW state \in SymbolState, NEW day \in Nat,
           Kept(state, prices, day), \A i \in DOMAIN prices : prices[i].at \in Time
    PROVE  IF prices = <<>>
             THEN BaselineOf(state, day).source = "NONE"
             ELSE BaselineOf(state, day) =
                    [price |-> prices[Len(prices)].price,
                     source |-> IF TehranDay(prices[Len(prices)].at) = day
                                  THEN "SAME_DAY" ELSE "PREVIOUS_DAY"]
<1>1. CASE prices = <<>>
  <2>1. state = NoState
    BY <1>1 DEF Kept, RecordTells
  <2> QED  BY <1>1, <2>1, TheNoState DEF BaselineOf, NoPrice
<1>2. CASE prices # <<>>
  <2>1. Len(prices) \in DOMAIN prices
    BY <1>2
  <2>2. /\ state.current = prices[Len(prices)].price
        /\ state.lastValid = prices[Len(prices)].price
        /\ prices[Len(prices)].price > 0
    BY <1>2, <2>1 DEF Kept, RecordTells
  <2>3. (state.day = day /\ state.daily # NoWindow) <=> OfDay(prices, day) # {}
    BY WindowOfDay
  <2>4. OfDay(prices, day) # {} <=> TehranDay(prices[Len(prices)].at) = day
    <3>1. CASE OfDay(prices, day) = {}
      BY <2>1, <3>1 DEF OfDay
    <3>2. CASE OfDay(prices, day) # {}
      <4>1. Len(prices) \in OfDay(prices, day)
        BY <3>2, LastOfDay
      <4> QED  BY <3>2, <4>1 DEF OfDay
    <3> QED  BY <3>1, <3>2
  <2> QED  BY <1>2, <2>2, <2>3, <2>4 DEF BaselineOf
<1> QED  BY <1>1, <1>2

\* What the sanity engine lets through extends a plausible history.
LEMMA AcceptedIsPlausible ==
    ASSUME NEW s \in Symbols, NEW entry, NEW prices \in Seq(Price),
           NEW state \in SymbolState, NEW t \in Time, NEW p \in Price,
           Kept(state, prices, TehranDay(t)), \A i \in DOMAIN prices : prices[i].at \in Time,
           Plausible(s, prices),
           Evaluated(s, entry, state, TehranDay(t)).reason = "ACCEPTED",
           p.price = Evaluated(s, entry, state, TehranDay(t)).price, p.at = t
    PROVE  Plausible(s, Append(prices, p))
<1> DEFINE day == TehranDay(t)
<1> DEFINE base == BaselineOf(state, day)
<1> DEFINE e == Evaluated(s, entry, state, day)
<1> DEFINE more == Append(prices, p)
<1>0. day \in Nat /\ Len(prices) \in Nat
  BY MarketStateAssumption
<1>1. /\ InRange(s, p.price)
      /\ base.source = "NONE" \/ MoveIsAllowed(s, base.price, p.price, base.source)
  <2>1. e.reason = Reason(s, p.price, base) /\ Reason(s, p.price, base) = "ACCEPTED"
    BY DEF Evaluated, NoEvaluation
  <2> HIDE DEF base, e
  <2> QED  BY <2>1 DEF Reason
<1>2. /\ DOMAIN more = DOMAIN prices \cup {Len(prices) + 1}
      /\ more[Len(prices) + 1] = p
      /\ \A i \in DOMAIN prices : more[i] = prices[i] /\ i < Len(prices) + 1
  BY AppendFacts
<1>3. prices # <<>> => MoveIsAllowed(s, prices[Len(prices)].price, p.price,
                         IF TehranDay(prices[Len(prices)].at) = TehranDay(p.at)
                           THEN "SAME_DAY" ELSE "PREVIOUS_DAY")
  <2> SUFFICES ASSUME prices # <<>>
               PROVE  MoveIsAllowed(s, prices[Len(prices)].price, p.price,
                         IF TehranDay(prices[Len(prices)].at) = day
                           THEN "SAME_DAY" ELSE "PREVIOUS_DAY")
    OBVIOUS
  <2>1. base = [price |-> prices[Len(prices)].price,
                source |-> IF TehranDay(prices[Len(prices)].at) = day
                             THEN "SAME_DAY" ELSE "PREVIOUS_DAY"]
    <3> HIDE DEF day
    <3> QED  BY <1>0, BaselineTells DEF day
  <2> HIDE DEF base, day
  <2>2. base.source # "NONE"
    BY <2>1
  <2> QED  BY <1>1, <2>1, <2>2
<1> HIDE DEF more, base, e
<1> SUFFICES ASSUME NEW i \in DOMAIN more
             PROVE  /\ InRange(s, more[i].price)
                    /\ i > 1 => MoveIsAllowed(s, more[i - 1].price, more[i].price,
                                  IF TehranDay(more[i - 1].at) = TehranDay(more[i].at)
                                    THEN "SAME_DAY" ELSE "PREVIOUS_DAY")
  BY DEF Plausible, more
<1>4. CASE i \in DOMAIN prices
  <2>1. i > 1 => i - 1 \in DOMAIN prices
    BY <1>4
  <2> QED  BY <1>2, <1>4, <2>1 DEF Plausible
<1>5. CASE i = Len(prices) + 1
  <2>1. i > 1 => /\ prices # <<>> /\ i - 1 = Len(prices) /\ Len(prices) \in DOMAIN prices
    BY <1>0, <1>5
  <2> QED  BY <1>1, <1>2, <1>3, <1>5, <2>1
<1> QED  BY <1>2, <1>4, <1>5

LEMMA EvaluateMoves ==
    ASSUME TypeOK, HistoryInv, MovesInv, NEW payload,
           \A s \in Symbols : payload[s] \in Entries[s], Evaluate(payload)
    PROVE  MovesInv'
<1> DEFINE day == TehranDay(now)
<1> DEFINE rolled == RolledStates(day)
<1> DEFINE evaluations == Judged(payload, rolled, day)
<1> DEFINE p(s) == [cycle |-> cycles, at |-> now, price |-> evaluations[s].price]
<1>1. now \in Time /\ now \in Nat /\ day \in Nat /\ cycles \in Nat /\ up /\ saved' = saved
  BY MarketStateAssumption, MarketEngineAssumption, TimeIsNat DEF TypeOK, Evaluate, At
<1>2. \A s \in Symbols : Kept(rolled[s], ledger[s], day) /\ rolled[s] \in SymbolState
  BY <1>1, RolledKept, RecordTypes DEF TypeOK, RolledStates
<1>3. \A s \in Symbols : evaluations[s] = Evaluated(s, payload[s], rolled[s], day)
  BY DEF Judged
<1>4. \A s \in Symbols :
        ledger'[s] = IF evaluations[s].reason = "ACCEPTED"
                       THEN Append(ledger[s], p(s)) ELSE ledger[s]
  BY DEF Evaluate
<1> HIDE DEF rolled, evaluations
<1> SUFFICES ASSUME NEW s \in Symbols PROVE Plausible(s, ledger'[s])
  BY <1>1 DEF MovesInv
<1>5. ledger[s] \in Seq(Price) /\ Plausible(s, ledger[s]) /\ Past(ledger[s])
  BY DEF TypeOK, MovesInv, HistoryInv
<1>6. CASE evaluations[s].reason = "ACCEPTED"
  <2>1. p(s) \in Price /\ p(s).at = now /\ p(s).price = evaluations[s].price
    <3>1. payload[s] \in Entry
      BY MarketEngineAssumption
    <3>2. evaluations[s] \in Evaluation
      <4> HIDE DEF day
      <4> QED  BY <1>2, <1>3, <3>1, EvaluatedType
    <3> QED  BY <1>1, <3>2 DEF Price, Evaluation
  <2>2. \A i \in DOMAIN ledger[s] : ledger[s][i].at \in Time
    BY <1>1, <1>5, PastInTime
  <2> HIDE DEF p
  <2>3. Plausible(s, Append(ledger[s], p(s)))
    BY <1>1, <1>2, <1>3, <1>5, <1>6, <2>1, <2>2, AcceptedIsPlausible
  <2> QED  BY <1>4, <1>6, <2>3
<1>7. CASE evaluations[s].reason # "ACCEPTED"
  BY <1>4, <1>5, <1>7
<1> QED  BY <1>6, <1>7

LEMMA NextMoves == TypeOK /\ HistoryInv /\ MovesInv /\ [Next]_vars => MovesInv'
<1> SUFFICES ASSUME TypeOK, HistoryInv, MovesInv, [Next]_vars PROVE MovesInv'
  OBVIOUS
<1>1. ASSUME NEW payload \in [Symbols -> UNION {Entries[s] : s \in Symbols}],
             (\A s \in Symbols : payload[s] \in Entries[s]) /\ Evaluate(payload)
      PROVE  MovesInv'
  BY <1>1, EvaluateMoves
<1>2. CASE SaveSucceeds
  BY <1>2 DEF SaveSucceeds, MovesInv
<1>3. CASE Crash
  BY <1>3 DEF Crash, MovesInv, Plausible
<1>4. CASE Restore
  BY <1>4 DEF Restore, MovesInv
\* Every other step leaves both histories alone.
<1>5. ASSUME UNCHANGED <<ledger, saved>> PROVE MovesInv'
  BY <1>5 DEF MovesInv
<1>6. CASE \/ CycleBegins \/ FetchFails \/ PayloadIsInvalid \/ NothingToSave \/ SaveFails
           \/ AnomalyIsAnswered \/ NotifyListeners \/ BuildUpdate \/ CycleEnds \/ Tick
           \/ RestoreFails \/ UNCHANGED vars
  BY <1>5, <1>6
  DEF CycleBegins, FetchFails, PayloadIsInvalid, NothingToSave, SaveFails, AnomalyIsAnswered,
      NotifyListeners, BuildUpdate, CycleEnds, Tick, RestoreFails, vars, marketVars
<1>7. ASSUME NEW a \in Anomaly, SuppressAnomaly(a) \/ SendAnomaly(a) PROVE MovesInv'
  BY <1>5, <1>7 DEF SuppressAnomaly, SendAnomaly, marketVars
<1> QED  BY <1>1, <1>2, <1>3, <1>4, <1>6, <1>7 DEF Next, CycleStep

\* Each accepted price lies within the bounds of its symbol and moved from the one
\* before it by no more than the limit of the day or, for the first price of a day, of
\* the change of days (SanityChecker.evaluate over a record that was rolled, restored
\* or lost in between).
THEOREM MovesAreAlwaysPlausible == Spec => []MovesArePlausible
<1>1. Init => TypeOK /\ HistoryInv /\ MovesInv
  BY InitTypes, InitHistory DEF Init, MovesInv, Plausible
<1>2. (TypeOK /\ HistoryInv /\ MovesInv) /\ [Next]_vars => (TypeOK /\ HistoryInv /\ MovesInv)'
  BY NextTypes, NextHistory, NextMoves
<1>3. MovesInv => MovesArePlausible
  BY DEF MovesInv, Plausible, MovesArePlausible
<1> QED  BY <1>1, <1>2, <1>3, PTL DEF Spec

-----------------------------------------------------------------------------
(* Anomalies are counted *)

\* What a process has seen of an anomaly is told, merged into a message or counted for
\* the next one, whatever cooldowns expire and messages get lost (reportAnomaly).
THEOREM AnomaliesAreAlwaysCounted == Spec => []AnomaliesAreCounted
<1>1. Init => AnomaliesAreCounted
  BY DEF Init, AnomaliesAreCounted, NoEntry
<1>2. TypeOK /\ AnomaliesAreCounted /\ [Next]_vars => AnomaliesAreCounted'
  <2> SUFFICES ASSUME TypeOK, AnomaliesAreCounted, [Next]_vars PROVE AnomaliesAreCounted'
    OBVIOUS
  <2>1. \A a \in Anomaly : /\ seen[a] \in Nat /\ accounted[a] \in Nat
                           /\ cooldowns[a] \in CooldownEntry /\ cooldowns[a].suppressed \in Nat
    BY DEF TypeOK, CooldownEntry
  <2>2. ASSUME NEW a \in Anomaly, SuppressAnomaly(a) PROVE AnomaliesAreCounted'
    <3>1. seen' = [seen EXCEPT ![a] = @ + 1] /\ accounted' = accounted
          /\ cooldowns' = [cooldowns EXCEPT ![a].suppressed = @ + 1]
      BY <2>2 DEF SuppressAnomaly
    <3>2. cooldowns'[a].suppressed = cooldowns[a].suppressed + 1
          /\ \A b \in Anomaly : b # a => cooldowns'[b] = cooldowns[b]
      BY <2>1, <3>1 DEF TypeOK, CooldownEntry
    <3> QED  BY <2>1, <3>1, <3>2 DEF TypeOK, AnomaliesAreCounted
  <2>3. ASSUME NEW a \in Anomaly, SendAnomaly(a) PROVE AnomaliesAreCounted'
    <3>1. /\ seen' = [seen EXCEPT ![a] = @ + 1]
          /\ accounted' = [accounted EXCEPT ![a] = @ + 1 + cooldowns[a].suppressed]
          /\ cooldowns' = [cooldowns EXCEPT ![a] = [sentAt |-> cycle.receivedAt, suppressed |-> 0]]
      BY <2>3 DEF SendAnomaly
    <3>2. cooldowns'[a].suppressed = 0 /\ \A b \in Anomaly : b # a => cooldowns'[b] = cooldowns[b]
      BY <2>1, <3>1 DEF TypeOK
    <3>3. /\ seen'[a] = seen[a] + 1 /\ accounted'[a] = accounted[a] + 1 + cooldowns[a].suppressed
          /\ \A b \in Anomaly : b # a => seen'[b] = seen[b] /\ accounted'[b] = accounted[b]
      BY <3>1 DEF TypeOK
    <3>4. seen[a] = accounted[a] + cooldowns[a].suppressed
      BY DEF AnomaliesAreCounted
    <3>5. seen'[a] = accounted'[a] + cooldowns'[a].suppressed
      BY <2>1, <3>2, <3>3, <3>4
    <3> QED  BY <3>2, <3>3, <3>5 DEF AnomaliesAreCounted
  <2>4. CASE Crash
    BY <2>4 DEF Crash, AnomaliesAreCounted, NoEntry
  \* Every other step leaves the counts alone.
  <2>5. ASSUME UNCHANGED anomalyVars PROVE AnomaliesAreCounted'
    BY <2>5 DEF anomalyVars, AnomaliesAreCounted
  <2>6. CASE \/ CycleBegins \/ FetchFails \/ PayloadIsInvalid \/ NothingToSave \/ SaveSucceeds
             \/ SaveFails \/ AnomalyIsAnswered \/ NotifyListeners \/ BuildUpdate \/ CycleEnds
             \/ Tick \/ Restore \/ RestoreFails \/ UNCHANGED vars
    BY <2>5, <2>6
    DEF CycleBegins, FetchFails, PayloadIsInvalid, NothingToSave, SaveSucceeds, SaveFails,
        AnomalyIsAnswered, NotifyListeners, BuildUpdate, CycleEnds, Tick, Restore,
        RestoreFails, vars
  <2>7. ASSUME NEW payload, Evaluate(payload) PROVE AnomaliesAreCounted'
    BY <2>5, <2>7 DEF Evaluate
  <2> QED  BY <2>2, <2>3, <2>4, <2>6, <2>7 DEF Next, CycleStep
<1>3. Init => TypeOK
  BY InitTypes
<1>4. TypeOK /\ [Next]_vars => TypeOK'
  BY NextTypes
<1> QED  BY <1>1, <1>2, <1>3, <1>4, PTL DEF Spec

-----------------------------------------------------------------------------
(* The path is told *)

\* The cycle that wrote an accepted price has yet to tell it.
Telling == cycle.at \in {"saving", "reporting", "sending"}

Before(prices, i) == IF i = 1 THEN NoPrice ELSE prices[i - 1].price

Heard(s, p) == {k \in DOMAIN told[s] : told[s][k].cycle = p.cycle}

\* Those that will not be told any more.
Missed(s, prices) ==
    {i \in DOMAIN prices : Heard(s, prices[i]) = {} /\ ~ (Telling /\ prices[i].cycle = cycles)}

Earlier(prices) == \A i \in DOMAIN prices : prices[i].cycle < cycles

\* A history has one price of a cycle at most, and its events carry the price before.
Path(s, prices) ==
    /\ \A i \in DOMAIN prices : prices[i].cycle <= cycles
    /\ \A i, j \in DOMAIN prices : i < j => prices[i].cycle < prices[j].cycle
    /\ \A i \in DOMAIN prices : \A k \in Heard(s, prices[i]) :
          told[s][k].previous = Before(prices, i)
    /\ Cardinality(Missed(s, prices)) <= crashes

\* What the cycle has accepted is the last of its history; what it has not, is of
\* an earlier one.
CommitTold(s) ==
    IF s \in Accepted(cycle)
      THEN LET n == Len(ledger[s]) IN
           /\ ledger[s] # <<>>
           /\ ledger[s][n].cycle = cycles
           /\ ledger[s][n].price = cycle.evaluations[s].price
           /\ ledger[s][n].at = cycle.receivedAt
           /\ cycle.evaluations[s].previous = Before(ledger[s], n)
      ELSE Earlier(ledger[s])

PathInv ==
    /\ \A s \in Symbols : Path(s, ledger[s]) /\ Path(s, saved[s])
    /\ \A s \in Symbols : \A k \in DOMAIN told[s] :
          /\ told[s][k].cycle <= cycles
          /\ Telling \/ cycle.at = "fetching" => told[s][k].cycle < cycles
    /\ cycle.at = "fetching" => \A s \in Symbols : Earlier(ledger[s]) /\ Earlier(saved[s])
    /\ cycle.at \notin {"idle", "fetching"} =>
          /\ activeDay = TehranDay(cycle.receivedAt)
          /\ \A s \in Symbols : /\ CommitTold(s)
                                /\ saved[s] = ledger[s] \/ Earlier(saved[s])

LEMMA CyclesOfPrices ==
    ASSUME NEW prices \in Seq(Price)
    PROVE  \A i \in DOMAIN prices : prices[i].cycle \in Nat
<1>1. \A i \in DOMAIN prices : prices[i] \in Price
  OBVIOUS
<1> QED  BY <1>1 DEF Price

LEMMA CyclesOfEvents ==
    ASSUME NEW events \in Seq(Event)
    PROVE  \A i \in DOMAIN events : events[i].cycle \in Nat
<1>1. \A i \in DOMAIN events : events[i] \in Event
  OBVIOUS
<1> QED  BY <1>1 DEF Event

LEMMA MissedIsFinite ==
    ASSUME TypeOK, NEW s \in Symbols, NEW prices \in Seq(Price)
    PROVE  IsFiniteSet(Missed(s, prices)) /\ Cardinality(Missed(s, prices)) \in Nat
<1>1. IsFiniteSet(DOMAIN prices)
  <2>1. DOMAIN prices = 1 .. Len(prices) /\ Len(prices) \in Nat
    OBVIOUS
  <2> QED  BY <2>1, FS_Interval
<1>2. Missed(s, prices) \in SUBSET (DOMAIN prices)
  BY DEF Missed
<1> QED  BY <1>1, <1>2, FS_Subset, FS_CardinalityType

\* Steps that neither commit nor tell: a history may be saved or restored.
LEMMA QuietPath ==
    ASSUME TypeOK, PathInv, UNCHANGED <<told, cycles, crashes>>, Telling' <=> Telling,
           \A s \in Symbols : ledger'[s] \in {ledger[s], saved[s]} /\ saved'[s] \in {ledger[s], saved[s]},
           cycle'.at = "fetching" => cycle.at = "fetching",
           cycle'.at \notin {"idle", "fetching"} =>
              /\ cycle.at \notin {"idle", "fetching"}
              /\ UNCHANGED <<ledger, activeDay>>
              /\ cycle'.receivedAt = cycle.receivedAt /\ cycle'.evaluations = cycle.evaluations
    PROVE  PathInv'
<1>1. \A s, p : Heard(s, p)' = Heard(s, p)
  BY DEF Heard
<1>2. \A s, prices : Missed(s, prices)' = Missed(s, prices)
  BY <1>1 DEF Missed
<1>3. \A s, prices : Path(s, prices) => Path(s, prices)'
  BY <1>1, <1>2 DEF Path, Before
<1>4. \A s \in Symbols : Path(s, ledger[s])' /\ Path(s, saved[s])'
  <2> TAKE s \in Symbols
  <2>1. Path(s, ledger[s]) /\ Path(s, saved[s])
    BY DEF PathInv
  <2>2. PICK l, d : l = ledger'[s] /\ d = saved'[s]
    OBVIOUS
  <2>3. Path(s, l)' /\ Path(s, d)'
    BY <1>3, <2>1, <2>2
  <2> QED  BY <2>2, <2>3 DEF Path, Missed, Heard, Telling, Before
<1>5. \A s \in Symbols : \A k \in DOMAIN told'[s] :
        /\ told'[s][k].cycle <= cycles'
        /\ Telling' \/ cycle'.at = "fetching" => told'[s][k].cycle < cycles'
  BY DEF PathInv
<1>6. cycle'.at = "fetching" => \A s \in Symbols : Earlier(ledger[s])' /\ Earlier(saved[s])'
  BY DEF PathInv, Earlier
<1>7. ASSUME cycle'.at \notin {"idle", "fetching"}
      PROVE  /\ activeDay' = TehranDay(cycle'.receivedAt)
             /\ \A s \in Symbols : /\ CommitTold(s)'
                                   /\ saved'[s] = ledger'[s] \/ Earlier(saved[s])'
  <2>1. activeDay' = TehranDay(cycle'.receivedAt)
    BY <1>7 DEF PathInv
  <2>2. \A s \in Symbols : CommitTold(s)
    BY <1>7 DEF PathInv
  <2>3. \A s \in Symbols : CommitTold(s)'
    BY <1>7, <2>2 DEF CommitTold, Accepted, Before, Earlier
  <2>4. \A s \in Symbols : saved'[s] = ledger'[s] \/ Earlier(saved[s])'
    BY <1>7 DEF PathInv, Earlier
  <2> QED  BY <2>1, <2>3, <2>4
<1> QED  BY <1>4, <1>5, <1>6, <1>7 DEF PathInv

LEMMA CycleBeginsPath ==
    ASSUME TypeOK, PathInv, CycleBegins
    PROVE  PathInv'
<1>1. /\ cycle.at = "idle" /\ cycle'.at = "fetching" /\ cycles' = cycles + 1 /\ cycles \in Nat
      /\ UNCHANGED <<ledger, saved, told, crashes>>
  BY MarketEngineAssumption DEF CycleBegins, At, NoCycle, marketVars, TypeOK
<1>2. \A s \in Symbols : ledger[s] \in Seq(Price) /\ saved[s] \in Seq(Price) /\ told[s] \in Seq(Event)
  BY DEF TypeOK
<1>3. ASSUME NEW s \in Symbols, NEW prices \in Seq(Price), Path(s, prices)
      PROVE  Path(s, prices)' /\ Earlier(prices)'
  <2>1. \A i \in DOMAIN prices : prices[i].cycle \in Nat
    BY CyclesOfPrices
  <2>2. \A i \in DOMAIN prices : prices[i].cycle < cycles'
    BY <1>1, <1>3, <2>1 DEF Path
  <2>3. \A p : Heard(s, p)' = Heard(s, p)
    BY <1>1 DEF Heard
  <2>4. Missed(s, prices)' = Missed(s, prices)
    BY <1>1, <2>3 DEF Missed, Telling
  <2> QED  BY <1>1, <1>3, <2>1, <2>2, <2>3, <2>4 DEF Path, Before, Earlier
<1>4. \A s \in Symbols : Path(s, ledger[s])' /\ Path(s, saved[s])'
                         /\ Earlier(ledger[s])' /\ Earlier(saved[s])'
  <2> TAKE s \in Symbols
  <2> PICK l, d : l = ledger[s] /\ d = saved[s]
    OBVIOUS
  <2>1. Path(s, l)' /\ Path(s, d)' /\ Earlier(l)' /\ Earlier(d)'
    BY <1>2, <1>3 DEF PathInv
  <2>2. ledger'[s] = l /\ saved'[s] = d
    BY <1>1
  <2> QED  BY <2>1, <2>2 DEF Path, Missed, Heard, Telling, Before, Earlier
<1>5. \A s \in Symbols : \A k \in DOMAIN told[s] : told[s][k].cycle < cycles'
  <2>1. \A s \in Symbols : \A k \in DOMAIN told[s] : told[s][k].cycle \in Nat
    BY <1>2, CyclesOfEvents
  <2> QED  BY <1>1, <2>1 DEF PathInv
<1>6. \A s \in Symbols : \A k \in DOMAIN told'[s] :
        /\ told'[s][k].cycle <= cycles'
        /\ Telling' \/ cycle'.at = "fetching" => told'[s][k].cycle < cycles'
  <2>1. \A s \in Symbols : \A k \in DOMAIN told[s] : told[s][k].cycle \in Nat
    BY <1>2, CyclesOfEvents
  <2> QED  BY <1>1, <1>5, <2>1
<1> QED  BY <1>1, <1>4, <1>6 DEF PathInv

\* An accepted price travels with the baseline it was judged by.
LEMMA EvaluatedPrevious ==
    ASSUME NEW s, NEW entry, NEW state, NEW day, Evaluated(s, entry, state, day).reason = "ACCEPTED"
    PROVE  Evaluated(s, entry, state, day).previous = BaselineOf(state, day).price
<1>1. CASE entry.kind # "value" \/ entry.amount <= 0
  BY <1>1 DEF Evaluated, NoEvaluation
<1>2. CASE ~ (entry.kind # "value" \/ entry.amount <= 0)
  <2>1. Evaluated(s, entry, state, day) =
          [reason |-> Reason(s, Normalized(s, entry), BaselineOf(state, day)),
           price |-> Normalized(s, entry), previous |-> BaselineOf(state, day).price,
           source |-> BaselineOf(state, day).source]
    BY <1>2 DEF Evaluated
  <2> QED  BY <2>1
<1> QED  BY <1>1, <1>2

LEMMA EvaluatePath ==
    ASSUME TypeOK, HistoryInv, PathInv, NEW payload,
           \A s \in Symbols : payload[s] \in Entries[s], Evaluate(payload)
    PROVE  PathInv'
<1> DEFINE day == TehranDay(now)
<1> DEFINE rolled == RolledStates(day)
<1> DEFINE evaluations == Judged(payload, rolled, day)
<1> DEFINE p(s) == [cycle |-> cycles, at |-> now, price |-> evaluations[s].price]
<1>1. /\ now \in Time /\ now \in Nat /\ day \in Nat /\ cycles \in Nat /\ up /\ cycle.at = "fetching"
      /\ crashes \in Nat
  BY MarketStateAssumption, MarketEngineAssumption, TimeIsNat DEF TypeOK, Evaluate, At
<1>2. \A s \in Symbols : Kept(rolled[s], ledger[s], day) /\ rolled[s] \in SymbolState
  BY <1>1, RolledKept, RecordTypes DEF TypeOK, RolledStates
<1>3. \A s \in Symbols : evaluations[s] = Evaluated(s, payload[s], rolled[s], day)
  BY DEF Judged
<1>4. /\ \A s \in Symbols :
            ledger'[s] = IF evaluations[s].reason = "ACCEPTED"
                           THEN Append(ledger[s], p(s)) ELSE ledger[s]
      /\ cycle'.at = "saving" /\ cycle'.receivedAt = now /\ cycle'.evaluations = evaluations
      /\ activeDay' = day /\ UNCHANGED <<saved, told, cycles, crashes>>
  BY DEF Evaluate, boundVars
<1>5. \A s \in Symbols :
        /\ ledger[s] \in Seq(Price) /\ saved[s] \in Seq(Price) /\ told[s] \in Seq(Event)
        /\ Path(s, ledger[s]) /\ Path(s, saved[s]) /\ Earlier(ledger[s]) /\ Earlier(saved[s])
        /\ \A k \in DOMAIN told[s] : told[s][k].cycle < cycles
  BY <1>1 DEF TypeOK, PathInv
<1>6. \A s \in Symbols : p(s) \in Price /\ p(s).cycle = cycles /\ p(s).at = now
                         /\ p(s).price = evaluations[s].price
  <2> TAKE s \in Symbols
  <2>1. payload[s] \in Entry
    BY MarketEngineAssumption
  <2>2. evaluations[s] \in Evaluation
    <3> HIDE DEF day, rolled, evaluations
    <3> QED  BY <1>2, <1>3, <2>1, EvaluatedType
  <2> HIDE DEF evaluations
  <2> QED  BY <1>1, <2>2 DEF Price, Evaluation
<1>7. \A s \in Symbols : evaluations[s].reason = "ACCEPTED" =>
        evaluations[s].previous = IF ledger[s] = <<>> THEN NoPrice
                                  ELSE ledger[s][Len(ledger[s])].price
  <2> SUFFICES ASSUME NEW s \in Symbols, evaluations[s].reason = "ACCEPTED"
               PROVE  evaluations[s].previous = IF ledger[s] = <<>> THEN NoPrice
                                  ELSE ledger[s][Len(ledger[s])].price
    OBVIOUS
  <2>1. evaluations[s].previous = BaselineOf(rolled[s], day).price
    <3> HIDE DEF rolled, day, evaluations
    <3> QED  BY <1>3, EvaluatedPrevious
  <2>2. \A i \in DOMAIN ledger[s] : ledger[s][i].at \in Time
    BY <1>1, <1>5, PastInTime DEF HistoryInv
  <2> HIDE DEF rolled, day, evaluations
  <2>3. IF ledger[s] = <<>> THEN BaselineOf(rolled[s], day).source = "NONE"
        ELSE BaselineOf(rolled[s], day).price = ledger[s][Len(ledger[s])].price
    BY <1>1, <1>2, <1>5, <2>2, BaselineTells
  <2>4. BaselineOf(rolled[s], day).source = "NONE" => BaselineOf(rolled[s], day).price = NoPrice
    BY DEF BaselineOf
  <2> QED  BY <2>1, <2>3, <2>4
<1> HIDE DEF evaluations, p, rolled, day
\* A history that is not continued.
<1>8. ASSUME NEW s \in Symbols, NEW prices, Path(s, prices), Earlier(prices)
      PROVE  Path(s, prices)'
  <2>1. \A q : Heard(s, q)' = Heard(s, q)
    BY <1>4 DEF Heard
  <2>2. \A i \in DOMAIN prices : prices[i].cycle # cycles
    BY <1>1, <1>8 DEF Earlier
  <2>3. Missed(s, prices)' = Missed(s, prices)
    BY <1>4, <2>1, <2>2 DEF Missed
  <2> QED  BY <1>4, <1>8, <2>1, <2>3 DEF Path, Before
\* One that is.
<1>9. ASSUME NEW s \in Symbols, NEW prices \in Seq(Price), Path(s, prices), Earlier(prices),
             NEW q \in Price, q.cycle = cycles
      PROVE  Path(s, Append(prices, q))'
  <2> PICK more : more = Append(prices, q)
    OBVIOUS
  <2>1. /\ DOMAIN more = DOMAIN prices \cup {Len(prices) + 1}
        /\ more[Len(prices) + 1] = q
        /\ \A i \in DOMAIN prices : more[i] = prices[i] /\ i < Len(prices) + 1
        /\ Len(prices) \in Nat /\ DOMAIN prices = 1 .. Len(prices)
    BY AppendFacts
  <2>2. \A i \in DOMAIN prices : prices[i].cycle \in Nat /\ prices[i].cycle < cycles
    BY <1>9, CyclesOfPrices DEF Earlier
  <2>3. Heard(s, q) = {}
    <3>1. \A k \in DOMAIN told[s] : told[s][k].cycle \in Nat /\ told[s][k].cycle < cycles
      BY <1>5, CyclesOfEvents
    <3> QED  BY <1>1, <1>9, <3>1 DEF Heard
  <2>4. \A r : Heard(s, r)' = Heard(s, r)
    BY <1>4 DEF Heard
  <2>5. Missed(s, more)' = Missed(s, prices)
    <3>1. Missed(s, more)' = {i \in DOMAIN more : Heard(s, more[i]) = {} /\ more[i].cycle # cycles}
      BY <1>4, <2>4 DEF Missed, Telling
    <3>2. Missed(s, prices) = {i \in DOMAIN prices : Heard(s, prices[i]) = {}}
      BY <1>1 DEF Missed, Telling
    <3>3. \A i \in DOMAIN prices : more[i].cycle # cycles
      BY <1>1, <2>1, <2>2
    <3> QED  BY <1>9, <2>1, <3>1, <3>2, <3>3
  <2>6. \A i \in DOMAIN more : more[i].cycle <= cycles
    BY <1>1, <1>9, <2>1, <2>2
  <2>7. \A i, j \in DOMAIN more : i < j => more[i].cycle < more[j].cycle
    BY <1>1, <1>9, <2>1, <2>2 DEF Path
  <2>8. \A i \in DOMAIN more : \A k \in Heard(s, more[i]) : told[s][k].previous = Before(more, i)
    <3> SUFFICES ASSUME NEW i \in DOMAIN more, NEW k \in Heard(s, more[i])
                 PROVE  told[s][k].previous = Before(more, i)
      OBVIOUS
    <3>1. i \in DOMAIN prices
      BY <2>1, <2>3
    <3>2. Before(more, i) = Before(prices, i)
      BY <2>1, <3>1 DEF Before
    <3> QED  BY <1>9, <2>1, <3>1, <3>2 DEF Path
  <2>9. Cardinality(Missed(s, more)') <= crashes'
    BY <1>4, <1>9, <2>5 DEF Path
  <2>10. Path(s, more)'
    BY <1>4, <2>4, <2>6, <2>7, <2>8, <2>9 DEF Path, Before
  <2> QED  BY <2>10 DEF Path, Missed, Heard, Telling, Before
<1>10. \A s \in Symbols : Path(s, ledger[s])' /\ Path(s, saved[s])'
  <2> TAKE s \in Symbols
  <2> PICK l, d : l = ledger'[s] /\ d = saved'[s]
    OBVIOUS
  <2>1. Path(s, d)'
    BY <1>4, <1>5, <1>8
  <2>2. Path(s, l)'
    <3>1. CASE evaluations[s].reason = "ACCEPTED"
      <4> PICK prices, q : prices = ledger[s] /\ q = p(s)
        OBVIOUS
      <4>1. Path(s, Append(prices, q))'
        BY <1>5, <1>6, <1>9
      <4>2. l = Append(prices, q)
        BY <1>4, <3>1
      <4> QED  BY <4>1, <4>2
    <3>2. CASE evaluations[s].reason # "ACCEPTED"
      BY <1>4, <1>5, <1>8, <3>2
    <3> QED  BY <3>1, <3>2
  <2> QED  BY <2>1, <2>2 DEF Path, Missed, Heard, Telling, Before
<1>11. \A s \in Symbols : CommitTold(s)'
  <2> TAKE s \in Symbols
  <2>1. CASE evaluations[s].reason = "ACCEPTED"
    <3> PICK prices, q, more : prices = ledger[s] /\ q = p(s) /\ more = Append(prices, q)
      OBVIOUS
    <3>1. /\ more # <<>> /\ Len(more) = Len(prices) + 1 /\ more[Len(more)] = q
          /\ \A i \in DOMAIN prices : more[i] = prices[i]
          /\ Len(prices) \in Nat /\ DOMAIN prices = 1 .. Len(prices)
          /\ (prices = <<>> <=> Len(prices) = 0)
      BY <1>5, <1>6, AppendFacts
    <3>2. ledger'[s] = more
      BY <1>4, <2>1
    <3>3. Before(more, Len(more)) = IF prices = <<>> THEN NoPrice ELSE prices[Len(prices)].price
      BY <3>1 DEF Before
    <3>4. evaluations[s].previous = Before(more, Len(more))
      BY <1>7, <2>1, <3>3
    <3> QED  BY <1>4, <1>6, <2>1, <3>1, <3>2, <3>4 DEF CommitTold, Accepted, Before
  <2>2. CASE evaluations[s].reason # "ACCEPTED"
    BY <1>4, <1>5, <2>2 DEF CommitTold, Accepted, Earlier
  <2> QED  BY <2>1, <2>2
<1>12. \A s \in Symbols : Earlier(saved[s])'
  BY <1>4, <1>5 DEF Earlier
<1>13. activeDay' = TehranDay(cycle'.receivedAt)
  BY <1>4 DEF day
<1>14. \A s \in Symbols : \A k \in DOMAIN told'[s] :
        /\ told'[s][k].cycle <= cycles'
        /\ Telling' \/ cycle'.at = "fetching" => told'[s][k].cycle < cycles'
  <2>1. \A s \in Symbols : \A k \in DOMAIN told[s] : told[s][k].cycle \in Nat
    BY <1>5, CyclesOfEvents
  <2> QED  BY <1>1, <1>4, <1>5, <2>1
<1> QED  BY <1>4, <1>10, <1>11, <1>12, <1>13, <1>14 DEF PathInv

LEMMA NotifyPath ==
    ASSUME TypeOK, PathInv, NotifyListeners
    PROVE  PathInv'
<1> DEFINE e(s) == [cycle |-> cycles, at |-> cycle.receivedAt,
                    price |-> cycle.evaluations[s].price,
                    previous |-> cycle.evaluations[s].previous,
                    source |-> cycle.evaluations[s].source]
<1>1. /\ cycle.at = "reporting" /\ Telling /\ cycles \in Nat /\ crashes \in Nat
      /\ \A s \in Symbols : told'[s] = IF s \in Accepted(cycle) THEN Append(told[s], e(s)) ELSE told[s]
      /\ cycle' = [cycle EXCEPT !.at = "notifying"]
      /\ UNCHANGED <<ledger, saved, activeDay, cycles, crashes>>
  BY MarketEngineAssumption DEF NotifyListeners, At, Telling, TypeOK, marketVars, boundVars
<1>2. /\ cycle'.at = "notifying" /\ ~ Telling'
      /\ cycle'.receivedAt = cycle.receivedAt /\ cycle'.evaluations = cycle.evaluations
      /\ Accepted(cycle') = Accepted(cycle)
  BY <1>1 DEF TypeOK, Cycle, Telling, Accepted
<1>3. \A s \in Symbols :
        /\ ledger[s] \in Seq(Price) /\ saved[s] \in Seq(Price) /\ told[s] \in Seq(Event)
        /\ Path(s, ledger[s]) /\ Path(s, saved[s]) /\ CommitTold(s)
        /\ saved[s] = ledger[s] \/ Earlier(saved[s])
        /\ \A k \in DOMAIN told[s] : told[s][k].cycle \in Nat /\ told[s][k].cycle < cycles
  BY <1>1, CyclesOfEvents DEF TypeOK, PathInv
<1>4. \A s \in Symbols : e(s) \in Event /\ e(s).cycle = cycles
                         /\ e(s).previous = cycle.evaluations[s].previous
  <2>1. cycle.receivedAt \in Nat
    BY TimeIsNat DEF TypeOK, Cycle
  <2> QED  BY <1>1, <2>1 DEF TypeOK, Cycle, Evaluation, Event
<1> HIDE DEF e
\* Events grow by one of this cycle.
<1>5. \A s \in Symbols :
        IF s \in Accepted(cycle)
        THEN LET m == Len(told[s]) + 1 IN
             /\ DOMAIN told'[s] = DOMAIN told[s] \cup {m} /\ m \notin DOMAIN told[s]
             /\ told'[s][m] = e(s)
             /\ \A k \in DOMAIN told[s] : told'[s][k] = told[s][k]
        ELSE told'[s] = told[s]
  <2> TAKE s \in Symbols
  <2>1. CASE s \in Accepted(cycle)
    <3>1. told'[s] = Append(told[s], e(s)) /\ told[s] \in Seq(Event) /\ e(s) \in Event
      BY <1>1, <1>3, <1>4, <2>1
    <3>2. /\ DOMAIN told'[s] = DOMAIN told[s] \cup {Len(told[s]) + 1}
          /\ told'[s][Len(told[s]) + 1] = e(s)
          /\ \A k \in DOMAIN told[s] : told'[s][k] = told[s][k] /\ k < Len(told[s]) + 1
      BY <3>1, AppendFacts
    <3>3. Len(told[s]) + 1 \notin DOMAIN told[s]
      BY <3>1
    <3> QED  BY <2>1, <3>2, <3>3
  <2>2. CASE s \notin Accepted(cycle)
    BY <1>1, <2>2
  <2> QED  BY <2>1, <2>2
<1>6. \A s \in Symbols : \A p : p.cycle # cycles => Heard(s, p)' = Heard(s, p)
  BY <1>4, <1>5 DEF Heard
\* Histories that are older than this cycle.
<1>7. ASSUME NEW s \in Symbols, NEW prices \in Seq(Price), Path(s, prices), Earlier(prices)
      PROVE  Path(s, prices)'
  <2>1. \A i \in DOMAIN prices : prices[i].cycle # cycles /\ Heard(s, prices[i])' = Heard(s, prices[i])
    BY <1>1, <1>6, <1>7, CyclesOfPrices DEF Earlier
  <2>2. Missed(s, prices)' = Missed(s, prices)
    BY <1>1, <1>2, <2>1 DEF Missed
  <2>3. \A i \in DOMAIN prices : \A k \in Heard(s, prices[i]) : told'[s][k] = told[s][k]
    BY <1>5 DEF Heard
  <2> QED  BY <1>1, <1>7, <2>1, <2>2, <2>3 DEF Path, Before
\* The history this cycle has extended.
<1>8. ASSUME NEW s \in Symbols, NEW prices \in Seq(Price), Path(s, prices),
             prices = ledger[s], s \in Accepted(cycle)
      PROVE  Path(s, prices)'
  <2> PICK n : n = Len(prices)
    OBVIOUS
  <2>1. /\ n \in DOMAIN prices /\ prices[n].cycle = cycles
        /\ cycle.evaluations[s].previous = Before(prices, n)
        /\ \A i \in DOMAIN prices : i # n => i < n
    BY <1>3, <1>8 DEF CommitTold
  <2>2. \A i \in DOMAIN prices : prices[i].cycle \in Nat /\ (i # n => prices[i].cycle < cycles)
    BY <1>8, <2>1, CyclesOfPrices DEF Path
  <2>3. \A i \in DOMAIN prices : i # n => Heard(s, prices[i])' = Heard(s, prices[i])
    BY <1>1, <1>6, <2>2
  <2>4. Heard(s, prices[n]) = {}
    BY <1>1, <1>3, <2>1 DEF Heard
  <2>5. Heard(s, prices[n])' = {Len(told[s]) + 1}
    <3>1. Heard(s, prices[n])' = {k \in DOMAIN told'[s] : told'[s][k].cycle = cycles}
      BY <2>1 DEF Heard
    <3>2. \A k \in DOMAIN told[s] : told[s][k].cycle # cycles
      BY <1>1, <1>3
    <3> QED  BY <1>4, <1>5, <1>8, <3>1, <3>2
  <2>6. Missed(s, prices)' = Missed(s, prices)
    <3>1. Missed(s, prices)' = {i \in DOMAIN prices : i # n /\ Heard(s, prices[i]) = {}}
      BY <1>2, <2>3, <2>5 DEF Missed
    <3>2. Missed(s, prices) = {i \in DOMAIN prices : i # n /\ Heard(s, prices[i]) = {}}
      BY <1>1, <2>1, <2>2 DEF Missed
    <3> QED  BY <3>1, <3>2
  <2>7. \A i \in DOMAIN prices : \A k \in Heard(s, prices[i])' : told'[s][k].previous = Before(prices, i)
    <3> SUFFICES ASSUME NEW i \in DOMAIN prices, NEW k \in Heard(s, prices[i])'
                 PROVE  told'[s][k].previous = Before(prices, i)
      OBVIOUS
    <3>1. CASE i = n
      BY <1>4, <1>5, <1>8, <2>1, <2>5, <3>1
    <3>2. CASE i # n
      <4>1. k \in Heard(s, prices[i]) /\ told'[s][k] = told[s][k]
        BY <1>5, <2>3, <3>2 DEF Heard
      <4> QED  BY <1>8, <4>1 DEF Path
    <3> QED  BY <3>1, <3>2
  <2> QED  BY <1>1, <1>8, <2>6, <2>7 DEF Path, Before
<1>9. \A s \in Symbols : Path(s, ledger[s])' /\ Path(s, saved[s])'
  <2> TAKE s \in Symbols
  <2> PICK l, d : l = ledger[s] /\ d = saved[s]
    OBVIOUS
  <2>1. Path(s, l)'
    BY <1>3, <1>7, <1>8 DEF CommitTold
  <2>2. Path(s, d)'
    BY <1>3, <1>7, <2>1
  <2>3. ledger'[s] = l /\ saved'[s] = d
    BY <1>1
  <2> QED  BY <2>1, <2>2, <2>3 DEF Path, Missed, Heard, Telling, Before
<1>10. \A s \in Symbols : \A k \in DOMAIN told'[s] : told'[s][k].cycle <= cycles
  BY <1>1, <1>3, <1>4, <1>5
<1>11. \A s \in Symbols : CommitTold(s)' /\ (saved'[s] = ledger'[s] \/ Earlier(saved[s])')
  BY <1>1, <1>2, <1>3 DEF CommitTold, Before, Earlier
<1>12. activeDay' = TehranDay(cycle'.receivedAt)
  BY <1>1, <1>2 DEF PathInv
<1> QED  BY <1>1, <1>2, <1>9, <1>10, <1>11, <1>12 DEF PathInv

\* What a crash loses is what its cycle has yet to tell.
LEMMA CrashPath ==
    ASSUME TypeOK, PathInv, Crash
    PROVE  PathInv'
<1>1. /\ cycle'.at = "idle" /\ ~ Telling' /\ crashes' = crashes + 1 /\ crashes \in Nat /\ cycles \in Nat
      /\ \A s \in Symbols : ledger'[s] = <<>>
      /\ UNCHANGED <<saved, told, cycles>>
  BY MarketEngineAssumption DEF Crash, NoCycle, Telling, TypeOK
<1>2. \A s, p : Heard(s, p)' = Heard(s, p)
  BY <1>1 DEF Heard
<1>3. ASSUME NEW s \in Symbols, NEW prices \in Seq(Price), Path(s, prices)
      PROVE  Path(s, prices)'
  <2>1. IsFiniteSet(Missed(s, prices)) /\ Cardinality(Missed(s, prices)) \in Nat
    BY MissedIsFinite
  <2>2. PICK n : Missed(s, prices)' \subseteq Missed(s, prices) \cup {n}
    <3>1. CASE \E i \in DOMAIN prices : prices[i].cycle = cycles
      <4>1. PICK n \in DOMAIN prices : prices[n].cycle = cycles
        BY <3>1
      <4>2. \A i \in DOMAIN prices : i # n => prices[i].cycle # cycles
        <5> SUFFICES ASSUME NEW i \in DOMAIN prices, i # n, prices[i].cycle = cycles PROVE FALSE
          OBVIOUS
        <5>1. i < n \/ n < i
          OBVIOUS
        <5> QED  BY <1>1, <1>3, <4>1, <5>1 DEF Path
      <4> QED  BY <1>2, <4>2 DEF Missed
    <3>2. CASE \A i \in DOMAIN prices : prices[i].cycle # cycles
      BY <1>2, <3>2 DEF Missed
    <3> QED  BY <3>1, <3>2
  <2>3. /\ IsFiniteSet(Missed(s, prices) \cup {n})
        /\ Cardinality(Missed(s, prices) \cup {n}) <= Cardinality(Missed(s, prices)) + 1
        /\ Cardinality(Missed(s, prices) \cup {n}) \in Nat
    BY <2>1, FS_AddElement
  <2>4. Cardinality(Missed(s, prices)') <= Cardinality(Missed(s, prices) \cup {n})
        /\ Cardinality(Missed(s, prices)') \in Nat
    BY <2>2, <2>3, FS_Subset, FS_CardinalityType
  <2>5. Cardinality(Missed(s, prices)') <= crashes'
    BY <1>1, <1>3, <2>1, <2>3, <2>4 DEF Path
  <2> QED  BY <1>1, <1>2, <1>3, <2>5 DEF Path, Before
<1>4. \A s \in Symbols : Path(s, ledger[s])' /\ Path(s, saved[s])'
  <2> TAKE s \in Symbols
  <2> PICK l, d : l = ledger'[s] /\ d = saved[s]
    OBVIOUS
  <2>1. Path(s, d)'
    BY <1>3 DEF TypeOK, PathInv
  <2>2. Path(s, l)'
    <3>1. DOMAIN l = {} /\ Missed(s, l)' = {}
      BY <1>1 DEF Missed
    <3> QED  BY <1>1, <3>1, FS_EmptySet DEF Path
  <2>3. saved'[s] = d
    BY <1>1
  <2> QED  BY <2>1, <2>2, <2>3 DEF Path, Missed, Heard, Telling, Before
<1> QED  BY <1>1, <1>4 DEF PathInv

LEMMA InitPath == Init => PathInv
<1> SUFFICES ASSUME Init PROVE PathInv
  OBVIOUS
<1>1. \A s \in Symbols : ledger[s] = <<>> /\ saved[s] = <<>> /\ told[s] = <<>>
  BY DEF Init
<1>2. \A s, prices : prices = <<>> => Missed(s, prices) = {}
  BY DEF Missed
<1>3. \A s, prices : prices = <<>> => Path(s, prices)
  <2> SUFFICES ASSUME NEW s, NEW prices, prices = <<>>
               PROVE  Path(s, prices)
    OBVIOUS
  <2>1. DOMAIN prices = {}
    OBVIOUS
  <2>2. Cardinality(Missed(s, prices)) = 0 /\ crashes = 0
    BY <1>2, FS_EmptySet DEF Init
  <2>3. Cardinality(Missed(s, prices)) <= crashes
    BY <2>2
  <2> QED  BY <2>1, <2>3 DEF Path
<1>4. \A s \in Symbols : Path(s, ledger[s]) /\ Path(s, saved[s])
  BY <1>1, <1>3
<1> QED  BY <1>1, <1>4 DEF PathInv, Init, NoCycle, Telling

LEMMA NextPath == TypeOK /\ HistoryInv /\ PathInv /\ [Next]_vars => PathInv'
<1> SUFFICES ASSUME TypeOK, HistoryInv, PathInv, [Next]_vars PROVE PathInv'
  OBVIOUS
<1> USE DEF marketVars, boundVars
<1>0. /\ DOMAIN cycle = {"at", "receivedAt", "evaluations", "anomalies", "update"}
      /\ cycle.at \in Phase
  BY DEF TypeOK, Cycle
<1>1. CASE CycleBegins
  BY <1>1, CycleBeginsPath
<1>2. CASE FetchFails
  <2>1. cycle'.at = "idle" /\ (Telling' <=> Telling)
    BY <1>2 DEF FetchFails, At, NoCycle, Telling
  <2> QED  BY <1>2, <2>1, QuietPath DEF FetchFails
<1>3. CASE PayloadIsInvalid
  <2>1. cycle'.at = "idle" /\ (Telling' <=> Telling)
    BY <1>3 DEF PayloadIsInvalid, At, NoCycle, Telling
  <2> QED  BY <1>3, <2>1, QuietPath DEF PayloadIsInvalid
<1>4. ASSUME NEW payload \in [Symbols -> UNION {Entries[s] : s \in Symbols}],
             (\A s \in Symbols : payload[s] \in Entries[s]) /\ Evaluate(payload)
      PROVE  PathInv'
  BY <1>4, EvaluatePath
\* A step of a cycle that has evaluated.
<1>5. ASSUME cycle.at \in {"saving", "reporting", "sending"},
             cycle'.at \in {"reporting", "sending"},
             cycle'.receivedAt = cycle.receivedAt, cycle'.evaluations = cycle.evaluations,
             UNCHANGED <<activeDay, ledger, told, cycles, crashes>>, saved' \in {saved, ledger}
      PROVE  PathInv'
  <2>1. Telling /\ Telling'
    BY <1>5 DEF Telling
  <2> QED  BY <1>5, <2>1, QuietPath
<1>6. CASE NothingToSave \/ SaveSucceeds \/ SaveFails
  <2>1. cycle.at = "saving" /\ cycle' = [cycle EXCEPT !.at = "reporting"]
        /\ UNCHANGED <<activeDay, ledger, told, cycles, crashes>> /\ saved' \in {saved, ledger}
    BY <1>6 DEF NothingToSave, SaveSucceeds, SaveFails, At
  <2>2. cycle'.at = "reporting" /\ cycle'.receivedAt = cycle.receivedAt
        /\ cycle'.evaluations = cycle.evaluations
    BY <1>0, <2>1
  <2> QED  BY <1>5, <2>1, <2>2
<1>7. ASSUME NEW a \in Anomaly, SuppressAnomaly(a) \/ SendAnomaly(a) PROVE PathInv'
  <2>1. /\ cycle.at = "reporting" /\ UNCHANGED <<activeDay, ledger, saved, told, cycles, crashes>>
        /\ \/ cycle' = [cycle EXCEPT !.anomalies = @ \ {a}]
           \/ cycle' = [cycle EXCEPT !.at = "sending", !.anomalies = @ \ {a}]
    BY <1>7 DEF SuppressAnomaly, SendAnomaly, At
  <2>2. cycle'.at \in {"reporting", "sending"} /\ cycle'.receivedAt = cycle.receivedAt
        /\ cycle'.evaluations = cycle.evaluations
    BY <1>0, <2>1
  <2> QED  BY <1>5, <2>1, <2>2
<1>8. CASE AnomalyIsAnswered
  <2>1. cycle.at = "sending" /\ cycle' = [cycle EXCEPT !.at = "reporting"]
        /\ UNCHANGED <<activeDay, ledger, saved, told, cycles, crashes>>
    BY <1>8 DEF AnomalyIsAnswered, At
  <2>2. cycle'.at = "reporting" /\ cycle'.receivedAt = cycle.receivedAt
        /\ cycle'.evaluations = cycle.evaluations
    BY <1>0, <2>1
  <2> QED  BY <1>5, <2>1, <2>2
<1>9. CASE NotifyListeners
  BY <1>9, NotifyPath
<1>10. CASE BuildUpdate
  <2>1. cycle.at = "notifying"
        /\ cycle' = [cycle EXCEPT !.at = "publishing", !.update = Publication(cycle)]
        /\ UNCHANGED <<activeDay, ledger, saved, told, cycles, crashes>>
    BY <1>10 DEF BuildUpdate, At
  <2>2. cycle'.at = "publishing" /\ cycle'.receivedAt = cycle.receivedAt
        /\ cycle'.evaluations = cycle.evaluations
    BY <1>0, <2>1
  <2>3. ~ Telling /\ ~ Telling'
    BY <2>1, <2>2 DEF Telling
  <2> QED  BY <2>1, <2>2, <2>3, QuietPath
<1>11. CASE CycleEnds
  <2>1. cycle'.at = "idle" /\ (Telling' <=> Telling)
    BY <1>11 DEF CycleEnds, At, NoCycle, Telling
  <2> QED  BY <1>11, <2>1, QuietPath DEF CycleEnds
<1>12. CASE Tick \/ UNCHANGED vars
  <2>1. UNCHANGED <<activeDay, ledger, saved, told, cycles, crashes, cycle>>
    BY <1>12 DEF Tick, vars
  <2> QED  BY <2>1, QuietPath DEF Telling
<1>13. CASE Crash
  BY <1>13, CrashPath
<1>14. CASE Restore \/ RestoreFails
  <2>1. cycle.at = "idle" /\ UNCHANGED <<saved, told, cycles, crashes, cycle>>
        /\ ledger' \in {ledger, saved}
    BY <1>14 DEF Restore, RestoreFails, HistoryInv
  <2> QED  BY <2>1, QuietPath DEF Telling
<1> QED
  BY <1>1, <1>2, <1>3, <1>4, <1>6, <1>7, <1>8, <1>9, <1>10, <1>11, <1>12, <1>13, <1>14
  DEF Next, CycleStep

LEMMA MarketInvariant == Spec => [](TypeOK /\ HistoryInv /\ PathInv)
<1>1. Init => TypeOK /\ HistoryInv /\ PathInv
  BY InitTypes, InitHistory, InitPath
<1>2. (TypeOK /\ HistoryInv /\ PathInv) /\ [Next]_vars => (TypeOK /\ HistoryInv /\ PathInv)'
  BY NextTypes, NextHistory, NextPath
<1> QED  BY <1>1, <1>2, PTL DEF Spec

\* Listeners hear the path of the price without gaps: an event carries the accepted
\* price before its own, and only a crash between a commit and its notification leaves
\* a price untold (notifyListeners, over any payloads, days, restarts and failed writes).
THEOREM PathIsAlwaysTold == Spec => []PathIsTold
<1>1. TypeOK /\ HistoryInv /\ PathInv => PathIsTold
  <2> SUFFICES ASSUME TypeOK, HistoryInv, PathInv, NEW s \in Symbols
               PROVE  LET Hears(p) == {i \in DOMAIN told[s] : told[s][i].cycle = p.cycle}
                          Untold == {i \in DOMAIN ledger[s] : Hears(ledger[s][i]) = {}}
                      IN  /\ \A i \in DOMAIN ledger[s] : \A k \in Hears(ledger[s][i]) :
                                told[s][k].previous = IF i = 1 THEN NoPrice ELSE ledger[s][i - 1].price
                          /\ Cardinality(Untold) <= crashes + (IF At("idle") THEN 0 ELSE 1)
    BY DEF PathIsTold
  <2> PICK prices : prices = ledger[s]
    OBVIOUS
  <2>1. Path(s, prices) /\ prices \in Seq(Price) /\ crashes \in Nat /\ cycles \in Nat
    BY MarketEngineAssumption DEF PathInv, TypeOK
  <2> DEFINE untold == {i \in DOMAIN prices : Heard(s, prices[i]) = {}}
  <2>2. IsFiniteSet(Missed(s, prices)) /\ Cardinality(Missed(s, prices)) \in Nat
        /\ Cardinality(Missed(s, prices)) <= crashes
    BY <2>1, MissedIsFinite DEF Path
  <2>3. Cardinality(untold) <= crashes + (IF At("idle") THEN 0 ELSE 1)
    <3>1. CASE At("idle")
      <4>1. untold = Missed(s, prices)
        BY <3>1 DEF Missed, Telling, At
      <4> HIDE DEF untold
      <4>2. Cardinality(untold) <= crashes
        BY <2>2, <4>1
      <4>3. (IF At("idle") THEN 0 ELSE 1) = 0
        BY <3>1
      <4> QED  BY <2>1, <4>2, <4>3
    <3>2. CASE ~ At("idle")
      <4>1. PICK n : untold \subseteq Missed(s, prices) \cup {n}
        <5>1. CASE \E i \in DOMAIN prices : prices[i].cycle = cycles
          <6>1. PICK n \in DOMAIN prices : prices[n].cycle = cycles
            BY <5>1
          <6>2. \A i \in DOMAIN prices : i # n => prices[i].cycle # cycles
            <7> SUFFICES ASSUME NEW i \in DOMAIN prices, i # n, prices[i].cycle = cycles PROVE FALSE
              OBVIOUS
            <7>1. i < n \/ n < i
              BY <2>1
            <7> QED  BY <2>1, <6>1, <7>1 DEF Path
          <6> QED  BY <6>2 DEF Missed
        <5>2. CASE \A i \in DOMAIN prices : prices[i].cycle # cycles
          BY <5>2 DEF Missed
        <5> QED  BY <5>1, <5>2
      <4>2. /\ IsFiniteSet(Missed(s, prices) \cup {n})
            /\ Cardinality(Missed(s, prices) \cup {n}) <= Cardinality(Missed(s, prices)) + 1
            /\ Cardinality(Missed(s, prices) \cup {n}) \in Nat
        BY <2>2, FS_AddElement
      <4> HIDE DEF untold
      <4>3. Cardinality(untold) <= Cardinality(Missed(s, prices) \cup {n}) /\ Cardinality(untold) \in Nat
        BY <4>1, <4>2, FS_Subset, FS_CardinalityType
      <4> QED  BY <2>1, <2>2, <3>2, <4>2, <4>3
    <3> QED  BY <3>1, <3>2
  <2>4. \A i \in DOMAIN prices : \A k \in Heard(s, prices[i]) :
            told[s][k].previous = IF i = 1 THEN NoPrice ELSE prices[i - 1].price
    BY <2>1 DEF Path, Before
  <2> QED  BY <2>3, <2>4 DEF Heard
<1> QED  BY <1>1, MarketInvariant, PTL

-----------------------------------------------------------------------------
(* Updates tell history *)

LEMMA BuiltUpdateTells ==
    ASSUME TypeOK, HistoryInv, PathInv, BuildUpdate
    PROVE  UpdateTellsHistory'
<1>1. /\ up /\ cycle.at = "notifying" /\ cycle'.update = Publication(cycle)
      /\ cycle'.receivedAt = cycle.receivedAt
      /\ UNCHANGED <<now, up, ledger, states, cycles>>
  BY DEF BuildUpdate, At, TypeOK, Cycle, marketVars, boundVars
<1>2. activeDay = TehranDay(cycle.receivedAt) /\ activeDay \in Nat
  BY <1>1 DEF PathInv, HistoryInv
<1>3. \A s \in Symbols :
        /\ ledger[s] \in Seq(Price) /\ states[s] \in SymbolState
        /\ Kept(states[s], ledger[s], activeDay) /\ CommitTold(s)
  BY <1>1 DEF HistoryInv, PathInv, TypeOK
<1> PICK u : u = Publication(cycle)
  OBVIOUS
<1>4. ASSUME NEW s \in Symbols, u.prices[s] # NoPrice
      PROVE  s \in Accepted(cycle) /\ Publishable(cycle) /\ u.prices[s] = cycle.evaluations[s].price
  BY <1>4 DEF Publication
<1>5. ASSUME NEW s \in Symbols, u.prices[s] # NoPrice
      PROVE  LET prices == ledger[s]
                 first == CHOOSE i \in OfDay(prices, TehranDay(cycle.receivedAt)) :
                             \A j \in OfDay(prices, TehranDay(cycle.receivedAt)) : i <= j
             IN  /\ prices[Len(prices)].cycle = cycles
                 /\ u.prices[s] = prices[Len(prices)].price
                 /\ u.dailyChange[s] = prices[Len(prices)].price - prices[first].price
  <2> PICK prices, today, n : /\ prices = ledger[s] /\ today = OfDay(prices, activeDay)
                              /\ n = Len(prices)
    OBVIOUS
  <2>1. /\ prices # <<>> /\ prices[n].cycle = cycles /\ prices[n].at = cycle.receivedAt
        /\ prices[n].price = cycle.evaluations[s].price
    BY <1>3, <1>4, <1>5 DEF CommitTold
  <2>2. n \in today /\ today \subseteq DOMAIN prices /\ prices \in Seq(Price)
    BY <1>2, <1>3, <2>1 DEF OfDay
  <2>3. WindowTells(states[s].daily, prices, activeDay)
    BY <1>3, <2>1, <2>2 DEF Kept, RecordTells
  <2>4. PICK i \in today : states[s].daily.open = prices[i].price /\ \A j \in today : i <= j
    BY <2>3 DEF WindowTells
  <2>5. states[s].daily.current = prices[n].price
    BY <2>3 DEF WindowTells
  <2>6. prices[n].price > 0
    BY <1>3, <2>2 DEF Kept
  <2>7. states[s].daily # NoWindow
    BY <2>5, <2>6 DEF NoWindow
  <2>8. u.dailyChange[s] = states[s].daily.current - states[s].daily.open
    BY <1>4, <1>5, <2>7 DEF Publication
  <2>9. (CHOOSE k \in today : \A j \in today : k <= j) = i
    <3> PICK k : k = CHOOSE l \in today : \A j \in today : l <= j
      OBVIOUS
    <3>1. k \in today /\ \A j \in today : k <= j
      BY <2>4
    <3>2. k <= i /\ i <= k /\ k \in Nat /\ i \in Nat
      BY <2>2, <2>4, <3>1
    <3> QED  BY <3>2
  <2> QED  BY <1>2, <1>4, <1>5, <2>1, <2>4, <2>5, <2>8, <2>9
<1>6. (\E s \in Symbols : u.prices[s] # NoPrice) =>
            \E s \in Symbols : Registry[s].required /\ u.prices[s] # NoPrice
  <2> SUFFICES ASSUME NEW t \in Symbols, u.prices[t] # NoPrice
               PROVE  \E s \in Symbols : Registry[s].required /\ u.prices[s] # NoPrice
    OBVIOUS
  <2>1. PICK s \in Accepted(cycle) : Registry[s].required
    BY <1>4 DEF Publishable
  <2>2. s \in Symbols
    BY DEF Accepted
  <2>3. ledger[s] # <<>> /\ ledger[s][Len(ledger[s])].price = cycle.evaluations[s].price
    BY <1>3, <2>2 DEF CommitTold
  <2>4. Len(ledger[s]) \in DOMAIN ledger[s]
    BY <1>3, <2>2, <2>3
  <2>5. cycle.evaluations[s].price > 0
    BY <1>3, <2>2, <2>3, <2>4 DEF Kept
  <2>6. u.prices[s] = cycle.evaluations[s].price
    BY <1>4, <2>2 DEF Publication
  <2> QED  BY <2>1, <2>2, <2>5, <2>6 DEF NoPrice
<1>7. \A s \in u.stale : ledger[s] # <<>> /\ now - ledger[s][Len(ledger[s])].at > StaleAfter
  <2> SUFFICES ASSUME NEW s \in Symbols, states[s] # NoState, now - states[s].updatedAt > StaleAfter
               PROVE  ledger[s] # <<>> /\ now - ledger[s][Len(ledger[s])].at > StaleAfter
    BY DEF Publication, Stale
  <2> QED  BY <1>3 DEF Kept, RecordTells
<1>8. u = cycle'.update
  BY <1>1
<1> QED  BY <1>1, <1>5, <1>6, <1>7, <1>8 DEF UpdateTellsHistory

\* An update shows the latest accepted prices, with the change since the first price of
\* that very day, none unless a required symbol is fresh, and reports as stale what is
\* (buildPublishablePrices and collectStale, after the listeners were awaited).
THEOREM UpdateAlwaysTellsHistory == Spec => []UpdateTellsHistory
<1>1. Init => UpdateTellsHistory
  BY DEF Init, UpdateTellsHistory, At, NoCycle
<1>2. (TypeOK /\ HistoryInv /\ PathInv) /\ UpdateTellsHistory /\ [Next]_vars => UpdateTellsHistory'
  <2> SUFFICES ASSUME TypeOK, HistoryInv, PathInv, UpdateTellsHistory, [Next]_vars
               PROVE  UpdateTellsHistory'
    OBVIOUS
  <2>1. CASE BuildUpdate
    BY <2>1, BuiltUpdateTells
  \* The clock moves on: what was stale stays so.
  <2>2. CASE Tick
    <3>1. /\ now' = now + 1 /\ UNCHANGED <<up, cycle, ledger, cycles>>
          /\ now \in Nat /\ StaleAfter \in Nat
      BY <2>2, TimeIsNat, MarketEngineAssumption DEF Tick, marketVars, boundVars, TypeOK
    <3>2. ASSUME NEW s \in Symbols, ledger[s] # <<>>, now - ledger[s][Len(ledger[s])].at > StaleAfter
          PROVE  now' - ledger[s][Len(ledger[s])].at > StaleAfter
      <4>1. ledger[s][Len(ledger[s])] \in Price
        BY <3>2 DEF TypeOK
      <4>2. ledger[s][Len(ledger[s])].at \in Nat
        BY <4>1 DEF Price
      <4> QED  BY <3>1, <3>2, <4>2
    <3>3. At("publishing") => cycle.update.stale \subseteq Symbols
      BY DEF TypeOK, Cycle, Update
    <3>4. UpdateTellsHistory => UpdateTellsHistory'
      BY <3>1, <3>2, <3>3 DEF UpdateTellsHistory, At
    <3> QED  BY <3>4
  <2>3. CASE UNCHANGED vars
    BY <2>3 DEF vars, UpdateTellsHistory, At, marketVars, boundVars
  \* No other step leaves or reaches an update.
  <2>4. ASSUME up' => cycle'.at # "publishing" PROVE UpdateTellsHistory'
    BY <2>4 DEF UpdateTellsHistory, At
  <2>5. ASSUME NEW phase \in Phase \ {"publishing"}, cycle' = [cycle EXCEPT !.at = phase]
        PROVE  cycle'.at # "publishing"
    BY <2>5 DEF TypeOK, Cycle
  <2>6. CASE NothingToSave \/ SaveSucceeds \/ SaveFails \/ AnomalyIsAnswered \/ NotifyListeners
    BY <2>4, <2>5, <2>6
    DEF NothingToSave, SaveSucceeds, SaveFails, AnomalyIsAnswered, NotifyListeners, Phase
  <2>7. CASE CycleBegins \/ FetchFails \/ PayloadIsInvalid \/ CycleEnds \/ Crash
    BY <2>4, <2>7 DEF CycleBegins, FetchFails, PayloadIsInvalid, CycleEnds, Crash, NoCycle
  <2>8. ASSUME NEW payload, Evaluate(payload) PROVE UpdateTellsHistory'
    BY <2>4, <2>8 DEF Evaluate
  <2>9. ASSUME NEW a \in Anomaly, SuppressAnomaly(a) \/ SendAnomaly(a) PROVE UpdateTellsHistory'
    <3>1. cycle'.at # "publishing"
      BY <2>9 DEF SuppressAnomaly, SendAnomaly, At, TypeOK, Cycle
    <3> QED  BY <2>4, <3>1
  <2>10. CASE Restore \/ RestoreFails
    BY <2>4, <2>10 DEF Restore, RestoreFails, HistoryInv
  <2> QED  BY <2>1, <2>2, <2>3, <2>6, <2>7, <2>8, <2>9, <2>10 DEF Next, CycleStep
<1> QED  BY <1>1, <1>2, MarketInvariant, PTL DEF Spec

=============================================================================
