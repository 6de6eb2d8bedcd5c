---------------------------- MODULE MarketEngine ----------------------------
(***************************************************************************)
(* The market cycle: a payload is fetched, judged symbol by symbol, what   *)
(* is accepted is committed, the state is saved, anomalies are reported,   *)
(* the listeners are told, and an update for the channel is built.  From   *)
(* the answer of the price API to the commit nothing is awaited; every     *)
(* phase of `cycle` below is an await of MarketEngineService.              *)
(*                                                                         *)
(* `ledger` and `saved` are history variables: the accepted prices of each *)
(* symbol that the memory and the file stem from, oldest first.  `told` is *)
(* what the listeners have heard, `seen` and `accounted` count anomalies.  *)
(***************************************************************************)
EXTENDS MarketState

CONSTANTS
    Entries,        \* what a payload may say of each symbol
    Cooldown,       \* ANOMALY_ALERT_COOLDOWN_MINUTES, in ticks of the clock
    StaleAfter,     \* PRICE_STALE_AFTER_MINUTES, likewise
    MaxCycles,      \* bounds: cycles, crashes, failed reads and writes
    MaxCrashes,
    MaxFileFaults

ASSUME MarketEngineAssumption ==
    /\ Entries \in [Symbols -> SUBSET Entry]
    /\ Cooldown \in Nat
    /\ StaleAfter \in Nat
    /\ MaxCycles \in Nat
    /\ MaxCrashes \in Nat
    /\ MaxFileFaults \in Nat

VARIABLES
    now,            \* the clock
    up,             \* the process is running
    states,         \* MarketStateService.states, NoState for none
    activeDay,      \* MarketStateService.activeDayKey
    file,           \* the state file: its dayKey and its symbols
    cycle,          \* runCycle() and evaluateCycle()
    cooldowns,      \* AnomalyAlertService.cooldowns
    cycles, crashes, fileFaults,
    ledger, saved, told, seen, accounted

marketVars == <<states, activeDay, file, ledger, saved>>
anomalyVars == <<cooldowns, seen, accounted>>
boundVars == <<cycles, crashes, fileFaults>>
vars == <<now, up, marketVars, cycle, told, anomalyVars, boundVars>>

NoDay == -1
AnomalyReason == {"OUT_OF_RANGE", "EXCESSIVE_CHANGE"}
Anomaly == Symbols \X AnomalyReason

CooldownEntry == [sentAt : Nat \cup {-1}, suppressed : Nat]
NoEntry == [sentAt |-> -1, suppressed |-> 0]

Price == [cycle : Nat, at : Nat, price : Nat]
Event == [cycle : Nat, at : Nat, price : Nat, previous : Nat, source : Source]

\* The prices of an update for the publisher, and the symbols reported stale.
Update == [prices : [Symbols -> Nat], dailyChange : [Symbols -> Int], stale : SUBSET Symbols]
NoUpdate == [prices |-> [s \in Symbols |-> NoPrice],
             dailyChange |-> [s \in Symbols |-> 0], stale |-> {}]

Phase == {"idle", "fetching", "saving", "reporting", "sending", "notifying", "publishing"}
Cycle == [at : Phase, receivedAt : Time, evaluations : [Symbols -> Evaluation],
          anomalies : SUBSET Anomaly, update : Update]
NoCycle == [at |-> "idle", receivedAt |-> 0,
            evaluations |-> [s \in Symbols |-> NoEvaluation],
            anomalies |-> {}, update |-> NoUpdate]

TypeOK ==
    /\ now \in Time
    /\ up \in BOOLEAN
    /\ states \in [Symbols -> SymbolState]
    /\ activeDay \in Nat \cup {NoDay}
    /\ file \in [day : Nat, symbols : [Symbols -> SymbolState]]
    /\ cycle \in Cycle
    /\ cooldowns \in [Anomaly -> CooldownEntry]
    /\ cycles \in 0..MaxCycles
    /\ crashes \in 0..MaxCrashes
    /\ fileFaults \in 0..MaxFileFaults
    /\ ledger \in [Symbols -> Seq(Price)]
    /\ saved \in [Symbols -> Seq(Price)]
    /\ told \in [Symbols -> Seq(Event)]
    /\ seen \in [Anomaly -> Nat]
    /\ accounted \in [Anomaly -> Nat]

\* The first boot, without a state file.
Init ==
    /\ now = 0
    /\ up = TRUE
    /\ states = [s \in Symbols |-> NoState]
    /\ activeDay = TehranDay(0)
    /\ file = [day |-> 0, symbols |-> [s \in Symbols |-> NoState]]
    /\ cycle = NoCycle
    /\ cooldowns = [a \in Anomaly |-> NoEntry]
    /\ cycles = 0 /\ crashes = 0 /\ fileFaults = 0
    /\ ledger = [s \in Symbols |-> <<>>]
    /\ saved = [s \in Symbols |-> <<>>]
    /\ told = [s \in Symbols |-> <<>>]
    /\ seen = [a \in Anomaly |-> 0]
    /\ accounted = [a \in Anomaly |-> 0]

At(phase) == up /\ cycle.at = phase

-----------------------------------------------------------------------------
(* Fetch, judge, commit *)

\* A cron job runs its cycle and awaits the price API.  Jobs are a quarter of
\* an hour apart, far more than a cycle takes: one cycle at a time.
CycleBegins ==
    /\ At("idle")
    /\ cycles < MaxCycles
    /\ cycles' = cycles + 1
    /\ cycle' = [NoCycle EXCEPT !.at = "fetching"]
    /\ UNCHANGED <<now, up, marketVars, told, anomalyVars, crashes, fileFaults>>

\* Every attempt failed: the job ends, and nothing else is touched.
FetchFails ==
    /\ At("fetching")
    /\ cycle' = NoCycle
    /\ UNCHANGED <<now, up, marketVars, told, anomalyVars, boundVars>>

\* rollDayIfNeeded(day) over all symbols.
RolledStates(day) ==
    IF activeDay = day THEN states ELSE [s \in Symbols |-> Rolled(states[s])]

\* INVALID_SCHEMA: the day is rolled, no symbol is judged.
PayloadIsInvalid ==
    /\ At("fetching")
    /\ states' = RolledStates(TehranDay(now))
    /\ activeDay' = TehranDay(now)
    /\ cycle' = NoCycle
    /\ UNCHANGED <<now, up, file, ledger, saved, told, anomalyVars, boundVars>>

Accepted(c) == {s \in Symbols : c.evaluations[s].reason = "ACCEPTED"}

\* Moves and values out of bounds are reported; a missing or unusable value is not.
AnomaliesOf(evaluations) ==
    {<<s, evaluations[s].reason>> : s \in {t \in Symbols : evaluations[t].reason \in AnomalyReason}}

\* Mutant: listeners hear the previous price of the record instead of the baseline.
JudgedWithRecordedPrevious(payload, rolled, day) ==
    [s \in Symbols |-> [Evaluated(s, payload[s], rolled[s], day) EXCEPT
                            !.previous = rolled[s].previous]]

\* The evaluations of a payload against rolled states.
Judged(payload, rolled, day) ==
    [s \in Symbols |-> Evaluated(s, payload[s], rolled[s], day)]

Evaluate(payload) ==
    LET day == TehranDay(now)
        rolled == RolledStates(day)
        evaluations == Judged(payload, rolled, day)
        accepted == {s \in Symbols : evaluations[s].reason = "ACCEPTED"}
    IN  /\ At("fetching")
        /\ activeDay' = day
        /\ states' = [s \in Symbols |->
                        IF s \in accepted THEN Committed(rolled[s], evaluations[s], now, day)
                                          ELSE rolled[s]]
        /\ ledger' = [s \in Symbols |->
                        IF s \in accepted
                          THEN Append(ledger[s], [cycle |-> cycles, at |-> now,
                                                  price |-> evaluations[s].price])
                          ELSE ledger[s]]
        /\ cycle' = [at |-> "saving", receivedAt |-> now, evaluations |-> evaluations,
                     anomalies |-> AnomaliesOf(evaluations), update |-> NoUpdate]
        /\ UNCHANGED <<now, up, file, saved, told, anomalyVars, boundVars>>

-----------------------------------------------------------------------------
(* Save *)

\* persist() returns at once while no symbol is tracked.
NothingToSave ==
    /\ At("saving")
    /\ \A s \in Symbols : states[s] = NoState
    /\ cycle' = [cycle EXCEPT !.at = "reporting"]
    /\ UNCHANGED <<now, up, marketVars, told, anomalyVars, boundVars>>

\* The temporary file is written and renamed.
SaveSucceeds ==
    /\ At("saving")
    /\ \E s \in Symbols : states[s] # NoState
    /\ file' = [day |-> TehranDay(cycle.receivedAt),
                symbols |-> [s \in Symbols |-> Persisted(states[s])]]
    /\ saved' = ledger
    /\ cycle' = [cycle EXCEPT !.at = "reporting"]
    /\ UNCHANGED <<now, up, states, activeDay, ledger, told, anomalyVars, boundVars>>

\* The error is logged: the cycle goes on, with memory ahead of the file.
SaveFails ==
    /\ At("saving")
    /\ \E s \in Symbols : states[s] # NoState
    /\ fileFaults < MaxFileFaults
    /\ fileFaults' = fileFaults + 1
    /\ cycle' = [cycle EXCEPT !.at = "reporting"]
    /\ UNCHANGED <<now, up, marketVars, told, anomalyVars, cycles, crashes>>

-----------------------------------------------------------------------------
(* Report the anomalies: AnomalyAlertService.reportAnomaly() *)

Cooling(a) ==
    /\ cooldowns[a] # NoEntry
    /\ cycle.receivedAt - cooldowns[a].sentAt < Cooldown

SuppressAnomaly(a) ==
    /\ At("reporting")
    /\ a \in cycle.anomalies
    /\ Cooling(a)
    /\ cooldowns' = [cooldowns EXCEPT ![a].suppressed = @ + 1]
    /\ seen' = [seen EXCEPT ![a] = @ + 1]
    /\ cycle' = [cycle EXCEPT !.anomalies = @ \ {a}]
    /\ UNCHANGED <<now, up, marketVars, told, accounted, boundVars>>

\* Mutant: the entry is renewed after the message has been built without it.
SendWithoutSuppressed(a) ==
    /\ At("reporting")
    /\ a \in cycle.anomalies
    /\ ~Cooling(a)
    /\ cooldowns' = [cooldowns EXCEPT ![a] = [sentAt |-> cycle.receivedAt, suppressed |-> 0]]
    /\ seen' = [seen EXCEPT ![a] = @ + 1]
    /\ accounted' = [accounted EXCEPT ![a] = @ + 1]
    /\ cycle' = [cycle EXCEPT !.at = "sending", !.anomalies = @ \ {a}]
    /\ UNCHANGED <<now, up, marketVars, told, boundVars>>

\* The cooldown starts before the call, whatever the platform answers; the
\* message says how many occurrences were merged into it.
SendAnomaly(a) ==
    /\ At("reporting")
    /\ a \in cycle.anomalies
    /\ ~Cooling(a)
    /\ cooldowns' = [cooldowns EXCEPT ![a] = [sentAt |-> cycle.receivedAt, suppressed |-> 0]]
    /\ seen' = [seen EXCEPT ![a] = @ + 1]
    /\ accounted' = [accounted EXCEPT ![a] = @ + 1 + cooldowns[a].suppressed]
    /\ cycle' = [cycle EXCEPT !.at = "sending", !.anomalies = @ \ {a}]
    /\ UNCHANGED <<now, up, marketVars, told, boundVars>>

\* Delivered or not: the result is logged only.
AnomalyIsAnswered ==
    /\ At("sending")
    /\ cycle' = [cycle EXCEPT !.at = "reporting"]
    /\ UNCHANGED <<now, up, marketVars, told, anomalyVars, boundVars>>

-----------------------------------------------------------------------------
(* Tell the listeners, build the update *)

\* notifyListeners(): the baseline a price was judged against travels with it.
NotifyListeners ==
    /\ At("reporting")
    /\ cycle.anomalies = {}
    /\ told' = [s \in Symbols |->
                   IF s \in Accepted(cycle)
                     THEN LET e == cycle.evaluations[s]
                          IN  Append(told[s], [cycle |-> cycles, at |-> cycle.receivedAt,
                                               price |-> e.price, previous |-> e.previous,
                                               source |-> e.source])
                     ELSE told[s]]
    /\ cycle' = [cycle EXCEPT !.at = "notifying"]
    /\ UNCHANGED <<now, up, marketVars, anomalyVars, boundVars>>

\* Mutant: any accepted price makes the cycle publishable.
PublishableWithoutRequired(c) == Accepted(c) # {}

\* A cycle is publishable when a required symbol is fresh.
Publishable(c) == \E s \in Accepted(c) : Registry[s].required

\* collectStale(): older than the limit by the clock of this moment.
Stale == {s \in Symbols : states[s] # NoState /\ now - states[s].updatedAt > StaleAfter}

\* buildPublishablePrices(): the price is the evaluation's, the change of the day
\* is read from the state as it is after the listeners have returned.
Publication(c) ==
    LET fresh == IF Publishable(c) THEN Accepted(c) ELSE {}
    IN  [prices |-> [s \in Symbols |->
                       IF s \in fresh THEN c.evaluations[s].price ELSE NoPrice],
         dailyChange |-> [s \in Symbols |->
                       IF s \in fresh /\ states[s].daily # NoWindow
                         THEN states[s].daily.current - states[s].daily.open ELSE 0],
         stale |-> Stale]

BuildUpdate ==
    /\ At("notifying")
    /\ cycle' = [cycle EXCEPT !.at = "publishing", !.update = Publication(cycle)]
    /\ UNCHANGED <<now, up, marketVars, told, anomalyVars, boundVars>>

\* The channel (external here) has been handed the update; the job ends.
CycleEnds ==
    /\ At("publishing")
    /\ cycle' = NoCycle
    /\ UNCHANGED <<now, up, marketVars, told, anomalyVars, boundVars>>

-----------------------------------------------------------------------------
(* The clock, crashes and restarts *)

Tick ==
    /\ now < MaxTime
    /\ now' = now + 1
    /\ UNCHANGED <<up, marketVars, cycle, told, anomalyVars, boundVars>>

\* Cooldowns are in memory only: a restart arms the alerts again.
Crash ==
    /\ up
    /\ crashes < MaxCrashes
    /\ crashes' = crashes + 1
    /\ up' = FALSE
    /\ states' = [s \in Symbols |-> NoState]
    /\ activeDay' = NoDay
    /\ ledger' = [s \in Symbols |-> <<>>]
    /\ cycle' = NoCycle
    /\ cooldowns' = [a \in Anomaly |-> NoEntry]
    /\ seen' = [a \in Anomaly |-> 0]
    /\ accounted' = [a \in Anomaly |-> 0]
    /\ UNCHANGED <<now, file, saved, told, cycles, fileFaults>>

\* restore() at boot, before the jobs are scheduled.
Restore ==
    /\ ~up
    /\ up' = TRUE
    /\ states' = [s \in Symbols |-> Restored(file.symbols[s], TehranDay(now))]
    /\ activeDay' = TehranDay(now)
    /\ ledger' = saved
    /\ UNCHANGED <<now, file, saved, cycle, told, anomalyVars, boundVars>>

\* The file cannot be read: "starting fresh", and the next save replaces it.
RestoreFails ==
    /\ ~up
    /\ fileFaults < MaxFileFaults
    /\ fileFaults' = fileFaults + 1
    /\ up' = TRUE
    /\ activeDay' = TehranDay(now)
    /\ UNCHANGED <<now, states, file, ledger, saved, cycle, told, anomalyVars, cycles, crashes>>

-----------------------------------------------------------------------------
CycleStep ==
    \/ FetchFails
    \/ PayloadIsInvalid
    \/ \E payload \in [Symbols -> UNION {Entries[s] : s \in Symbols}] :
          (\A s \in Symbols : payload[s] \in Entries[s]) /\ Evaluate(payload)
    \/ NothingToSave
    \/ SaveSucceeds
    \/ SaveFails
    \/ \E a \in Anomaly : SuppressAnomaly(a)
    \/ \E a \in Anomaly : SendAnomaly(a)
    \/ AnomalyIsAnswered
    \/ NotifyListeners
    \/ BuildUpdate
    \/ CycleEnds

Next ==
    \/ CycleBegins
    \/ CycleStep
    \/ Tick
    \/ Crash
    \/ Restore
    \/ RestoreFails

Spec == Init /\ [][Next]_vars
=============================================================================
