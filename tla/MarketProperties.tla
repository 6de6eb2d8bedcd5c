-------------------------- MODULE MarketProperties --------------------------
(***************************************************************************)
(* What the market engine must guarantee.  Its state keeps one record per  *)
(* symbol; most properties say that the record is what the accepted prices *)
(* of the symbol make of it, through days, restarts and failed writes.     *)
(***************************************************************************)
EXTENDS MarketEngine

\* The accepted prices of a day, as indices into a ledger.
OfDay(prices, day) == {i \in DOMAIN prices : TehranDay(prices[i].at) = day}

\* The window of a day tells its first, highest, lowest and last price.
WindowTells(daily, prices, day) ==
    LET today == OfDay(prices, day)
    IN  /\ \E i \in today : daily.open = prices[i].price /\ \A j \in today : i <= j
        /\ \E i \in today : daily.high = prices[i].price
        /\ \E i \in today : daily.low = prices[i].price
        /\ \A i \in today : daily.low <= prices[i].price /\ prices[i].price <= daily.high
        /\ daily.current = prices[Len(prices)].price

\* What a record says when its day has been aligned with `day`.
RecordTells(state, prices, day) ==
    IF prices = <<>>
      THEN state = NoState
      ELSE /\ state.current = prices[Len(prices)].price
           /\ state.lastValid = prices[Len(prices)].price
           /\ state.updatedAt = prices[Len(prices)].at
           /\ IF OfDay(prices, day) = {}
                THEN state.daily = NoWindow /\ state.previous = NoPrice
                ELSE /\ state.day = day
                     /\ WindowTells(state.daily, prices, day)
                     /\ state.previous = IF Len(prices) - 1 \in OfDay(prices, day)
                                           THEN prices[Len(prices) - 1].price ELSE NoPrice

\* The record of a symbol, in memory and in the file, is the one its accepted prices
\* determine: last valid price, time of the last update, previous price of the same
\* day, and a daily window of that day's prices only, although days are rolled lazily
\* and a restart relabels old records (commit, rollDayIfNeeded, restore, persist).
StateTellsHistory ==
    /\ up => \A s \in Symbols : RecordTells(states[s], ledger[s], activeDay)
    /\ \A s \in Symbols : RecordTells(file.symbols[s], saved[s], file.day)

\* Each accepted price lies within the bounds of its symbol, and moved from the one
\* before it by no more than the limit; the cross-day allowance is given to the first
\* price of a day only, and a restart in between does not extend it (buildBaseline
\* over a restored state, SanityChecker.evaluate).
MovesArePlausible ==
    \A s \in Symbols : \A prices \in {ledger[s], saved[s]} : \A i \in DOMAIN prices :
        /\ InRange(s, prices[i].price)
        /\ i > 1 => MoveIsAllowed(s, prices[i - 1].price, prices[i].price,
                        IF TehranDay(prices[i - 1].at) = TehranDay(prices[i].at)
                          THEN "SAME_DAY" ELSE "PREVIOUS_DAY")

\* Listeners hear the path of the price without gaps: an event carries the accepted
\* price that precedes its own, whatever was rejected, rolled or restored in between,
\* and only a crash between a commit and its notification leaves a price untold
\* (notifyListeners; the alerts' crossings rest on it).
PathIsTold ==
    \A s \in Symbols :
        LET Heard(p) == {i \in DOMAIN told[s] : told[s][i].cycle = p.cycle}
            Untold == {i \in DOMAIN ledger[s] : Heard(ledger[s][i]) = {}}
        IN  /\ \A i \in DOMAIN ledger[s] : \A k \in Heard(ledger[s][i]) :
                  told[s][k].previous = IF i = 1 THEN NoPrice ELSE ledger[s][i - 1].price
            /\ Cardinality(Untold) <= crashes + (IF At("idle") THEN 0 ELSE 1)

\* An update shows prices that are each the latest accepted one of its symbol, with
\* the change since the first price of this very day, and none at all unless a
\* required symbol is fresh; a symbol is reported stale by the age of its last accepted
\* price, however often it was rejected or restored since (buildPublishablePrices and
\* collectStale, which read the state after the listeners were awaited).
UpdateTellsHistory ==
    At("publishing") =>
        /\ \A s \in Symbols : cycle.update.prices[s] # NoPrice =>
              LET prices == ledger[s]
                  first == CHOOSE i \in OfDay(prices, TehranDay(cycle.receivedAt)) :
                             \A j \in OfDay(prices, TehranDay(cycle.receivedAt)) : i <= j
              IN  /\ prices[Len(prices)].cycle = cycles
                  /\ cycle.update.prices[s] = prices[Len(prices)].price
                  /\ cycle.update.dailyChange[s] = prices[Len(prices)].price - prices[first].price
        /\ (\E s \in Symbols : cycle.update.prices[s] # NoPrice) =>
              \E s \in Symbols : Registry[s].required /\ cycle.update.prices[s] # NoPrice
        /\ \A s \in cycle.update.stale :
              ledger[s] # <<>> /\ now - ledger[s][Len(ledger[s])].at > StaleAfter

\* Every anomaly a process reports is the subject of a message, merged into a message
\* or counted for the next one, through expired cooldowns and lost messages
\* (reportAnomaly, which renews the entry before it builds the message).
AnomaliesAreCounted ==
    \A a \in Anomaly : seen[a] = accounted[a] + cooldowns[a].suppressed

=============================================================================
