------------------------------ MODULE MCMarket ------------------------------
(***************************************************************************)
(* A TLC instance of the market: gold is required and judged by percent,   *)
(* a coin is optional, quoted in Toman and judged by distance.             *)
(***************************************************************************)
EXTENDS MarketProperties

MCRegistry ==
    [gold |-> [required |-> TRUE, factor |-> 1, minPrice |-> 1, maxPrice |-> 3,
               maxChangePercent |-> 100, maxAbsoluteChange |-> NoLimit],
     coin |-> [required |-> FALSE, factor |-> 10, minPrice |-> NoLimit,
               maxPrice |-> NoLimit, maxChangePercent |-> NoLimit,
               maxAbsoluteChange |-> 10]]

Absent == [kind |-> "absent", amount |-> 0]
Values(amounts) == {[kind |-> "value", amount |-> x] : x \in amounts}

\* 1 to 3 is too far within a day and allowed across days; 4 is out of range.
MCEntries == [gold |-> Values({1, 3, 4}),
              coin |-> Values({1, 3}) \cup {Absent}]

\* A day is two ticks.
MCTehranDay(t) == t \div 2
=============================================================================
