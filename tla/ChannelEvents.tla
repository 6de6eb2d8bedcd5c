--------------------------- MODULE ChannelEvents ---------------------------
(***************************************************************************)
(* Movements of a day as news for the channels (source:                    *)
(* channel/channel-policy.service.ts, channel/channel-engine.service.ts    *)
(* publishMovementEvents).  A market cycle, when its prices are out, reads *)
(* the market, picks the symbols whose move is news, awaits a job of the   *)
(* engine and records what was published; what the next cycle finds worth  *)
(* telling hangs on these records.                                         *)
(*                                                                         *)
(* All on one day whose every price is accepted; a tick of the clock is    *)
(* the time from one cycle to the next.  The range of the day, the         *)
(* scheduled ranges and the reports are to the engine what price updates   *)
(* are: messages that a slot makes unique.                                 *)
(***************************************************************************)
EXTENDS ChannelEngine

CONSTANTS
    Threshold,  \* CHANNEL_MOVEMENT_THRESHOLD_PERCENT, as a difference of prices
    Cooldown    \* CHANNEL_MOVEMENT_COOLDOWN_MINUTES


VARIABLES
    market,     \* the snapshot of each symbol
    cycle,      \* publishMovementEvents() of the cycle in progress
    due,        \* the time from which the next cycle may begin
    calm        \* history: when each symbol was seen to have fallen back

eventVars == <<market, cycle, due, calm>>
vars == <<contentVars, engineVars, eventVars>>

MovementSlot(at, S) == <<"movement", at, S>>

ASSUME EventsAssumption ==
    /\ Threshold \in Nat \ {0} /\ Cooldown \in Nat
    /\ \A t \in 0 .. MaxTime, S \in (SUBSET Symbols) \ {{}} :
            MovementSlot(t, S) \in Slots \ PriceSlots

\* `move` is the distance from the price before.
Sample == [price : 1 .. MaxPrice, move : 0 .. MaxPrice]

Cycle == [busy : BOOLEAN, since : 0 .. MaxTime, key : Key \cup {NoKey}, todo : SUBSET Symbols]
NoCycle == [busy |-> FALSE, since |-> 0, key |-> NoKey, todo |-> {}]

Distance(x, y) == IF x < y THEN y - x ELSE x - y

Sampled(old, price) == [price |-> price, move |-> Distance(price, old.price)]

-----------------------------------------------------------------------------
(* The policy *)

FallenBack(sample) == 2 * sample.move < Threshold

Moved(m) ==
    {s \in Symbols :
        LET event == memory.movements[s] IN
        /\ m[s].move >= Threshold
        /\ event.known => event.armed /\ now - event.at >= Cooldown}

Rearmed(m) ==
    [s \in Symbols |->
        [memory.movements[s] EXCEPT
            !.armed = @ \/ (memory.movements[s].known /\ FallenBack(m[s]))]]

-----------------------------------------------------------------------------
(* The cycle *)

\* Its job, which one of the workers does, has come to its end.
Returned == cycle.busy /\ Up /\ \A w \in Workers : worker[w].key # cycle.key
Published == JobIn(memory, cycle.key) = "PUBLISHED"

EngineOnly == UNCHANGED <<scope, channels, request, asked, now, approved, recovery, starts,
                          crashes, switches, troubles, accepted>>

\* Without a movement to tell, not even the records of the others are re-armed.
BeginCycle(w) ==
    /\ scope = "events" /\ Up /\ worker[w].at = "idle"
    /\ ~ cycle.busy /\ due <= now
    /\ \E prices \in [Symbols -> 1 .. MaxPrice] :
        LET m == [s \in Symbols |-> Sampled(market[s], prices[s])]
            news == Moved(m)
            key == <<MovementSlot(now, news), 0>>
        IN /\ market' = m
           /\ calm' = [s \in Symbols |-> IF FallenBack(m[s]) THEN calm[s] \cup {now} ELSE calm[s]]
           /\ IF news = {} THEN UNCHANGED <<cycle, worker>>
              ELSE /\ cycle' = [busy |-> TRUE, since |-> now, key |-> key, todo |-> news]
                   /\ Becomes(w, [Idle EXCEPT !.at = "creating", !.key = key, !.since = now,
                                              !.priced = TRUE])
    /\ due' = now + 1
    /\ Reads /\ EngineOnly

\* Mutant: a record of what was told that leaves the symbol armed.
RecordMovementArmed(s) ==
    /\ Returned /\ Published /\ s \in cycle.todo
    /\ Save([memory EXCEPT !.movements[s] =
                [known |-> TRUE, at |-> cycle.since, armed |-> TRUE]])
    /\ cycle' = [cycle EXCEPT !.todo = @ \ {s}]
    /\ UNCHANGED <<worker, market, due, calm>> /\ EngineOnly

\* A transaction for each symbol that was told.
RecordMovement(s) ==
    /\ Returned /\ Published /\ s \in cycle.todo
    /\ Save([memory EXCEPT !.movements[s] =
                [known |-> TRUE, at |-> cycle.since, armed |-> FALSE]])
    /\ cycle' = [cycle EXCEPT !.todo = @ \ {s}]
    /\ UNCHANGED <<worker, market, due, calm>> /\ EngineOnly

ReArm ==
    /\ Returned /\ (Published => cycle.todo = {})
    /\ Save([memory EXCEPT !.movements = Rearmed(market)])
    /\ cycle' = NoCycle
    /\ UNCHANGED <<worker, market, due, calm>> /\ EngineOnly

-----------------------------------------------------------------------------
\* The day has had its first prices.
Init ==
    /\ EngineInit
    /\ market = [s \in Symbols |-> [price |-> 1, move |-> 0]]
    /\ cycle = NoCycle
    /\ due = 0
    /\ calm = [s \in Symbols |-> {}]

\* Bound: a cycle is over before the next tick.
Next ==
    \/ EngineNext /\ UNCHANGED eventVars
    \/ ~ cycle.busy /\ Tick /\ UNCHANGED <<engineVars, eventVars>>
    \/ Crash /\ cycle' = NoCycle /\ UNCHANGED <<market, due, calm>>
    \/ \E w \in Workers : BeginCycle(w)
    \/ \E s \in Symbols : RecordMovement(s)
    \/ ReArm

Spec == Init /\ [][Next]_vars

TypeOK ==
    /\ EngineTypeOK
    /\ market \in [Symbols -> Sample]
    /\ cycle \in Cycle
    /\ due \in 0 .. MaxTime + 1
    /\ calm \in [Symbols -> SUBSET (0 .. MaxTime)]

-----------------------------------------------------------------------------
(* When a movement of the symbol was told, to some channel. *)
ToldAt(s) ==
    {t \in 0 .. MaxTime : \E S \in SUBSET Symbols, d \in Destinations :
        s \in S /\ Taken(<<MovementSlot(t, S), 0>>, d) > 0}

(* A movement of a symbol is told again only when the cooldown has passed    *)
(* and the symbol was seen to have fallen back since; what may explain more  *)
(* is a process that died before the record, or a message whose answer did   *)
(* not come and which was therefore never recorded as told                   *)
(* (selectMovementCandidates, recordMovementEvent, updateMovementReArm).     *)
MovementsAreNews ==
    \A s \in Symbols :
        Cardinality({t \in ToldAt(s) : \E u \in ToldAt(s) :
            /\ u < t /\ \A v \in ToldAt(s) : ~ (u < v /\ v < t)
            /\ t - u < Cooldown \/ ~ \E c \in calm[s] : u < c /\ c < t})
        <= crashes + troubles
=============================================================================
