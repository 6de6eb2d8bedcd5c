---------------------------- MODULE AlertEngine ----------------------------
(***************************************************************************)
(* The alert subsystem: users, the market's committed prices, the engine   *)
(* that evaluates them, the store's chain, the delivery loops, and crashes *)
(* of the whole process.  Everything in memory is lost by a crash; the     *)
(* restart (docker: unless-stopped) reloads the file and recovers.         *)
(***************************************************************************)
EXTENDS AlertNotification

CONSTANTS
    MaxPrice,       \* prices are 1..MaxPrice
    MaxCrashes      \* bound on the crashes

ASSUME AlertEngineAssumption ==
    /\ MaxPrice \in Nat
    /\ MaxCrashes \in Nat

VARIABLES
    events,     \* committed prices handleCommittedPrices() has not evaluated
    engine,     \* the evaluation of the current event
    up,         \* the process is running
    crashes

engineVars == <<events, engine, up, crashes>>
vars == <<storeVars, serviceVars, notificationVars, engineVars>>

Observation == [symbol : Symbols, price : 1..MaxPrice, previous : Nat]

\* "idle": no event in hand; "going": todo holds the candidates of the snapshot
\* whose condition is met; "reserving": one of them awaits reserveTrigger().
NoEvaluation == [at |-> "idle", todo |-> {}, price |-> NoPrice]
Evaluation == [at : {"idle", "going", "reserving"}, todo : SUBSET AlertIds,
               price : 0..MaxPrice]

TypeOK ==
    /\ StoreTypeOK
    /\ ServiceTypeOK
    /\ NotificationTypeOK
    /\ events \subseteq Observation
    /\ engine \in Evaluation
    /\ up \in BOOLEAN
    /\ crashes \in 0..MaxCrashes

Init ==
    /\ StoreInit
    /\ ServiceInit
    /\ NotificationInit
    /\ events = {}
    /\ engine = NoEvaluation
    /\ up = TRUE
    /\ crashes = 0

EngineUnchanged == UNCHANGED engineVars

-----------------------------------------------------------------------------
\* External: a market cycle commits the accepted price of one or more symbols
\* and notifies the listener (the next cycle comes half an hour later).
MarketCommits ==
    /\ events = {}
    /\ engine.at = "idle"
    /\ \E S \in SUBSET Symbols \ {{}}, p \in [Symbols -> 1..MaxPrice] :
        /\ \A s \in Symbols \ S : p[s] = 1
        /\ price' = [s \in Symbols |-> IF s \in S THEN p[s] ELSE price[s]]
        /\ events' = {[symbol |-> s, price |-> p[s], previous |-> price[s]] : s \in S}
    /\ UNCHANGED <<storeVars, bonus, notificationVars, engine, up, crashes>>

\* evaluateSymbol(): the ACTIVE alerts of the symbol are listed once, and each
\* copy is evaluated as it was then.
EvaluateSymbol(obs) ==
    /\ engine.at = "idle"
    /\ obs \in events
    /\ events' = events \ {obs}
    /\ engine' = [at |-> "going", price |-> obs.price,
                  todo |-> {a \in ListActiveBySymbol(obs.symbol) :
                              ShouldTrigger(alerts[a], obs)}]
    /\ UNCHANGED <<storeVars, serviceVars, notificationVars, up, crashes>>

Reserve(a) ==
    /\ engine.at = "going"
    /\ a \in engine.todo
    /\ Enqueue([kind |-> "reserve", alert |-> a, price |-> engine.price])
    /\ engine' = [engine EXCEPT !.at = "reserving", !.todo = @ \ {a}]
    /\ UNCHANGED <<notificationVars, events, up, crashes>>
    /\ MapsUnchanged

\* Mutant: the evaluation is left before every reservation has been awaited.
SymbolIsDoneEarly ==
    /\ engine.at = "going"
    /\ engine' = NoEvaluation
    /\ UNCHANGED <<storeVars, serviceVars, notificationVars, events, up, crashes>>

SymbolIsDone ==
    /\ engine.at = "going"
    /\ engine.todo = {}
    /\ engine' = NoEvaluation
    /\ UNCHANGED <<storeVars, serviceVars, notificationVars, events, up, crashes>>

EngineStep ==
    \/ \E obs \in events : EvaluateSymbol(obs)
    \/ \E a \in AlertIds : Reserve(a)
    \/ SymbolIsDone

-----------------------------------------------------------------------------
\* The chain, with what the caller of the finished link does next.

EngineAnswered(r) ==
    engine' = IF r.kind = "reserve" THEN [engine EXCEPT !.at = "going"] ELSE engine

Resume(r, accepted) ==
    /\ Answered(r, accepted)
    /\ EngineAnswered(r)
    /\ UNCHANGED <<serviceVars, events, up, crashes>>

LinkApplied == Applied /\ UNCHANGED <<serviceVars, notificationVars, engineVars>>
LinkRefused == Refused /\ Resume(Head(chain), FALSE)
LinkWritten == Written /\ Resume(Head(chain), TRUE)

LinkStep == LinkApplied \/ LinkRefused \/ LinkWritten

-----------------------------------------------------------------------------
\* The process dies: maps, chain, loops and evaluation are gone.  The maps of
\* a process that is down are shown as the file it will load.
Crash ==
    /\ up
    /\ crashes < MaxCrashes
    /\ crashes' = crashes + 1
    /\ up' = FALSE
    /\ alerts' = disk.alerts
    /\ deliveries' = disk.deliveries
    /\ chain' = <<>>
    /\ link' = "idle"
    /\ loop' = [a \in AlertIds |-> NoLoop]
    /\ recovery' = NoRecovery
    /\ events' = {}
    /\ engine' = NoEvaluation
    /\ UNCHANGED <<disk, drawn, writeFailures, serviceVars, received, lostAnswers>>

\* Mutant: every delivery is taken for pending.
RestartRecoversAll ==
    /\ ~up
    /\ up' = TRUE
    /\ recovery' = [todo |-> {a \in AlertIds : deliveries[a] # NoDelivery},
                    waiting |-> FALSE]
    /\ UNCHANGED <<storeVars, serviceVars, loop, received, lostAnswers,
                   events, engine, crashes>>

\* onModuleInit: the document is loaded and recoverPending() begins.
Restart ==
    /\ ~up
    /\ up' = TRUE
    /\ recovery' = [todo |-> {a \in AlertIds : deliveries[a].status = "PENDING"},
                    waiting |-> FALSE]
    /\ UNCHANGED <<storeVars, serviceVars, loop, received, lostAnswers,
                   events, engine, crashes>>

-----------------------------------------------------------------------------
RunningStep ==
    \/ UserStep /\ UNCHANGED <<notificationVars, engineVars>>
    \/ MarketCommits
    \/ EngineStep
    \/ LinkStep
    \/ \E a \in AlertIds : LoopStep(a) /\ EngineUnchanged
    \/ \E a \in AlertIds : RecoveryStep(a) /\ EngineUnchanged

Next ==
    \/ up /\ RunningStep
    \/ Crash
    \/ Restart

Spec == Init /\ [][Next]_vars

\* Promise jobs, timers and file operations are run by the event loop, a
\* platform call settles within its timeout, and the container is restarted.
\* Nothing is assumed of users, of the market, or of what the platform answers.
Fairness ==
    /\ WF_vars(up /\ LinkStep)
    /\ WF_vars(up /\ EngineStep)
    /\ \A a \in AlertIds : WF_vars(up /\ LoopStep(a) /\ EngineUnchanged)
    /\ \A a \in AlertIds : WF_vars(up /\ RecoveryStep(a) /\ EngineUnchanged)
    /\ WF_vars(Restart)

FairSpec == Spec /\ Fairness
=============================================================================
