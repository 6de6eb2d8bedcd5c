SPECIFICATION Spec
CONSTANTS
    Symbols = {"gold", "coin"}
    Registry <- MCRegistry
    CrossDayMultiplier = 2
    MaxTime = 2
    TehranDay <- MCTehranDay
    Entries <- MCEntries
    Cooldown = 2
    StaleAfter = 1
    MaxCycles = 3
    MaxCrashes = 1
    MaxFileFaults = 1
INVARIANTS
    StateTellsHistory
    MovesArePlausible
    PathIsTold
    UpdateTellsHistory
    AnomaliesAreCounted
CHECK_DEADLOCK FALSE
