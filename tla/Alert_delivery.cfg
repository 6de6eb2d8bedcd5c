SPECIFICATION Spec
CONSTANTS
    AlertIds = {a1, a2}
    Users = {u1}
    Symbols = {gold}
    Types = {"PRICE_ABOVE"}
    PriceTargets = {1, 2}
    PercentTargets = {50}
    MaxWriteFailures = 1
    Requests = {"create"}
    BaseLimit = 1
    MaxBonus = 1
    MaxQueue = 1
    Reachable = {u1}
    MaxAttempts = 2
    MaxLostAnswers = 1
    MaxPrice = 2
    MaxCrashes = 1
INVARIANTS
    NoDuplicateTargets
    TriggerHasRecord
    DuplicatesAreExplained
    NotifiedStaysFired
PROPERTIES
    CapacityIsKept
    SavedOutcomesAreFinal
SYMMETRY Symmetry
