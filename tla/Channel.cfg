SPECIFICATION Spec
CONSTANTS
    Contents = {c1}
    Nightly = {c1}
    Slots <- MCSlots
    PriceSlots = {noon}
    Symbols = {gold, coin}
    MaxPrice = 2
    Threshold = 1
    Cooldown = 2
    Destinations = {d1, d2}
    Admins = {p1, p2}
    MaxRevision = 2
    MaxTime = 2
    MaxWriteFailures = 0
    Workers = {w1, w2}
    MaxAttempts = 2
    Grace = 0
    MaxStarts = 2
    MaxRequests = 3
    MaxCrashes = 1
    MaxDisturbances = 2
INVARIANTS
    TakenOnce
    TakenWasApproved
    RecordsTellTheTruth
    MovementsAreNews
SYMMETRY Symmetry
CHECK_DEADLOCK FALSE
