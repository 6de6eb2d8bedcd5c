SPECIFICATION Spec
CONSTANTS
    Keys = {feed, other, admin}
    AdminKey = admin
    Observers = {o1, o2, o3}
    Listener = listener
    Human = human
    Dispatcher = dispatcher
    Threshold = 1
    Stability = 0
    RepeatAfter = 1
    MaxTime = 2
    MaxObservations = 3
    MaxFaults = 1
    BatchSize = 2
    MaxAttempts = 2
    HistoryLimit = 1
INVARIANTS
    WellMeansClosed
    ToldOnce
    RepeatsAreExplained
SYMMETRY Symmetry
CHECK_DEADLOCK FALSE
