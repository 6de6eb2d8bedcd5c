SPECIFICATION FairSpec
CONSTANTS
    Jobs = {1}
    Recipients = {1, 2}
    Admins = {p1, p2}
    Worker = worker
    BatchSize = 2
    MaxAttempts = 2
    MaxManualRetries = 1
    MaxRecipients = 2
    MaxFaults = 3
INVARIANTS
    NobodyIsLeftWaiting
    DuplicatesAreExplained
PROPERTIES
    OutcomesAreFinal
    RunningEnds
CHECK_DEADLOCK FALSE
