SPECIFICATION FairSpec
CONSTANTS
    Entries = {k1, k2}
    Clients = {c1, c2}
    MaxRevision = 2
    MaxCrashes = 1
    MaxWriteFailures = 1
    MaxReadFailures = 1
    Boots = {"before", "lazy"}
INVARIANTS
    MemoryCoversDisk
    ResumedMeansSaved
PROPERTIES
    SavedRecordsSurvive
    EveryCallerResumes
