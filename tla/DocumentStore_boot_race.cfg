SPECIFICATION StoreSpec
CONSTANTS
    Entries = {k1, k2}
    Clients = {c1, c2}
    MaxRevision = 2
    MaxCrashes = 1
    MaxWriteFailures = 0
    MaxReadFailures = 0
    Boots = {"beside"}
PROPERTIES
    SavedRecordsSurvive
