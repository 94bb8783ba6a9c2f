SPECIFICATION FairSpec
CONSTANTS
    Keys = {k1}
    MaxQueries = 3
    MaxBatch = 2
INVARIANTS
    PgsqlPublishedOnce
    PgsqlPairsMatch
PROPERTIES
    PgsqlAllEnd
CHECK_DEADLOCK FALSE
