SPECIFICATION Spec
CONSTANTS
    NumFilters = 1
    QueueCap = 1
    ResultsCap = 1
    MaxEvents = 3
    KeepFiles = 2
    RotateEvery = 1
    RotatorMaxFiles = 4
    MaxFaults = 1
    SendingCap = 1
    MaxOutages = 1
    MaxErrors = 0
    MaxReconnects = 2
    EsCap = 1
    BulkSizes = {3}
    FlushIntervals = {0, 1}
    OutputLists <- FileOnly
    Outgoing = {2}
    MaxCrashes = 0
INVARIANTS
    FailedEventsAreDropped
CHECK_DEADLOCK FALSE
