SPECIFICATION Spec
CONSTANTS
    NumFilters = 1
    QueueCap = 1
    ResultsCap = 1
    MaxEvents = 3
    KeepFiles = 3
    RotateEvery = 1
    RotatorMaxFiles = 5
    MaxFaults = 1
    SendingCap = 1
    MaxOutages = 2
    MaxErrors = 1
    MaxReconnects = 2
    EsCap = 1
    BulkSizes = {1, 3}
    FlushIntervals = {0, 1}
    OutputLists <- OneOrTwoOutputs
    Outgoing = {2}
    MaxCrashes = 1
INVARIANTS
    EventsInOrder
    RefusesOnlyOnFailedStat
    StoredInOrder
    BulksAreWhole
PROPERTIES
    FilesAreBoundedLog
    AllHandled
    ReconnectsForGood
CHECK_DEADLOCK FALSE
