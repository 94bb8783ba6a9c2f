SPECIFICATION FairSpec
CONSTANTS
    Keys = {k1}
    QueueCap = 1
    MaxPosition = 4
    MaxTrans = 2
    Unreadable <- FirstResponse
    MaxSegment = 3
    Ignored <- SecondRequest
    ShortHeads <- FirstRequest
INVARIANTS
    RedisPairsMatch
    NoLeakedTransaction
    PublishedOnce
    PairsWithNewestRequest
PROPERTIES
    SlotSpec
    AllTransactionsEnd
CHECK_DEADLOCK FALSE
