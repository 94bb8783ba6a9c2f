SPECIFICATION Spec
CONSTANTS
    Keys = {k1}
    QueueCap = 1
    MaxPosition = 6
    MaxTrans = 3
    Unreadable = {}
    MaxSegment = 3
INVARIANTS
    MessageTimeIsPacketTime
CHECK_DEADLOCK FALSE
