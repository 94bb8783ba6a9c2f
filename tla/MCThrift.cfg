SPECIFICATION FairSpec
CONSTANTS
    Ping = Ping
    Add = Add
    Get = Get
    Keys = {k1}
    Methods <- MCMethods
    Oneway <- MCOneway
    CaptureReply = FALSE
    QueueCap = 1
    ResultsCap = 1
    MaxCalls = 2
    MaxLosses = 1
INVARIANTS
    QueuedOnce
    ReplyAnswersCall
    NoReplySkipped
PROPERTIES
    AllEnd
CHECK_DEADLOCK FALSE
