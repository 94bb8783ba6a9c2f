SPECIFICATION FairSpec
CONSTANTS
    Client = Client
    Server = Server
    Other = Other
    Redis = Redis
    Unknown = Unknown
    NoTuple = NoTuple
    Endpoints <- MCEndpoints
    PortProtocol <- MCPortProtocol
    ISN <- MCISN
    Packets <- MCPackets
    SeqSpace = 16
    Expiry = 1
    MaxStreams = 3
    MaxPackets = 3
INVARIANTS
    TypeOK
    OneStreamPerConnection
    NoLeakedStream
    ClearedIsUnregistered
    DecisionsMatchPositions
    HolesOnlyAfterFinOrWrap
PROPERTIES
    AllStreamsExpire
CHECK_DEADLOCK FALSE
