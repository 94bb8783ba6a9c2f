SPECIFICATION FairSpec
CONSTANTS
    Types = {"", "pcap", "af_packet", "pfring", "unknown"}
    Files = {TRUE, FALSE}
    DeviceLists <- MCDeviceLists
    Snaplens = {0, 1300, 4096, 65535}
    BufferSizes = {0, 1, 9}
    Loops = {0, 2}
    PageSize = 4096
    PassLen = 2
    QueueCap = 1
    MaxCount = 5
INVARIANTS
    ReadsOpenHandle
    LoopsExactly
    DumpComplete
    RingFits
PROPERTIES
    StopsAfterSignal
CHECK_DEADLOCK FALSE
