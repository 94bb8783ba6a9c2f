SPECIFICATION Spec
CONSTANTS
    Processes <- TwoProcesses
    Pids = {1, 2}
    Ports = {80, 81}
    MaxSockets = 2
    MaxStarts = 2
    MaxProcErrors = 1
    Shippers = {"s1", "s2"}
    IPs = {"i1"}
    SearchSize = 2
    MaxMoves = 1
    MaxStops = 1
    MaxStoreErrors = 1
INVARIANTS
    NamesWereTrue
    LeftToFormerOwner
PROPERTIES
    
    ShippersAgree
CHECK_DEADLOCK FALSE
