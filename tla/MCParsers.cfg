SPECIFICATION Spec
CONSTANTS
    Wires <- AllWires
    MaxPacket = 24
    MaxData = 48
    MaxPayload = 30
INVARIANTS
    ShippedAsSent
    KeepsItsPlace
    WholeMessagesShipped
    
CHECK_DEADLOCK FALSE
