\* A length field arrives whole and with some of its body; a budget that is not
\* used up by three packets, each in pieces.
SPECIFICATION FairSpec
CONSTANTS
    Lengths <- SomeLengths
    MaxPacketLen = 7
    MaxPackets = 3
    Budget = 32
    Whole = TRUE
CHECK_DEADLOCK FALSE
INVARIANTS
    TypeOK
    PacketsInOrder
    BodyOwned
PROPERTY PacketDelivered
