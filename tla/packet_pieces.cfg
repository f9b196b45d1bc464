\* One packet, whose length field may arrive in pieces.
SPECIFICATION Spec
CONSTANTS
    Lengths <- SomeLengths
    MaxPacketLen = 7
    MaxPackets = 1
    Budget = 32
    Whole = FALSE
CHECK_DEADLOCK FALSE
INVARIANT PacketsInOrder
