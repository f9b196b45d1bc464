\* Two commands among everything that two viewers of a channel and its session
\* do, in the memory block of one session: whatever comes next waits until it is
\* freed.  No symmetry: a temporal property is checked.
SPECIFICATION ChannelFairSpec
CONSTANTS
    Clients = {c1, c2}
    Sessions = {s1}
    Keys = {k1}
    Frames = {f1}
    ListHead = ListHead
    NoSession = NoSession
    MaxStarts = 1
    Packets = {p1, p2}
    MaxCmds = 2
INVARIANTS
    ChannelTypeOK
    PacketReferences
PROPERTIES
    WrittenToServingDvr
    CommandReleased
