\* Two viewers of one key: one is answered while the other waits, joins or leaves,
\* with two frames in flight, and a second session is created while the first waits
\* to exit.  No symmetry: temporal properties are checked.
SPECIFICATION FairSpec
CONSTANTS
    Clients = {c1, c2}
    Sessions = {s1, s2}
    Keys = {k1}
    Frames = {f1, f2}
    ListHead = ListHead
    NoSession = NoSession
    MaxStarts = 1
INVARIANTS
    TypeOK
    ListIntegrity
    NoForgottenSession
    SessionMemory
    ManagerList
    WaitersAreAnswered
    FrameReferences
    CloseOnce
    ResponseFirst
PROPERTIES
    ClosingIsQuiet
    ImplementsViewer
    IdleSessionReleased
    StoppedClientReleased
    ViewerAnswered
