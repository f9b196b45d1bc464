\* Two sessions of one key: the second is created while the first waits to exit.
SPECIFICATION Spec
CONSTANTS
    Clients = {c1, c2}
    Sessions = {s1, s2}
    Keys = {k1}
    Frames = {}
    ListHead = ListHead
    NoSession = NoSession
    MaxStarts = 1
SYMMETRY Interchangeable
INVARIANT ServingIsRegistered
