\* One viewer, and a recorder that cannot be reached.
SPECIFICATION Spec
CONSTANTS
    Clients = {c1}
    Sessions = {s1}
    Keys = {k1}
    Frames = {}
    ListHead = ListHead
    NoSession = NoSession
    MaxStarts = 1
PROPERTY SuccessIsNotRefusal
