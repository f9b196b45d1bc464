SPECIFICATION Spec
CONSTANTS
    Sessions = {s1, s2, s3}
    Keys = {k1, k2, k3}
    ListHead = ListHead
    NoSession = NoSession
    MaxAddrs = 3
    MaxConnects = 3
CHECK_DEADLOCK FALSE
SYMMETRY KeySymmetry
INVARIANTS
    TypeOK
    ManagerList
    ServerMemory
    AddressesEven
PROPERTY ImplementsRegistry
