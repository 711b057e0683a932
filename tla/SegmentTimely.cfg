CONSTANTS
    LocalSagas = {s1, s2}
    PeerRequests = {p1, p2}
    Capacity = 2
    LockMayLapse = FALSE
    None = None
    Orphan = Orphan
SPECIFICATION FairSpec
INVARIANTS
    BoundedOverbooking
    MutualExclusion
PROPERTIES
    OnlyHolderFrees
    ImplementsLedger
    LockComesFree
