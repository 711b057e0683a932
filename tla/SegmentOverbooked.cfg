CONSTANTS
    LocalSagas = {s1, s2}
    PeerRequests = {}
    Capacity = 1
    LockMayLapse = FALSE
    None = None
    Orphan = Orphan
SPECIFICATION Spec
INVARIANT NoOverbooking
