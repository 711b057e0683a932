CONSTANTS
    LocalSagas = {s1, s2}
    PeerRequests = {p1}
    Capacity = 2
    LockMayLapse = TRUE
    None = None
    Orphan = Orphan
SPECIFICATION Spec
INVARIANT BoundedOverbooking
