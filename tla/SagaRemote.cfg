CONSTANTS
    v1 = v1
    v2 = v2
    b1 = b1
    b2 = b2
    near = near
    far = far
    beyond = beyond
    VMs = {v1, v2}
    Bookings = {b1}
    Segments = {near, far, beyond}
    Owner <- MCOwner
    Home <- MCHome
    Route <- RemoteRoute
    SlowSagas = FALSE
    CancelWhen = {}
    MaxFaults = 0
CHECK_DEADLOCK FALSE
SPECIFICATION Spec
PROPERTY HealthyStaysConfirmed
