CONSTANTS
    v1 = v1
    v2 = v2
    b1 = b1
    b2 = b2
    near = near
    far = far
    beyond = beyond
    VMs = {v1, v2}
    Bookings = {b1, b2}
    Segments = {near, far, beyond}
    Owner <- MCOwner
    Home <- CrossHome
    Route <- CrossRoute
    SlowSagas = FALSE
    CancelWhen = {"CONFIRMED"}
    MaxFaults = 2
CHECK_DEADLOCK FALSE
SPECIFICATION Spec
INVARIANTS
    TypeOK
    ConfirmedBacked
    CompensationComplete
    ConfirmedWasTold
PROPERTIES
    ServesPages
    OnlyDriversCancel
