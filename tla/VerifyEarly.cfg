CONSTANTS
    b1 = b1
    b2 = b2
    Bookings = {b1}
    Agents = {a}
    Dep <- TouchingDep
    Window = 2
    Grace = 1
    DefaultTTL = 1
    MaxTime = 4
    MaxRedeliveries = 0
    None = None
CHECK_DEADLOCK FALSE
SPECIFICATION Spec
INVARIANT NoGrantBeforeDeparture
