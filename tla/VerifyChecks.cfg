CONSTANTS
    b1 = b1
    b2 = b2
    Bookings = {b1, b2}
    Agents = {a}
    Dep <- TouchingDep
    Window = 2
    Grace = 1
    DefaultTTL = 1
    MaxTime = 5
    MaxRedeliveries = 1
    None = None
CHECK_DEADLOCK FALSE
SPECIFICATION FairSpec
INVARIANTS
    NoFalseDenial
    NoGrantAfterWindow
PROPERTY EventsHandled
