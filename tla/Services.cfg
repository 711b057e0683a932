CONSTANTS
    VMs = {"vm1", "vm2"}
    Emails = {"e"}
    MaxRegs = 2
    Deployments <- MCDeployments
    Consumers = {"notification", "analytics", "verification"}
    MaxEvents = 3
    Type <- MCType
    Segments <- MCSegments
    Plateless = {1}
    Prefetch <- MCPrefetch
    MaxFaults = 1
    RATE_LIMIT = 2
    WINDOW = 2
    MaxRequests = 4
CHECK_DEADLOCK FALSE
SPECIFICATION ServicesFair
INVARIANTS
    OneAccount
    ClaimHasReason
    DifferenceIsNoted
    CopiesAreCounted
    WindowBound
PROPERTIES
    KeepsPromise
    HealthyEnd
    Reopens
