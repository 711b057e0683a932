CONSTANTS
    MaxBookings = 2
    Points = {"dublin", "cork"}
    Presets = {"ie_dublin_cork", "ie_dublin_birmingham"}
    Times = {"noon"}
    MaxChecks = 2
    MaxCancels = 2
    Readers = {"me", "other"}
    Me = "me"
    IsAdmin = TRUE
    Limits = {10, 20}
    MaxLoads = 2
    Plates = {"P", "Q"}
    MaxLookups = 6
    Reports <- MCReports
    MaxEvents = 2
    Offers = {1, 2}
    LegacyRoles = {"driver", "enforcement_agent", "admin"}
    MaxSignIns = 2
CHECK_DEADLOCK FALSE
SPECIFICATION FrontendFair
INVARIANTS
    FrontendTypeOK
    PreviewIsCurrent
    OutcomeIsTold
    CancelledIsShown
    ShowsWhoIsAsked
    VerdictIsLatest
    BoardIsTrue
    LegacyIsSound
PROPERTIES
    SpinnersStop
    SidebarIsSound
