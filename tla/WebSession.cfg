CONSTANTS
    driver = driver
    agent = agent
    None = None
    Tabs = {t1, t2}
    Accounts = {driver, agent}
    BackendRole <- MCBackendRole
    MaxSubmits = 2
CHECK_DEADLOCK FALSE
SPECIFICATION FairSpec
INVARIANTS
    ActsAsShown
PROPERTIES
    SessionSettles
