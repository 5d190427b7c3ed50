CONSTANTS
    a = a
    b = b
    issuer1 = issuer1
    issuer2 = issuer2
    None = None
    Clients = {a, b}
    Callers <- MCCallers
    Directories <- MCDirectories
    Scenarios <- MCScenarios
    Lifetimes = {0, 1, 3}
    Slack = 2
    LongestUse = 10
    RequestTimeout = 1
    MaxClock = 3
    MaxFailures = 1
    MaxLimit = 2
SPECIFICATION Spec
CHECK_DEADLOCK FALSE
INVARIANTS
    WalkIsComplete
    PageHasNoDuplicates
    ShownIsResolved
    HandedOutAlive
    NoNeedlessFetch
PROPERTY
    WalksEnd
