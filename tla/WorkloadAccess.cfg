\* Three requests, two places in the memory cache or a Redis, one workload.
\* Once every request has arrived and time is up, nothing is left to do.
SPECIFICATION Spec
CONSTANTS
    t1 = t1  t2 = t2  t3 = t3  r1 = r1  r2 = r2  r3 = r3
    None = None  Malformed = Malformed
    CacheProviders = {"memory", "redis"}
    Tokens = {t1, t2, t3}
    MaxCapacity = 2
    DefaultTtl = 2
    MaxTime = 2
    Requests = {r1, r2, r3}
    ContextTtl = 1
    ScopeTokenTtl = 2
    Workloads <- MCWorkloads
    FutureTolerance = 1
SYMMETRY Symmetry
CHECK_DEADLOCK FALSE
INVARIANTS EnteredWasIssued RefusedForCause
