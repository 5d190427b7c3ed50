\* One check over every catalog of the pool, while principals and catalogs change.
\* Once it is answered and the principals are gone, nothing is left to do.
SPECIFICATION Spec
CONSTANTS
    user = user  group = group  read = read  write = write  job = job
    folder = folder  get = get  lan = lan  wan = wan  r1 = r1
    None = None  NoExpiry = NoExpiry
    Segments = {job, folder}
    HeadFields = {"tenant"}
    MaxTime = 1
    Requests = {r1}
    Inputs <- MCInputs
    PrincipalIds = {user, group}
    Kind <- MCKind
    Catalogs <- MCCatalogs
    Updates <- MCUpdates
    MaxRevision = 2
    Resign = TRUE
    ResignTtl = 2
CHECK_DEADLOCK FALSE
INVARIANTS AllowIsJustified ScopeCoversRequest DisabledStaysOut ResignedEndsWithSource
