SPECIFICATION FairSpec
CHECK_DEADLOCK FALSE
CONSTANTS
    Position <- MCPosition
    ReferenceTo <- MCReferenceTo
    RuntimeNames <- MCRuntimeNames
    Environments <- MCEnvironments
    Requests = {r1}
    MaxSignals = 2
INVARIANTS
    OverridesTakeEffect
    SecretsStayWithTheirService
    ListenersNeedUsableConfiguration
    SuccessIsOrderly
PROPERTIES
    StopsInTheEnd
