CONSTANTS
    e1 = e1
    n1 = n1
    Nil = Nil
    ExternalIds = {e1}
    Names = {n1}
    Ids = {1, 2, 3}
    Slots = {s1, s2}
    Seeds <- MCSeeds
    Inputs <- MCInputs
    PatchInputs <- MCPatches
    Directory <- MCDirectory
    Referenced <- MCReferenced
    Operations = {"patch", "status"}
    PageLimit = 1
    MaxCount = 2
    MaxRequests = 3
SPECIFICATION Spec
CHECK_DEADLOCK FALSE
INVARIANT DisableTakesEffect
