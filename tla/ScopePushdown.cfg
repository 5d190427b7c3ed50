\* Three tables, grants of up to three patterns.
SPECIFICATION Spec
CONSTANTS
    d = d  x = x
    Segments = {d, x}
    HeadFields = {"tenant"}
    HeadOrder <- MCHeadOrder
    Mappings <- MCMappings
    Grants <- MCGrants
    MaxRemainder = 2
    LikeAlso <- LikeWildcards
INVARIANTS ScopeIsExactButForGaps
