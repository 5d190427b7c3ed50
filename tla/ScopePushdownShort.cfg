\* A pattern that ends where the remainder column begins.
SPECIFICATION Spec
CONSTANTS
    d = d  x = x
    Segments = {d, x}
    HeadFields = {"tenant"}
    HeadOrder <- MCHeadOrder
    Mappings <- MCObjects
    Grants <- ShortGrants
    MaxRemainder = 2
    LikeAlso <- NoneLikesAnother
INVARIANTS ScopeIsExact
