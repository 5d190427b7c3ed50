\* One process and one administrator with every operation; both principals come and go.
SPECIFICATION Spec
CONSTANTS
    a1 = a1  a2 = a2  m1 = m1  r1 = r1  r2 = r2  n1 = n1  b1 = b1
    p1 = p1  p2 = p2  good = good  bad = bad  c1 = c1  c2 = c2
    ActionIds = {a1, a2}
    Matchers = {m1}
    RoleIds = {r1, r2}
    RoleNames = {n1}
    BindingIds = {b1}
    PrincipalIds = {p1, p2}
    Urns = {good, bad}
    ValidUrns = {good}
    Replicas = {one}
    Clients = {c1}
    Operations <- AllOperations
    BootstrapPolicy <- ReaderPolicy
    BootstrapRevision = 0
    MaxRevision = 3
    MaxEpoch = 2
    Nobody = Nobody
INVARIANTS TypeOK DurableIsServable
