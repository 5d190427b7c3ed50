\* Registration, wallets linked through it, federation, TOTP and passkeys, against administration.
SPECIFICATION Spec
CONSTANTS
    None = None
    p1 = p1  p2 = p2  p3 = p3  s1 = s1  s2 = s2  l1 = l1
    c1 = c1  c2 = c2  c3 = c3  k1 = k1  k2 = k2
    corp = corp  hub = hub  purse = purse
    PrincipalIds = {p1, p2, p3}
    Subjects = {s1, s2}
    Accounts = {corp, hub, purse}
    AccountProvider <- AccountProviders
    CredentialIds = {c1, c2, c3}
    Logins = {l1}
    ChallengeIds = {k1, k2}
    Requests = {r1, r2}
    Profiles <- AllProfiles
    MaxCount = 2
    MaxStep = 1
    Skew = 1
SYMMETRY AccountSymmetry
INVARIANTS
    TypeOK UndoneLeavesNothing AnswersStayTrue
    TokensNeedAnActivePrincipal LinksFollowPolicy ChallengesAreSingleUse
    ProofsAdvance SecondFactorGuardsOwner
PROPERTY RollbackSparesOthers
