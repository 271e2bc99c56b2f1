SPECIFICATION Spec
CONSTANTS
    Tenants = {tenant}
    pool = pool
    otherPool = otherPool
    Pools = {pool, otherPool}
    Correlations = {corr}
    good = good
    unknown = unknown
    Profiles = {good, unknown}
    Identities = {good, unknown}
    Versions = {"v1"}
    Ids = {i1}
    ProfileId <- OneIdentity
    MaxSafe = 5
    Undefined = Undefined
    g1 = g1
    g2 = g2
    t1 = t1
    t2 = t2
    t3 = t3
    Guards = {g1}
    Tasks = {t1, t2}
    GuardOf <- OneGuard
    Operators = {}
    Attempts <- GivenAttempts
    Registry <- BoundTwo
    Setup <- LimitThree
    Times = {1}
    Uses = {0, 2}
    MaxSends = 2
    MaxDoubt = 0
INVARIANTS
    NeverResent
