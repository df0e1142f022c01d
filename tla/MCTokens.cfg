SPECIFICATION Spec
CONSTANTS
    r1 = r1  r2 = r2  u1 = u1  sa = sa  a = a  b = b
    Reqs = {r1, r2}
    Users = {u1}
    ServiceUsers = {sa}
    Clients = {a, b}
    NCodes = 1
    NSessions = 4
    NTokens = 2
    MaxTime = 2
    MaxSessionsPerUser = 2
    ServiceCap = 1
    CodeTTL = 1
    RefreshLifespan = 1
    OfflineLifespan = 2
SYMMETRY RequestSymmetry
ACTION_CONSTRAINT Profiles
INVARIANTS CodeSingleUse ClientBinding TokenNeedsSession ParentSpent OvershootBounded EvictsOldestFirst
CHECK_DEADLOCK FALSE
