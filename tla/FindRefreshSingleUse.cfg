SPECIFICATION Spec
CONSTANTS
    r1 = r1  r2 = r2  u1 = u1  a = a
    Reqs = {r1, r2}
    Users = {u1}
    ServiceUsers = {}
    Clients = {a}
    NCodes = 0
    NSessions = 1
    NTokens = 3
    MaxTime = 0
    MaxSessionsPerUser = 0
    ServiceCap = 1
    CodeTTL = 1
    RefreshLifespan = 1
    OfflineLifespan = 2
INVARIANT RefreshSingleUse
CHECK_DEADLOCK FALSE
