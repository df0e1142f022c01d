SPECIFICATION Spec
CONSTANTS
    r1 = r1  u1 = u1  a = a
    Reqs = {r1}
    Users = {u1}
    ServiceUsers = {}
    Clients = {a}
    NCodes = 0
    NSessions = 1
    NTokens = 1
    MaxTime = 2
    MaxSessionsPerUser = 0
    ServiceCap = 1
    CodeTTL = 1
    RefreshLifespan = 1
    OfflineLifespan = 2
PROPERTY OfflineSurvives
CHECK_DEADLOCK FALSE
