SPECIFICATION Spec
CONSTANTS
    p1 = p1  p2 = p2  c1 = c1
    user = user  realm = realm
    Reqs = {p1, p2}
    Bindings = {c1}
    BindingTTL = 2
    Buckets = {user, realm}
    BucketsOf <- AllBuckets
    Limit <- Limits
    Window <- Windows
    MaxAttempts = 2
    MaxSends = 2
    Cooldown = 1
    CodeTTL = 1
    Retention = 2
    LogRetention = 2
    MaxLatency = 1
    NLogs = 3
    MaxTime = 4
SYMMETRY RequestSymmetry
INVARIANTS ChallengeBudgets SingleUse SendCap
CHECK_DEADLOCK FALSE
