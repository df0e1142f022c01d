SPECIFICATION OpSpec
CONSTANTS
    r1 = r1  r2 = r2  a1 = a1  i1 = i1  i2 = i2
    Reqs = {r1, r2}
    AdminReqs = {a1}
    MaxFailures = 2
    ResetTime = 1
    LockoutDuration = 1
    PermanentAfter = 2
    Retention = 2
    NFailures = 4
    MaxTime = 1
    UpgReqs = {r1, r2}
    Instances = {i1, i2}
    LiveRestore = TRUE
    ProgressTTL = 0
    Target = 2
    Creating = {1, 2}
    Referencing = {2}
    UpgMaxTime = 1
    KeyReqs = {r1, r2}
    NKeys = 4
    Grace = 1
    RotateAge = 1
    KeyMaxTime = 1
    RlReqs = {r1, r2}
    PerMinute = 1
    PerHour = 2
    Hour = 2
    RlMaxTime = 3
    AkReqs = {r1, r2}
    PerWindow = 1
    Window = 1
    Ttl = 2
    PerDay = 2
    Day = 2
    PerMonth = 2
    AkUses = 7
    AkMaxTime = 2
    Servers = {i1, i2}
    Exp = 2
    BlMaxTime = 3
    PkReqs = {r1, r2}
    NChallenges = 2
    ChallengeTTL = 0
    PkMaxTime = 1
SYMMETRY OpSymmetry
INVARIANTS ExtraGuessesBounded PermanentLockHolds
INVARIANTS UpgAnswerTruthful UpgWayBack UpgFlagMeansRunning
INVARIANTS KeysNoGap KeysSuccessorsBounded
INVARIANTS RateCapHolds RateNoInflation
INVARIANTS ApiKeyLimits RevocationLasts PasskeySignsInOnce
CHECK_DEADLOCK FALSE
