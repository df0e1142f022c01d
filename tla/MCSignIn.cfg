SPECIFICATION SignInSpec
CONSTANTS
    r1 = r1  r2 = r2  i1 = i1  i2 = i2
    Reqs = {r1, r2}
    AdminReqs = {r1, r2}
    MfaRequired = TRUE
    SetSize = 1
    NSecrets = 2
    NSets = 1
    NTokens = 1
    McReqs = {r1, r2}
    Instances = {i1, i2}
    MaxAttempts = 2
    ChallengeTTL = 2
    MaxChallenges = 1
    RateWindow = 2
    UsedTTL = 3
    NChallenges = 1
    MaxTime = 2
    LsReqs = {r1, r2}
    NSso = 3
    MaxSso = 1
    Life = 1
    Cache = 1
    NSteps = 1
    LsMaxTime = 2
SYMMETRY RequestSymmetry
INVARIANTS ActiveSecretProven EnrolmentOnce EnrolmentNeedsFactor RecoverySingleUse
INVARIANTS AttemptBudget OneSignIn NoReplay
INVARIANTS SsoOvershootBounded SilentCodesProven AdminNeedsRecentFactor
CHECK_DEADLOCK FALSE
