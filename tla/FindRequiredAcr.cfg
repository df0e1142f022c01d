SPECIFICATION LsSpec
CONSTANTS
    r1 = r1
    LsReqs = {r1}
    NSso = 1
    MaxSso = 1
    Life = 1
    Cache = 1
    NSteps = 1
    LsMaxTime = 1
INVARIANTS RequiredAcrHeld
CHECK_DEADLOCK FALSE
