SPECIFICATION UpgSpec
CONSTANTS
    u1 = u1  u2 = u2  i1 = i1
    UpgReqs = {u1, u2}
    Instances = {i1}
    LiveRestore = TRUE
    ProgressTTL = 1
    Target = 1
    Creating = {1}
    Referencing = {}
    UpgMaxTime = 1
INVARIANT UpgOneAtATime
CHECK_DEADLOCK FALSE
