SPECIFICATION Spec
CONSTANTS
    r1 = r1  r2 = r2  u1 = u1  nobody = nobody
    Reqs = {r1, r2}
    Users = {u1}
    NoUser = nobody
    NRows = 3
    MaxTime = 3
    TTL = 1
    LinkLimit = 1
    LinkWindow = 2
    PollInterval = 1
    MaxInterval = 2
SYMMETRY RequestSymmetry
ACTION_CONSTRAINT StaysBounded
INVARIANTS NoLateUse LiveBounded LinkRateBounded
PROPERTY ImplementsSingleUse
CHECK_DEADLOCK FALSE
