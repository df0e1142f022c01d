SPECIFICATION FairSpec
CONSTANTS
    w1 = w1  w2 = w2  e1 = e1  h1 = h1  h2 = h2
    Workers = {w1, w2}
    Events = {e1}
    Webhooks = {h1, h2}
    MaxAttempts = 3
    RowMaxAttempts = 2
    BatchSize = 1
    MaxFaults = 1
INVARIANTS AtLeastOnce OneJob RoundsBounded
PROPERTY EventsSettle
CHECK_DEADLOCK FALSE
