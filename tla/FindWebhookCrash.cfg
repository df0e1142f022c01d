SPECIFICATION FairSpec
CONSTANTS
    w1 = w1  e1 = e1  h1 = h1
    Workers = {w1}
    Events = {e1}
    Webhooks = {h1}
    MaxAttempts = 3
    RowMaxAttempts = 2
    BatchSize = 1
    MaxFaults = 1
PROPERTY ProcessingEnds
CHECK_DEADLOCK FALSE
