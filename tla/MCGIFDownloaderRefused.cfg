CONSTANTS
    r1 = r1
    r2 = r2
    r3 = r3
    r4 = r4
    u = u
    v = v
    NoRequest = NoRequest
    Request <- MCRequest
    Url <- MCUrl
    MaxConcurrent = 1
SPECIFICATION FairSpec
INVARIANTS
    RefusedOnlyWhileProcessing
CHECK_DEADLOCK FALSE
