SPECIFICATION MCSpec
CONSTANTS
    r1 = r1
    r2 = r2
    r3 = r3
    r4 = r4
    u = u
    v = v
    NoRequest = NoRequest
    Request <- MCRequest
    Url <- MCUrl
    MaxConcurrent = 1
    Nets <- MCNets
    OnWWAN = TRUE
    MaxChanges = 3
INVARIANTS
    NotifierMode
    QuestionsAgree
    UrlsGuarded
    HandlerCalledOnce
PROPERTIES
    LastCallIsTrue
    LeavesCleanly
    LabelSettles
    EveryRequestAnswered
CHECK_DEADLOCK FALSE
