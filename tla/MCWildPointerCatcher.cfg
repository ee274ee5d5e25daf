CONSTANTS
    o1 = o1
    o2 = o2
    o3 = o3
    o4 = o4
    small = small
    t1 = t1
    t2 = t2
    t3 = t3
    NULL = NULL
    Garbage = Garbage
    NoThread = NoThread
    CatchSize = 2
    StealLimit = 1
    Purger = {t3}
    Thread = {t1, t2, t3}
    Item <- CrowdItem
    Size <- CrowdSize
    Capacity = 3
    UInt = 6
SPECIFICATION CatcherSpec
SYMMETRY Symmetric
INVARIANTS
    KeptOnce
    SizeIsKept
    NeverSleeps
CHECK_DEADLOCK FALSE
