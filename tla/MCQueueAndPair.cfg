CONSTANTS
    Thread = {x, y, z}
    Item = {a, b}
    NULL = NULL
    Garbage = Garbage
    NoThread = NoThread
    Capacity = 2
    UInt = 4
    t1 = t1
    t2 = t2
    b1 = b1
    b2 = b2
    b3 = b3
SPECIFICATION MCSpec
SYMMETRY Symmetric
INVARIANTS
    NobodyStuck
    AbortsOnlyClosed
PROPERTIES
    DrainedForever
    RefinesFifo
    PairReturns
CHECK_DEADLOCK FALSE
