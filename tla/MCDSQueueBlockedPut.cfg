CONSTANTS
    Thread = {t1, t2, t3}
    Item = {a, b}
    NULL = NULL
    Garbage = Garbage
    NoThread = NoThread
    Capacity = 2
    UInt = 4
SPECIFICATION Spec
SYMMETRY Symmetric
PROPERTIES
    BlockedPutIsAdded
CHECK_DEADLOCK FALSE
