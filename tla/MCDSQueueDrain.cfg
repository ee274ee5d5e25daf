CONSTANTS
    p1 = p1
    p2 = p2
    c1 = c1
    c2 = c2
    main = main
    m1 = m1
    m2 = m2
    n1 = n1
    n2 = n2
    Producer = {p1, p2}
    Consumer = {c1, c2}
    Owner = main
    Sends <- MCSends
    Thread = {p1, p2, c1, c2, main}
    Item = {m1, m2, n1, n2}
    NULL = NULL
    Garbage = Garbage
    NoThread = NoThread
    Capacity = 2
    UInt = 4
SPECIFICATION DrainSpec
INVARIANTS
    DeliveredInOrder
    ClosesSafely
PROPERTIES
    EverythingDrained
CHECK_DEADLOCK FALSE
