SPECIFICATION Spec
CONSTANTS
    main = main
    primary = primary
    secondary = secondary
    worker = worker
    Primary = primary
    Secondary = secondary
    None = None
    Order <- MCOrder
    MaxEvents = 1
    MaxFaults = 1
INVARIANTS
    ReservedNotSuspended
CHECK_DEADLOCK FALSE
