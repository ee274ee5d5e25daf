SPECIFICATION MCSpec
CONSTANTS
    main = main
    primary = primary
    secondary = secondary
    worker = worker
    Primary = primary
    Secondary = secondary
    None = None
    Order <- MCOrder
    MaxEvents = 2
    MaxFaults = 1
    Name <- MCName
    Spelling <- MCSpelling
INVARIANTS
    NobodyLeftSuspended
    RecordsAlone
    CrashReported
    ReadsBack
    PrintsApart
PROPERTIES
    CrashDies
    CallReturns
CHECK_DEADLOCK FALSE
