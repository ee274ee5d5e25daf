SPECIFICATION MCSpec
CONSTANTS
    Null = Null
    Wild = Wild
    TaggedSlot <- MCTaggedSlot
    Restricted = {}
    Zombies = {}
    MaxHops = 3
    MaxIvars = 3
    SearchDepth = 5
    StringBuffer = 6
    MaxBacktrace = 3
    MaxPrinted = 2
    OverflowThreshold = 5
    GiveUpPoint = 7
    MaxUserCalls = 2
    PushedDistance = 3
    PoppedDistance = 2
    Space = 12
    NameBuffer = 4
    MaxLaunches = 3
    MaxSessions = 2
    MaxCrashes = 1
    MaxEvents = 1
INVARIANTS
    WrittenIsRead
    IntactClassesAreSafe
    MemoryShownInBounds
    BacktraceTrue
    MachineShown
    SectionsInPlace
    FaultNamed
    CrashedLastMeansCrash
    CountersTrue
    TimesTrue
CHECK_DEADLOCK FALSE
