SPECIFICATION Spec
CONSTANTS
    Elements = 6
    Unit = 3
    Touched = {0, 2, 5}
INVARIANTS
    TurnsAsHeld
PROPERTIES
    ComesToRest
CHECK_DEADLOCK FALSE
