CONSTANTS
    i = i
    j = j
    k = k
    Image <- MCImage
    MaxLength = 5
SPECIFICATION Spec
SYMMETRY Symmetric
INVARIANTS
    CacheInStep
PROPERTIES
    EditsAreLocal
CHECK_DEADLOCK FALSE
