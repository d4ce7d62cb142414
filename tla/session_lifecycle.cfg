SPECIFICATION Spec
CONSTANTS
    Ids = {a, b}
    Orderly = TRUE
INVARIANTS
    LifecycleTypeOK
    CleanupLast
    OneSessionAtATime
PROPERTIES
    StopOkMeansDown
SYMMETRY IdSymmetry
CHECK_DEADLOCK FALSE
