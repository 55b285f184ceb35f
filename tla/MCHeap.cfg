CONSTANTS
    clo1 = clo1
    clo2 = clo2
    str = str
    Obj <- MCObj
    Kind <- MCKind
    FreeListMax = 1
    MaxFields = 2
    MaxHeld = 2
    MaxCached = 1
SPECIFICATION Spec
INVARIANTS
    OldToYoungRemembered
    NoDangling
PROPERTY
    ReachableSurvives
SYMMETRY Symmetry
CHECK_DEADLOCK FALSE
