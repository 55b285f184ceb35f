SPECIFICATION Spec
CONSTANTS
    c1 = c1
    c2 = c2
    u1 = u1
    u2 = u2
    v1 = v1
    Co <- MCCo
    Up <- MCUp
    Of <- MCOf
    Slot <- MCSlot
    Val <- MCVal
    None = None
    OutsideStores = FALSE
    DropSuspended = FALSE
    LateCaptures = FALSE
INVARIANTS StackLive CoroutinesLive UpvaluesLive
CHECK_DEADLOCK FALSE
