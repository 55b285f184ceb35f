SPECIFICATION Spec
CONSTANTS
    a = a
    b = b
    c = c
    rope = rope
    v1 = v1
    v2 = v2
    Key <- MCKey
    TextOf <- MCText
    Hash <- MCHash
    Value <- MCValue
    MinCapacity = 2
    MaxCapacity = 8
    MaxVersion = 7
    MaxLoopVersion = 8
    Deleted = Deleted
    None = None
    Done = Done
    Absent = Absent
INVARIANTS CachesCoherent StoreEnds LoopExact
PROPERTY MapRefined
SYMMETRY Values
CHECK_DEADLOCK FALSE
