CONSTANTS
    k1 = k1
    k2 = k2
    k3 = k3
    v1 = v1
    v2 = v2
    Key <- MCKey
    TextOf <- MCTextOf
    Hash <- MCHash
    Value <- MCValue
    MinCapacity = 2
    MaxCapacity = 8
    Null = Null
    TOMBSTONE_KEY = TOMBSTONE_KEY
    Absent = Absent
    NoArg = NoArg
SPECIFICATION Spec
INVARIANTS ProbesEnd
PROPERTY MapRefined
SYMMETRY Symmetry
CHECK_DEADLOCK FALSE
