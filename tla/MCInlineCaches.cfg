SPECIFICATION Spec
CONSTANTS
    x = x
    y = y
    n1 = n1
    n2 = n2
    k1 = k1
    k2 = k2
    v1 = v1
    v2 = v2
    Text <- MCText
    Name <- MCName
    Klass <- MCKlass
    Value <- MCValue
    GlobalSlot <- MCGlobalSlot
    FieldSlot <- MCMemberSlot
    MethodSlot <- MCMemberSlot
    None = None
INVARIANTS GlobalsExact MembersExact
SYMMETRY Symmetry
CHECK_DEADLOCK FALSE
