SPECIFICATION Spec
CONSTANTS
    True = True
    Err = Err
    Fn = True
    Null = Null
    Cell = {u1, u2}
    None = None
    MainCap = 4
    CoCap = 3
    Needs <- MCNeeds
    Wanted = {2}
    MaxStack = 5
    MaxFrames = 2
VIEW View
INVARIANTS StackExact CacheExact
PROPERTY CallsRefined
