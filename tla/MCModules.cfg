SPECIFICATION Spec
CONSTANTS
    Programs <- MCPrograms
    MaxDepth = 4
    MaxFunctions = 12
INVARIANTS LoadedOnce SavedLoads
CHECK_DEADLOCK FALSE
