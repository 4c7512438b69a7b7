SPECIFICATION AllocSpec
CONSTANTS
    Keys = {k1, k2, k3, k4}
    Data <- MCData
    Null = Null
    HashValues = {2, 3, 7}
    InitialSize = 4
    MaxCapacity = 8
    MaxSize = 4
    SlotSize = 4
INVARIANTS
    ProbePathFull
    SizeIsExact
PROPERTIES
    SlotsKept
    GetFindsStored
    EveryAskAnswered
\* The allocator is destroyed at the end of the function.
CHECK_DEADLOCK FALSE
