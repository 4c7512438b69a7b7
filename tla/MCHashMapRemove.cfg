SPECIFICATION Spec
CONSTANTS
    Keys = {k1, k2, k3}
    Data = {d1}
    Null = Null
    HashValues = {2, 3}
    InitialSize = 4
    MaxCapacity = 4
    MaxSize = 3
PROPERTIES
    GetFindsStored
CHECK_DEADLOCK FALSE
