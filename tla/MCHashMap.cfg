SPECIFICATION Spec
CONSTANTS
    Keys = {k1, k2, k3}
    Data = {d1}
    Null = Null
    HashValues = {1, 3, 7}
    InitialSize = 4
    MaxCapacity = 8
    MaxSize = 6
INVARIANTS
    TypeOK
    SizeCoversEntries
    RoomToProbe
PROPERTIES
    RemoveTakesOne
    EveryCallReturns
\* A read past the array may stop the program.
CHECK_DEADLOCK FALSE
