SPECIFICATION Spec
CONSTANTS
    Keys = {k1, k2}
    Data = {d1}
    Null = Null
    HashValues = {3}
    InitialSize = 4
    MaxCapacity = 4
    MaxSize = 3
PROPERTIES
    InsertReportsDuplicate
CHECK_DEADLOCK FALSE
