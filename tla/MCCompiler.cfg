SPECIFICATION Spec
CONSTANTS
    Bodies <- MCBodies
    SlotBytes = 4
    W = 4
    Junk <- MCJunk
    Depth = 3
INVARIANTS
    ResultCorrect
    NoUnsetRead
    OnlyShiftsRejected
    ValsFreedOnce
    LabelsResolve
    OperandsOwnedOnce
    SlotsInFrame
PROPERTIES
    Finishes
\* The program returns and the compiler ends.
CHECK_DEADLOCK FALSE
