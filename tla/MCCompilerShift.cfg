SPECIFICATION Spec
CONSTANTS
    Bodies <- ShiftBodies
    SlotBytes = 4
    W = 4
    Junk <- MCJunk
    Depth = 3
INVARIANTS
    AllAccepted
CHECK_DEADLOCK FALSE
