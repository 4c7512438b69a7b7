SPECIFICATION Spec
CONSTANTS
    Bodies <- MCBodies
    SlotBytes = 4
    W = 4
    Junk <- MCJunk
    Depth = 3
INVARIANTS
    ReturnStatementCounts
CHECK_DEADLOCK FALSE
