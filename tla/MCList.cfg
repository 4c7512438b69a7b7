SPECIFICATION Spec
CONSTANTS
    Items = {a, b}
    MaxNodes = 5
INVARIANTS
    TypeOK
    Represents
    FreedOnce
PROPERTIES
    DestroyEnds
\* A destroyed list is not used again.
CHECK_DEADLOCK FALSE
