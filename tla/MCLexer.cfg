SPECIFICATION Spec
CONSTANTS
    Inputs <- MCInputs
    INITIAL_CAPACITY = 2
    ULLONG_MAX = 99999999
    UINT32_MAX = 2147483647
INVARIANTS
    TypeOK
    AlertsPointToLive
    BlocksFreedOnce
    PositionsTrue
    TokensAreLexemes
    RejectsOnlyMalformed
    OverrunsOnlyAtCut
PROPERTIES
    LexEnds
CHECK_DEADLOCK FALSE
