SPECIFICATION Spec
CONSTANTS
    MaxVersion = 3
    MaxRuns = 3
INVARIANTS
    TypeOK
    CompilesWhatCppRead
    ZeroMeansAccepted
PROPERTIES
    LeavesNoMore
    LinksThisRun
    EveryRunEnds
\* The bound on runs is reached.
CHECK_DEADLOCK FALSE
