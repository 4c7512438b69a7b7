SPECIFICATION Spec
CONSTANTS
    MaxVersion = 2
    MaxRuns = 2
INVARIANTS
    CompilingProduces
CHECK_DEADLOCK FALSE
