SPECIFICATION Spec
CONSTANTS
    Inputs <- MCInputs
    Identifiers <- MCIdentifiers
    Constants <- MCConstants
INVARIANTS
    CursorInRange
    TreeIsGrammars
    AcceptsGrammar
PROPERTIES
    ParseEnds
\* The parser ends.
CHECK_DEADLOCK FALSE
