SPECIFICATION Spec
CONSTANTS
    Patterns <- MCPatterns
    Texts <- MCTexts
    Replacement <- MCReplacement
    MaxCaptures = 3
CHECK_DEADLOCK FALSE
INVARIANTS
    SameMatch
    SameReplaced
PROPERTIES
    MatchEnds
