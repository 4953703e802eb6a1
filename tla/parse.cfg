SPECIFICATION Spec
CONSTANTS
    MaxPieces = 4
    MaxEdits = 1
    MaxLexemes = 2
    IdentLimit = 12
    WordSize = 16
    DollarSign = FALSE
INVARIANTS
    SameTree
    KeepsTokens
CHECK_DEADLOCK FALSE
