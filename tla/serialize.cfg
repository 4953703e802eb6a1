SPECIFICATION Spec
CONSTANTS
    Leaves <- TheLeaves
    MaxObjs = 4
    MaxCells = 2
    MaxThreads = 3
    MaxSize = 5
INVARIANTS
    Recreates
    Accepts
    RestoresAll
CHECK_DEADLOCK FALSE
