SPECIFICATION FairSpec
CONSTANTS
    Key = {k1, k2}
    Value = {u, v}
    None = none
    Freed = freed
    Ops = {}
INVARIANTS
    NoUseAfterFree
PROPERTIES
    Linearizable
    JoinReturns
