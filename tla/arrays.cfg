SPECIFICATION Spec
CONSTANTS
    anInt = anInt
    aReal = aReal
    Null = null
    Nothing = nothing
    Item = {anInt, aReal, null}
    Order <- Orders
    Type <- Types
    Thresholds = {1, 2}
    Arguments <- Lists
    MaxItems = 3
    LongArrays <- Longer
    MaxLeaks = 1
    Calls = {"push", "unshift", "pop", "shift", "insert", "erase", "part", "reverse", "resize", "reserve", "shuffle", "unique", "random", "array", "get", "set", "first=", "last=", "popmany", "loop", "sort", "sort_mapped", "find", "remove", "filter", "process"}
VIEW
    Unlabelled
INVARIANTS
    SortInside
PROPERTIES
    Implements
    CountsMatch
    CallEnds
