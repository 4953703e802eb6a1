SPECIFICATION FairSpec
CONSTANTS
    a = a
    b = b
    iface = iface
    globals = globals
    Obj = {a, b, iface, globals}
    Ctx = {root, c}
    Null = null
    Root = root
    Array = iface
    Global = globals
    c = c
    f = f
    g = g
    Field = {f, g}
    Stored <- Holds
    Var = {v}
    Size <- Sizes
    PoolMax = 2
    MaxApp = 8
    Ops = {"destroy", "adopt"}
INVARIANTS
    RcExact
    NoDangling
    ReachableIntact
    PoolSound
PROPERTIES
    CollectsCycles
    DestroyEnds
CHECK_DEADLOCK FALSE
