SPECIFICATION Spec
CONSTANTS
    scr = scr
    method = method
    native = native
    yielder = yielder
    aborter = aborter
    null = null
    x1 = x1
    x2 = x2
    x3 = x3
    x4 = x4
    r1 = r1
    r2 = r2
    Fn <- Functions
    Null = null
    Arg <- Args
    Res <- Results
    Sites <- CallSites
    Limit = 4
    MaxCalls = 4
    Rets <- Returned
    Ops = {"operator"}
INVARIANTS
    HeightKept
    SuspendedCleanly
    NativeToldOfAbort
PROPERTIES
    Implements
