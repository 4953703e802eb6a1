SPECIFICATION Spec
CONSTANTS
    c1 = c1
    c2 = c2
    c3 = c3
    Root = root
    Null = null
    Ctx = {root, c1, c2, c3}
    Timeouts = {0}
    Deltas = {1}
    Ops = {"thread_create", "subthread_create", "yield", "hold", "abort", "co_create", "co_resume", "process_threads"}
    MaxVars = 1
    MaxDepth = 5
    MaxAccum = 3
SYMMETRY Threads3
INVARIANTS
    TypeOK
    RefsExact
    ListsMatchParents
    NoDangling
    OncePerPass
PROPERTIES
    AbortedNeverRuns
