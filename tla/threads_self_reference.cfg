SPECIFICATION Spec
CONSTANTS
    c1 = c1
    c2 = c2
    c3 = c3
    Root = root
    Null = null
    Ctx = {root, c1, c2}
    Timeouts = {0}
    Deltas = {1}
    Ops = {"thread_create", "yield", "hold", "self_ref"}
    MaxVars = 1
    MaxDepth = 5
    MaxAccum = 3
INVARIANTS
    CreatedThreadIsLive
