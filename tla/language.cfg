SPECIFICATION Spec
CONSTANTS
    null = null
    Null = null
    warned = warned
    Warned = warned
    Globals <- GlobalVars
    Programs <- AllPrograms
    Running = 3
    ShortConsts = 12
    Fuel = 6
    MaxAsks = 4
    MaxTrace = 40
INVARIANTS
    SameMeaning
    RegistersInside
PROPERTIES
    Terminates
CHECK_DEADLOCK FALSE
