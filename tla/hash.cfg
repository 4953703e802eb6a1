SPECIFICATION Spec
CONSTANTS
    k1 = k1
    k2 = k2
    k3 = k3
    k4 = k4
    Key = {k1, k2, k3, k4}
    Value = {u}
    None = none
    Hash <- Hashes
    Same <- Equal
    StringOf <- Strings
    Parsed <- NotNull
    PairMem = 4
    VarMem = 4
    Slack = 1
    MaxItems = 4
    Ops = {"iterate"}
INVARIANTS
    TableSound
    ReadsItems
PROPERTIES
    Implements
VIEW
    Unlabelled
