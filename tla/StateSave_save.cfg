SPECIFICATION FairSpec
CONSTANTS
    w1 = w1
    w2 = w2
    Workspaces = {w1}
    a = a
    b = b
    x = x
    Vals = {a, b, x}
    First = a
    Refused = {x}
    None = None
    Scenarios <- SaveScenarios
INVARIANTS
    TypeOK
    NoLostUpdate
    UnsavedShown
PROPERTY EditSettles
CHECK_DEADLOCK FALSE
