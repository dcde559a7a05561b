SPECIFICATION Spec
CONSTANTS
    w1 = w1
    w2 = w2
    Workspaces = {w1, w2}
    a = a
    b = b
    x = x
    Vals = {a, b, x}
    First = a
    Refused = {x}
    None = None
    Scenarios <- VisitScenarios
INVARIANT OwnDocument
CHECK_DEADLOCK FALSE
