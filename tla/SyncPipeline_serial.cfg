SPECIFICATION Spec
CONSTANTS
    Nodes = {n1, n2}
    Admins = {a1}
    Calls = {c1}
    None = None
    MaxEpochs = 3
    MaxSeq = 2
    OpIds = {1, 2}
    Revocable = {}
    Overlap = FALSE
    BatchSize = 2
    Poison = {}
    NoCall = NoCall
    MaxFaults = 1
    MaxRestores = 0
SYMMETRY Symmetry
INVARIANT LiveIsLatest
INVARIANT ClosedAtDeclared
INVARIANT ProjectionComplete
PROPERTY LogSpec
