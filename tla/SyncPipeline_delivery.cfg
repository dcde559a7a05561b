SPECIFICATION Spec
CONSTANTS
    Nodes = {n1}
    Admins = {a1}
    Calls = {c1, c2}
    None = None
    MaxEpochs = 1
    MaxSeq = 2
    OpIds = {1, 2, 3}
    Revocable = {n1}
    Overlap = TRUE
    BatchSize = 2
    Poison = {3}
    NoCall = NoCall
    MaxFaults = 1
    MaxRestores = 1
SYMMETRY Symmetry
INVARIANT TypeOK
INVARIANT NoFalseAck
INVARIANT InboxContiguous
INVARIANT RefusalsVisible
CHECK_DEADLOCK FALSE
