SPECIFICATION Spec
CONSTANTS
    Nodes = {n1, n2}
    Admins = {a1, a2}
    Calls = {c1}
    None = None
    MaxEpochs = 3
    MaxSeq = 1
    OpIds = {}
    Revocable = {n1}
    Overlap = TRUE
    BatchSize = 1
    Poison = {}
    NoCall = NoCall
    MaxFaults = 0
    MaxRestores = 1
SYMMETRY Symmetry
INVARIANT OneNodePerEpoch
