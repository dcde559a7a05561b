SPECIFICATION CheckedOutSpec
CONSTANTS
    Nodes = {n1}
    Admins = {a1}
    Calls = {c1, c2}
    None = None
    MaxEpochs = 1
    MaxSeq = 3
    OpIds = {1, 2, 3}
    Revocable = {}
    Overlap = TRUE
    BatchSize = 2
    Poison = {3}
    NoCall = NoCall
    MaxFaults = 1
    MaxRestores = 0
PROPERTY EveryOpSettles
