SPECIFICATION CheckedOutSpec
CONSTANTS
    Nodes = {n1}
    Admins = {a1}
    Calls = {c1}
    None = None
    MaxEpochs = 1
    MaxSeq = 2
    OpIds = {1, 2}
    Revocable = {}
    Overlap = TRUE
    BatchSize = 2
    Poison = {}
    NoCall = NoCall
    MaxFaults = 0
    MaxRestores = 0
PROPERTY EveryOpArrives
