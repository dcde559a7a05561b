SPECIFICATION Spec

CONSTANTS
    Workers = {w1, w2}
    Clients = {c1}
    Tournaments = {t1, t2}
    Keys = {}
    None = None
    MaxJobs = 2
    MaxAttempts = 2
    Lease = 0
    Retention = 0
    MaintenanceEvery = 1
    Ceiling = 1
    UserLimit = 2
    MaxFaults = 0
    Overlap = FALSE

SYMMETRY Symmetry

INVARIANT TypeOK
INVARIANT RetryBudget
PROPERTY LedgerSpec
PROPERTY OnlyHolderCompletes
PROPERTY NoGhostBeat
