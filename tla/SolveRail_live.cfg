SPECIFICATION FairSpec

CONSTANTS
    Workers = {w1, w2}
    Clients = {c1}
    Tournaments = {t1}
    Keys = {k1}
    None = None
    MaxJobs = 1
    MaxAttempts = 2
    Lease = 0
    Retention = 0
    MaintenanceEvery = 1
    Ceiling = 1
    UserLimit = 1
    MaxFaults = 1
    Overlap = TRUE

INVARIANT LeaseShape
INVARIANT DecisionsBacked
INVARIANT BudgetOverrun
PROPERTY EveryJobEnds
