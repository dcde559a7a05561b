SPECIFICATION Spec

CONSTANTS
    Workers = {w1, w2}
    Clients = {c1}
    Tournaments = {t1}
    Keys = {}
    None = None
    MaxJobs = 1
    MaxAttempts = 2
    Lease = 1
    Retention = 1
    MaintenanceEvery = 2
    Ceiling = 1
    UserLimit = 1
    MaxFaults = 1
    Overlap = TRUE

PROPERTY CancelIsFinal
