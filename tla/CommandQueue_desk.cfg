SPECIFICATION FairSpec
CONSTANTS
    m1 = m1
    m2 = m2
    m3 = m3
    c1 = c1
    Matches = {m1, m2, m3}
    Courts = {c1}
    None = None
    MaxCmds = 2
    Plans <- DeskPlans
    Unresolved = {m3}
    Scenarios <- DeskScenarios
INVARIANTS
    TypeOK
    ExactlyOnce
    InOrder
    OnePlayingPerCourt
PROPERTY EveryCommandDecided
CHECK_DEADLOCK FALSE
