SPECIFICATION Spec
CONSTANTS
    t1 = t1
    t2 = t2
    d1 = d1
    d2 = d2
    Threads = {t1, t2}
    Escalations <- SmallEscalations
    MaxCalls = 3
    MaxCrashes = 1
INVARIANTS
    
    WarmCallsShareTheRouter
CHECK_DEADLOCK FALSE
