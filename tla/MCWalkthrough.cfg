SPECIFICATION FairSpec
CONSTANTS
    MaxRuns = 2
    MaxFaults = 1
    MaxPresses = 2
    Jumps = {1, 4, 8}
INVARIANTS
    
    PassIsOneRun
PROPERTY
    Concludes
CHECK_DEADLOCK FALSE
