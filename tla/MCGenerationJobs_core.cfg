CONSTANTS
    j1 = j1
    j2 = j2
    g1 = g1
    w1 = w1
    w2 = w2
    None = None
    Jobs = {j1, j2}
    Games = {g1}
    Workers = {w1, w2}
    Images = 1
    MaxRetries = 1
    MaxAttempts = 3
    TextLimit = 2
    ImageLimit = 2
    Limit <- MCLimit
    Perils = {}
SPECIFICATION FairSpec
CHECK_DEADLOCK FALSE
INVARIANTS
    OneAtATime
    
    QuotaKept
PROPERTIES
    JobEnds
