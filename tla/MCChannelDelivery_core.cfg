CONSTANTS
    r1 = r1
    r2 = r2
    w1 = w1
    w2 = w2
    None = None
    Recipients = {r1, r2}
    Workers = {w1, w2}
    MaxPublishAttempts = 2
    Perils = {}
SPECIFICATION FairSpec
PROPERTIES
    ImplementsOnceOnly
    JobSettles
