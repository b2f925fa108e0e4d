CONSTANTS
    j1 = j1
    j2 = j2
    a1 = a1
    a2 = a2
    w1 = w1
    w2 = w2
    u1 = u1
    None = None
    Jobs = {j1, j2}
    Attempts = {a1, a2}
    Workers = {w1}
    Users = {}
    Stages = {"publish"}
    Controls = {}
    MaxPublishAttempts = 2
    MaxVersion = 1
    MaxSends = 2
    Perils = {}
SPECIFICATION FairSpec
INVARIANTS
    PublishedPostComplete
PROPERTIES
    AttemptsGoOn
