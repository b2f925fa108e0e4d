CONSTANTS
    j1 = j1
    j2 = j2
    a1 = a1
    a2 = a2
    w1 = w1
    w2 = w2
    u1 = u1
    None = None
    Jobs = {j1}
    Attempts = {a1, a2}
    Workers = {w1, w2}
    Users = {u1}
    Stages = {"validate-only", "container-only", "publish"}
    Controls = {"stop", "page"}
    MaxPublishAttempts = 2
    MaxVersion = 2
    MaxSends = 2
    Perils = {"unreachable"}
SPECIFICATION Spec
SYMMETRY AttemptSymmetry
INVARIANTS
    OneAttemptAtATime
    SentAtMostOnce
PROPERTIES
    SettledIsFinal
    PublishesApproved
    ImplementsOnceOnly
