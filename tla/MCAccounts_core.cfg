SPECIFICATION Spec
CHECK_DEADLOCK FALSE
SYMMETRY Symmetry
CONSTANTS
    Users = {u1, u2}
    Clubs = {c1, c2}
    Addresses = {a1, a2}
    Browsers = {b1, b2}
    Owner = u1
    Club1 = c1
    Address1 = a1
    LockAfter = 2
    MaxLimit = 1
    MaxLinks = 2
    MaxEvents = 2
    Perils = {}
INVARIANTS
    OldSessionsEnd
    ResetGoesHome
PROPERTIES
    LinksBind
    WithinTeamLimit
