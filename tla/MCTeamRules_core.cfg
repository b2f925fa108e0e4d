SPECIFICATION RulesSpec
SYMMETRY Symmetry
CHECK_DEADLOCK FALSE
CONSTANTS
    Teams = {t1, t2}
    Users = {u1, u2}
    None = none
    Names = {n1}
    Plans <- Schedules
    Weekdays = {1, 2}
    MaxSlots = 2
    MaxRequests = 3
    RulePerils = {}
INVARIANTS
    InForce
PROPERTIES
    NothingUnseen
    
