SPECIFICATION FairSpec
CHECK_DEADLOCK FALSE
CONSTANTS
    Accounts = {a1, a2}
    None = none
    Page = page
    Browsers = {b1, b2}
    Worker = worker
    Logins = {1, 2}
    Kinds = {"instagram", "facebook", "whatsapp", "telegram"}
    MaxRequests = 4
    Perils = {}
INVARIANTS
    LoginBinds
    
    HookMatches
PROPERTIES
    ExpiryNoticed
