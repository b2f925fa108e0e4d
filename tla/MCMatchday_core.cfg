SPECIFICATION FairSpec
CHECK_DEADLOCK FALSE
CONSTANTS
    Games = {g1, g2}
    First = g1
    Scores = {1, 2}
    Played = {g1, g2}
    Grouped = TRUE
    MaxChanges = 1
    MaxCommands = 1
    MaxFailures = 1
    Perils = {}
INVARIANTS
    ApprovedAsShown
    FeedsTogether
PROPERTIES
    TwoReadings
    ResultIsRead
