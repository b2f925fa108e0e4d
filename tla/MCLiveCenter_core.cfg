SPECIFICATION FairSpec
CHECK_DEADLOCK FALSE
CONSTANTS
  Messages = {"g1", "u1", "f1"}
  Report <- MCReport
  Trusted = {"g1", "u1"}
  Announced = {"g1"}
  Recipients = {"r1", "r2"}
  Workers = {"w1"}
  MaxCrashes = 1
  MaxSwitches = 1
  Perils = {}
INVARIANTS
    GoalsCounted
    
    NeverSentTwice
PROPERTIES
    DeliverySettles
