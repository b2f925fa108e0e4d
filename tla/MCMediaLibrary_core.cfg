SPECIFICATION Spec
CHECK_DEADLOCK FALSE
CONSTANTS
  Assets = {"m1", "x1"}
  External = {"x1"}
  Scopes = {"g1a", "g2a"}
  Game <- MCGame
  Uploads = {"u1"}
  Limit = 3
  MaxOrders = 2
  Perils = {}
INVARIANTS
    
    FilesKept
PROPERTIES
    WithinLimit
