SPECIFICATION ReviewSpec
SYMMETRY Sym
CHECK_DEADLOCK FALSE
CONSTANTS
  Slots = {"f1", "s1"}
  Kind <- MCKind
  Default <- MCDefault
  Paths = {"a", "b", "c"}
  First <- MCFirst
  Format <- MCFormat
  Texts = {"t0", "t1"}
  FirstText = "t0"
  Sessions = {r1, r2}
  Menu <- Typical
  MaxRequests = 2
  MaxAttempts = 2
  LateBehaviour = "skip"
  Outcomes = {"ok", "retry"}
  Overlapping = {}

    
PROPERTIES
    NeverResent
