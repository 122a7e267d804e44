SPECIFICATION FairSpec
CONSTANTS
  Answer = {"x", "y"}
  Faults = {"lose", "reorder", "renew"}
  MaxStarts = 2
  MaxReplies = 2
  MaxAborts = 1
  MaxFaults = 1
  MaxInFlight = 5
INVARIANTS
  TypeOK
  VerdictsRight
  QuietIsConsistent
PROPERTIES
  ComesToRest
CHECK_DEADLOCK FALSE
