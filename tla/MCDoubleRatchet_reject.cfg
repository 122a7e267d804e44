SPECIFICATION Spec
CONSTANTS
  MaxSkip = 3
  Faults = {"reorder", "duplicate"}
  Replies = {"none"}
  MaxRatchet = 5
  MaxMessages = 2
  MaxInFlight = 2
PROPERTY RejectionKeepsRatchet
CHECK_DEADLOCK FALSE
