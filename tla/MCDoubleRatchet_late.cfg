SPECIFICATION Spec
CONSTANTS
  MaxSkip = 3
  Faults = {"reorder", "late"}
  Replies = {"none"}
  MaxRatchet = 5
  MaxMessages = 2
  MaxInFlight = 2
INVARIANT InStep
CHECK_DEADLOCK FALSE
