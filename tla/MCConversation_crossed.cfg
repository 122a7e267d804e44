SPECIFICATION FairSpec
CONSTANTS
  Uses = {"query"}
  Faults = {}
  ErrorStartsDake = TRUE
  Heartbeats = FALSE
  Draws = {0, 1}
  MaxStarts = 3
  MaxTexts = 0
  MaxFaults = 0
  MaxKeys = 20
  MaxInFlight = 6
PROPERTIES
  EventuallySecure
CHECK_DEADLOCK FALSE
