SPECIFICATION FairSpec
CONSTANTS
  Uses = {"query", "text"}
  Faults = {"restart"}
  ErrorStartsDake = TRUE
  Heartbeats = FALSE
  Draws = {0, 1}
  MaxStarts = 1
  MaxTexts = 2
  MaxFaults = 1
  MaxKeys = 14
  MaxInFlight = 6
PROPERTIES
  Heals
CHECK_DEADLOCK FALSE
