SPECIFICATION Spec
CONSTANTS
  Uses = {"identity"}
  Faults = {}
  ErrorStartsDake = FALSE
  Heartbeats = FALSE
  Draws = {0, 1}
  MaxStarts = 3
  MaxTexts = 0
  MaxFaults = 0
  MaxKeys = 12
  MaxInFlight = 6
INVARIANTS
  SecretsMatch
CHECK_DEADLOCK FALSE
