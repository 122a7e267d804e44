SPECIFICATION Spec
CONSTANTS
  Uses = {"offline", "text", "smp", "close", "identity"}
  Faults = {"duplicate", "restart", "other_instance"}
  ErrorStartsDake = TRUE
  Heartbeats = TRUE
  Draws = {0}
  MaxStarts = 3
  MaxTexts = 1
  MaxFaults = 1
  MaxKeys = 7
  MaxInFlight = 2
INVARIANTS
  Agreement
  SessionsFresh
  NoMutualWait
CHECK_DEADLOCK FALSE
