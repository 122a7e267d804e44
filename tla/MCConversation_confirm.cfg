SPECIFICATION Spec
CONSTANTS
  Uses = {"identity", "offline", "text", "smp"}
  Faults = {"lose", "duplicate", "restart", "reorder"}
  ErrorStartsDake = TRUE
  Heartbeats = FALSE
  Draws = {0, 1}
  MaxStarts = 3
  MaxTexts = 1
  MaxFaults = 1
  MaxKeys = 5
  MaxInFlight = 2
INVARIANTS
  TypeOK
  Agreement
  EncryptedIsSecure
  Confirmed
CHECK_DEADLOCK FALSE
