SPECIFICATION Spec
CONSTANTS
  MaxSkip = 3
  Faults = {"lose", "reorder"}
  Replies = {"none", "tlv"}
  MaxRatchet = 6
  MaxMessages = 2
  MaxInFlight = 2
INVARIANTS
  TypeOK
  RatchetsAlternate
  InStep
  SkippedKeysUnambiguous
PROPERTY ImplementsChannel
CHECK_DEADLOCK FALSE
