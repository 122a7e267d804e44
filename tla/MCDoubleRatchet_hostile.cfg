SPECIFICATION Spec
CONSTANTS
  MaxSkip = 1
  Faults = {"lose", "reorder", "late", "duplicate", "corrupt"}
  Replies = {"none", "tlv", "heartbeat"}
  MaxRatchet = 3
  MaxMessages = 2
  MaxInFlight = 2
INVARIANTS
  NoReplay
  ForwardSecrecy
  PrivateKeysErased
PROPERTY MacKeysKept
CHECK_DEADLOCK FALSE
