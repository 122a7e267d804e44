SPECIFICATION Spec
CONSTANTS
  Chars = {"a", "b", "c", ","}
  Texts <- MCTexts
  Sizes = {10, 47}
  Expiry = 1
  Tags = {"any", "other"}
  Damages = {"cut", "index", "total"}
  MaxSent = 2
  MaxFaults = 2
  MaxTime = 2
INVARIANTS
  TypeOK
  ContextsConsistent
  NothingLost
PROPERTIES
  ImplementsReassembly
CHECK_DEADLOCK FALSE
