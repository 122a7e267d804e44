SPECIFICATION Spec
CONSTANTS
  Life <- MCLife
  ExtraValid = 1
  Buffer = 1
  MaxPublished = 2
  MinStored = 1
  AccountFaults = {"load", "create", "crash"}
  Events = {"use", "import"}
  MaxTime = 3
  MaxMade = 16
  MaxFaults = 1
  RequestExpiry = 1
  NetworkFaults = {"repeat", "refuse", "other_instance"}
  MaxRequests = 2
INVARIANTS
  TypeOK
  Truthful
  PrekeysKept
  ServedProfilesKept
PROPERTIES
  EnsureRepairs
CHECK_DEADLOCK FALSE
