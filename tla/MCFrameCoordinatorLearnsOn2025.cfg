SPECIFICATION Spec
CONSTANTS
  Pollers = {"beat"}
  Family = "2025"
  OffDebounce = 2
  ArtFailUnknown = 2
  MaxChanges = 1
  MaxSessions = 2
  MaxFaults = 0
  MaxRequests = 0
CHECK_DEADLOCK FALSE
INVARIANT NeverLearnedOn2025
