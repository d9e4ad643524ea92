SPECIFICATION MCSpec
CONSTANTS
  Pollers = {"beat", "user"}
  Family = "2022"
  OffDebounce = 2
  ArtFailUnknown = 2
  MaxChanges = 1
  MaxSessions = 2
  MaxFaults = 2
  MaxRequests = 1
CHECK_DEADLOCK FALSE
PROPERTIES NewerPushStands OptionalCurrent Converges DeadArtSurfaces
INVARIANTS RequestKept ReconcilePaced StandbyWins OneLossIsNotOff
