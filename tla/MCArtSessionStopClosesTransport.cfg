SPECIFICATION PromptSpec
CONSTANTS
  Ops = {o1, o2}
  Transfers = {o2}
  RetryDelays <- MCRetryDelays
  HostRetryDelays <- MCHostRetryDelays
  DormantSeconds = 900
  CleanupRecheck = 2
  Generations = 2
  MaxCancels = 0
CHECK_DEADLOCK FALSE
INVARIANT StopClosesTransport
