SPECIFICATION FairSpec
CONSTANTS
  Ops = {o1}
  Transfers = {o1}
  RetryDelays <- MCRetryDelays
  HostRetryDelays <- MCHostRetryDelays
  DormantSeconds = 900
  CleanupRecheck = 2
  Generations = 2
  MaxCancels = 1
CHECK_DEADLOCK FALSE
PROPERTIES StopTerminates RecoveryResumes LossNoticed OpsReleased
