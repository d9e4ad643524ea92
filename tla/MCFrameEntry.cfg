SPECIFICATION FairSpec
CONSTANTS
  Tvs = {tv1, tv2}
  NoTv = NoTv
  OwnTv = tv1
  MaxSetups = 2
  MaxCancels = 1
CHECK_DEADLOCK FALSE
INVARIANTS OneActiveDevice AdmissionHasCallbacks PairingLeavesNothing
PROPERTIES StopCompletes LifecycleEnds
