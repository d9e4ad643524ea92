SPECIFICATION FairSpec
CONSTANTS
  Ops = {o1, o2}
  PowerOffs = {o1}
  Commands = 2
  MaxTokens = 2
  MaxUnloads = 2
CHECK_DEADLOCK FALSE
INVARIANT NoSocketOutlivesStop
PROPERTIES ImplementsService SilentWhileUnloading TokenSavedBeforeSend UnloadSettles StopFreesOperations
