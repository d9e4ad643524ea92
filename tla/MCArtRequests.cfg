SPECIFICATION FairSpec
CONSTANTS
  Ops = {"o1", "o2"}
  Works <- MCWorks
  IdLess = TRUE
  MaxConnections = 2
  MaxCancels = 2
CHECK_DEADLOCK FALSE
INVARIANTS AnswerIsOwn WaitersServed OneConnectionEach
PROPERTIES CloseLeavesNothing OperationsEnd
