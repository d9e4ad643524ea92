SPECIFICATION MCSpec
CONSTANTS
  None = None
  Arts = {a1}
  Refused = {}
  Answers <- MCWritten
  Lists <- MCLists
  Slideshows <- MCSlideshows
  Key = "brightness"
  Polls = {1, 2}
  Requests = {}
  MaxGeneration = 1
  MaxFailures = 0
CHECK_DEADLOCK FALSE
INVARIANT ControlShowsReadback
