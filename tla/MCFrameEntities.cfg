SPECIFICATION MCSpec
CONSTANTS
  None = None
  Arts = {a1, a2}
  Refused = {}
  Answers <- MCAnswers
  Lists <- MCLists
  Slideshows <- MCSlideshows
  Key = "brightness"
  Polls = {1, 2}
  Requests = {r1, r2}
  MaxGeneration = 2
  MaxFailures = 0
CHECK_DEADLOCK FALSE
INVARIANTS Parsed CachedPictureBelongs
PROPERTIES ControlCatchesUp
