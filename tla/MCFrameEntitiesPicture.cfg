SPECIFICATION FairSpec
CONSTANTS
  None = None
  Arts = {a1, a2}
  Refused = {}
  Answers <- MCAnswers
  Lists <- MCLists
  Slideshows <- MCSlideshows
  Key = "brightness"
  Polls = {1}
  Requests = {r1, r2}
  MaxGeneration = 1
  MaxFailures = 0
CHECK_DEADLOCK FALSE
PROPERTY PictureCatchesUp
