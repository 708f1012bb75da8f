CONSTANTS
  MaxTurns = 1
  Handlers = {h1}
  Viewers = {v1}
  MaxWork = 1
  MaxQuestions = 1
  MaxReplies = 1
  MaxCancels = 1
  MaxDeletions = 1
  MaxRestarts = 1
SPECIFICATION FairSpec
INVARIANTS
  InOrder
  DoneOnce
PROPERTIES
  WorkKept
  ViewersFinish
CHECK_DEADLOCK FALSE
