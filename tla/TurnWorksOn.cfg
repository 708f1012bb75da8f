CONSTANTS
  MaxTurns = 2
  Handlers = {h1}
  Viewers = {}
  MaxWork = 1
  MaxQuestions = 0
  MaxReplies = 0
  MaxCancels = 1
  MaxDeletions = 0
  MaxRestarts = 0
SPECIFICATION Spec
INVARIANTS
  OneAtWork
CHECK_DEADLOCK FALSE
