CONSTANTS
  MaxTurns = 2
  Handlers = {h1, h2}
  Viewers = {}
  MaxWork = 0
  MaxQuestions = 0
  MaxReplies = 0
  MaxCancels = 2
  MaxDeletions = 0
  MaxRestarts = 1
SPECIFICATION Spec
SYMMETRY Symmetry
INVARIANTS
  TypeOK
  OneRunning
  LiveIsRunning
  EndedIsSettled
CHECK_DEADLOCK FALSE
