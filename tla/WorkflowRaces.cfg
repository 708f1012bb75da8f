CONSTANTS
  a1 = a1
  a2 = a2
  start = start
  Answers = {a1, a2}
  Start = start
  IssuedBy <- Siblings
  LastAnswers = {a2}
  Runners = {r1, r2}
  Diagnoses <- RightOrWrong
  MaxFailures = 1
SPECIFICATION FairSpec
INVARIANTS
  TypeOK
  EventMatchesCheckpoint
  CheckpointBacked
  RefreshedIsProjected
PROPERTIES
  ProgressKept
  RequestsComplete
