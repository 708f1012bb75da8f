CONSTANTS
  MinEvents = 2
  MinSessions = 1
  MinConfidence = 70
  MinMargin = 15
  Writers = {w1}
  MaxEvents = 4
  MaxRecompute = 2
  AnswerKinds <- RightAndWrong
  CorrectionKinds <- Substitutions
  Replacements <- Improving
SPECIFICATION Spec
INVARIANTS
  DisputeWellFormed
