CONSTANTS
  MinEvents = 2
  MinSessions = 2
  MinConfidence = 70
  MinMargin = 15
  Writers = {w1}
  MaxEvents = 5
  MaxRecompute = 2
  AnswerKinds <- TwoSessions
  CorrectionKinds <- Denials
  Replacements <- Improving
SPECIFICATION Spec
INVARIANTS
  StandingJustified
