CONSTANTS
  MinEvents = 2
  MinSessions = 1
  MinConfidence = 70
  MinMargin = 15
  Writers = {w1, w2}
  MaxEvents = 4
  MaxRecompute = 2
  AnswerKinds <- MixedAnswers
  CorrectionKinds <- None
  Replacements <- None
SYMMETRY Symmetry
SPECIFICATION Spec
INVARIANTS
  TypeOK
  EvidenceCarriedForward
  DisputeWellFormed
  NextAnswerDecidable
PROPERTIES
  AppendOnly
  ImplementsLedger
