CONSTANTS
  MinEvents = 2
  MinSessions = 1
  MinConfidence = 70
  MinMargin = 15
  Writers = {w1, w2}
  MaxEvents = 4
  MaxRecompute = 1
  AnswerKinds <- RightAndWrong
  CorrectionKinds <- SomeCorrections
  Replacements <- Improving
SYMMETRY Symmetry
SPECIFICATION CompensationSpec
INVARIANTS
  OneActive
  AuditMatchesMemory
  VersionTellsRow
  TakesBackItsSource
