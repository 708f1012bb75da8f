CONSTANTS
  MaxEvents = 3
  PageSize = 2
  MaxRunning = 3
  MaxFailures = 1
SPECIFICATION FairSpec
INVARIANTS
  TypeOK
  SerialIsCurrent
PROPERTIES
  StaysReadable
  ModelKeepsEvidence
  RefreshesDrain
CHECK_DEADLOCK FALSE
