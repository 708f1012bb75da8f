CONSTANTS
  Writers = {w1, w2}
  Slots = {s1, s2, s3}
  Filled = {s1}
  MaxRecompute = 1
  Nobody = Nobody
SPECIFICATION FairSpec
INVARIANTS
  TypeOK
PROPERTIES
  ChangeIsOneStep
  WritesSettle
CHECK_DEADLOCK FALSE
