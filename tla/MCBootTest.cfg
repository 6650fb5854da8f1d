\* One stage stands for five, one failure marker for four.
CONSTANTS
  MAX_REV = 2
  MAX_RUNS = 2
  STAGES = 1
  MARKERS = 1
SPECIFICATION Spec
INVARIANTS
  RebuildIsSound
  VerdictIsHonest
PROPERTIES
  InvocationsEnd
CHECK_DEADLOCK FALSE
