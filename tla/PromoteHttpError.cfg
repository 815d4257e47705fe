CONSTANTS
  N = 1
  Guarded = FALSE
SPECIFICATION Spec
CHECK_DEADLOCK FALSE
PROPERTY PollerSurvives
