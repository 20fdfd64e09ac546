SPECIFICATION MCSpec
CONSTANTS
  Octet = 16
  SAs <- MCAttributes
  ChangedTo = {}
INVARIANT TransformsSurvive
CHECK_DEADLOCK FALSE
