SPECIFICATION Spec
CONSTANTS
  N = 2
  ExpireTicks = 2
  MinExtend = 1
  HomeEnd = 1
  Retries = 1
  MaxReport = 1
  MaxLine = 1
INVARIANTS
  StopTogether
  HitIsTrue
PROPERTY HomingEnds
