SPECIFICATION Spec
CONSTANTS
  Word = 16
  TicksPerMs = 2
  QuietMs = 3
  RingSize = 2
  DriftCount = 2
  HardCount = 2
  TrigCount = 2
  UntrigCount = 2
INVARIANT QuietBeforeRecalibration
