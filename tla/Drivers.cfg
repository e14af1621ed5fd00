SPECIFICATION Spec
CONSTANTS
  Word = 8
  MaxDurations = {0, 3}
  OnTicks = {0, 1, 2}
  Cycles = {2, 3}
  MoveCount = 2
  Ahead = 3
  Count = 4
  Calls = 2
  Tries = 2
  Resends = 1
  MaxTmcUp = 2
  Readings = {0, 1, 2}
  SampleCounts = {0, 1, 2, 3}
  RangeCounts = {1, 2, 3}
  MinReading = 1
  MaxReading = 1
  MaxInvalid = 4
  RingSize = 2
  DriftCount = 1
  HardCount = 2
  TrigCount = 2
  UntrigCount = 2
  QuietMs = 1
  NowMs = {0, 1}
  Endstops = {e1, e2}
  Probes = {e1}
  Trsyncs = {1}
  NoTs = NoTs
  Reasons = {hit}
  NoReason = NoReason
  MaxSamples = 3
INVARIANTS
  DriversTypeOK
  OutputsSafe
  UpdatesOnTime
  WrittenIsTrue
  LineIsFrame
  AnalogRounds
  EndstopsReady
  ProbeTouched
