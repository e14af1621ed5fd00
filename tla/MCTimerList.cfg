CONSTANTS
  t1 = t1
  t2 = t2
  Timers <- MCTimers
  Periodic = Periodic
  Sentinel = Sentinel
  Deleted = Deleted
  NULL = NULL
  Word = 16
  PeriodicTicks = 3
  MinTryTicks = 1
  DeferTicks = 2
  PastTicks = 1
  MaxLate = 2
  MaxAhead = 5
SPECIFICATION Spec
INVARIANTS
  ListSound
  AlarmExact
PROPERTY ImplementsTimerSet
VIEW View
