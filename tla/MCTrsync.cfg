CONSTANTS
  NumTrsync = 2
  Signals = {g1}
  Reasons = {r1, r2}
  NoReason = NoReason
SPECIFICATION FairSpec
INVARIANT ListsIntact
PROPERTIES
  FirstReasonWins
  ReportTrue
  FiredIsTold
