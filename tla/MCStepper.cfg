CONSTANTS
  n1 = n1
  n2 = n2
  n3 = n3
  n4 = n4
  Nodes = {n1, n2, n3}
  NoNode = NoNode
  Steppers = {x, y}
  SingleSched = {x}
  Bias = 6
  MaxCount = 2
  Travel = 2
SPECIFICATION Spec
INVARIANTS
  TypeOK
  PositionExact
  GoalReached
  PoolExact
  TimerMatchesMove
PROPERTY StillUntilReset
SYMMETRY Symmetry
