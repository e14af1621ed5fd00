CONSTANTS
  x = x
  n1 = n1
  n2 = n2
  Steppers = {x}
  SingleSched = {}
  Nodes = {n1, n2}
  NoNode = NoNode
  Bias = 4
  MaxCount = 1
  Travel = 1
  NumTrsync = 1
  Probes = {1}
  MaxSamples = 1
  NoTs = NoTs
  NoReason = NoReason
  Rail <- OneRail
  Hit = Hit
  HostRequest = HostRequest
  PastEnd = PastEnd
  CommsTimeout = CommsTimeout
SPECIFICATION Spec
INVARIANTS
  SequenceAccepted
  HomingResult
  RestIsReady
PROPERTIES
  FiringStops
  ImplementsParts
SYMMETRY Symmetry
