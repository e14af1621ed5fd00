SPECIFICATION TxFairSpec
CONSTANTS
  Size = 4
  Sizes <- MCSizes
  MinSize = 1
  Mod = 5
INVARIANT WireExact
PROPERTY BytesLeave
