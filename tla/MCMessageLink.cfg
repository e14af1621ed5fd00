SPECIFICATION FairSpec
CONSTANTS
  SeqNumbers = 4
  MaxPending = 3
  Window = 3
  MaxSeq = 6
  MaxDown = 4
  MaxUp = 2
  MaxLoss = 2
INVARIANTS
  NumbersRight
  
  WindowKept
PROPERTY BlocksArrive
