SPECIFICATION RxSpec
CONSTANTS
  RxSize = 6
  Byte = 5
  MaxMsg = 2
  Window = 4
  Mod = 7
INVARIANTS
  ReceivedInOrder
  AsleepHasSeen
