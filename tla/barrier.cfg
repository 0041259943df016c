SPECIFICATION FairSpec
CONSTANTS
  WorldSize = 3
  AivNum = 3
  RoundNum = 4
  Size <- ShrinkingSize
  Member <- ShrinkingMember
  Index <- CompressedIndex
  TimeOutInputs = {TRUE, FALSE}
INVARIANTS NoFlagLost WatchedWhileWaiting
PROPERTIES BarrierSpec BarrierEnds
CHECK_DEADLOCK FALSE
