SPECIFICATION FairSpec
CONSTANTS
  EpWorldSize = 3
  AivNum = 2
  AxisBS = 2
  AxisK = 2
  RoundNum = 3
  SendSlotNum = 2
  Setups <- MoeSetups
INVARIANTS DispatchExact StatusNotLost CombineExact
PROPERTIES DispatchIsBarrier RoundsEnd
CHECK_DEADLOCK FALSE
