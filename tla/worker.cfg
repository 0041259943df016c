SPECIFICATION FairSpec
CONSTANTS
  MicroBatchNum = 2
  RowNum = 3
  RowSlots = 2
  CoreNum = 5
  AivNum = 2
  RoundNum = 2
  Launches <- ThreeLaunches
  Orders <- TwoOrders
INVARIANTS TypeOK CombineExact FlagsFresh RoundRobin
PROPERTIES RoundsCombined
