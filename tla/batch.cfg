SPECIFICATION FairSpec
CONSTANTS
  SessionNum = 2
  MicroBatchNum = 2
  SlotNum = 3
  Pad = 1
  CoreNum = 3
  SortAlign = 1
  ListLength = 2
  ListCoreNum = 2
  PerLoopRows = 2
  ExpertNum = 2
  RoundNum = 2
  ListRoundNum = 1
  Launches <- ThreeLaunches
  Workloads <- UnequalLoads
INVARIANTS TypeOK RoundsKept GatherExact
PROPERTIES RoundsAnswered
