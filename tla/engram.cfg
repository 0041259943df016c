SPECIFICATION FairSpec
CONSTANTS
  RankNum = 3
  BlockNum = 3
  ChannelNum = 2
  EntryNum = 5
  TokenNum = 5
  SlotNum = 2
  IndicesPerSlot = 2
  RowNum = 4
  BatchSize = 3
  Intervals = 1
  LaunchNum = 2
  Requests <- ThreeRanks
INVARIANTS ContextExact FetchedWithinRing
PROPERTIES FetchEnds
