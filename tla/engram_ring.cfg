SPECIFICATION Spec
CONSTANTS
  RankNum = 2
  BlockNum = 2
  ChannelNum = 2
  EntryNum = 4
  TokenNum = 4
  SlotNum = 2
  IndicesPerSlot = 2
  RowNum = 2
  BatchSize = 4
  Intervals = 4
  LaunchNum = 1
  Requests <- TwoRanks
INVARIANTS Fetched
