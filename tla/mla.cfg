SPECIFICATION FairSpec
CONSTANTS
  CubeNum = 2
  CvRatio = 2
  TokenNum = 7
  StepBatchSize = 4
  HeadNum = 3
  CqBlockNum = 2
  CkvKrBlockNum = 1
  QcQrBlockNum = 2
  QcWidth = 2
  QrWidth = 1
  BaseN = 2
  MaxSyncFlagCount = 15
  Launches <- AllLaunches
INVARIANTS TypeOK HandOversOfStep FlagsDrained
PROPERTIES KernelEnds
CHECK_DEADLOCK FALSE
