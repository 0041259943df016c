SPECIFICATION Spec
CONSTANTS
  CubeNum = 1
  CvRatio = 2
  TokenNum = 1
  StepBatchSize = 1
  HeadNum = 16
  CqBlockNum = 1
  CkvKrBlockNum = 1
  QcQrBlockNum = 1
  QcWidth = 2
  QrWidth = 1
  BaseN = 2
  MaxSyncFlagCount = 15
  Launches <- Mxfp4Launch
INVARIANTS HeadsDequantized
