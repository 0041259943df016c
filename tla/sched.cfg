SPECIFICATION MCSpec
CONSTANTS
  SessionNum = 2
  MicroBatchNum = 2
  SyncGroupSize = 1
  SlotNum = 1
  RoundNum = 2
  Workloads = {{0}}
INVARIANTS TypeOK SlotOwnership DataIntact OutputFaithful NothingLost OneGroupInStep
PROPERTIES ExactlyOnce RoundsAnswered StopReturns ImplementsMailboxes
