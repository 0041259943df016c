SPECIFICATION FairSpec
CONSTANTS
  FfnNum = 2
  MicroBatchNum = 2
  AivNum = 2
  SlotNum = 3
  RoundNum = 2
  Scenes = {TRUE, FALSE}
  Routes <- FewRoutes
INVARIANTS TypeOK FlagMeansComplete NothingLost CollectComplete
PROPERTIES RoundCompletes
