CONSTANTS
  p1 = p1
  p2 = p2
  p3 = p3
  Procs <- ThreeRuns
  Live <- OneLive
  NoArg = NoArg
  Unit = 2
  Walks <- MCWalks
  Commands <- MCCommands
SPECIFICATION FairSpec
CHECK_DEADLOCK FALSE
INVARIANTS
  TypeOK
  ListsOneScan
  ScanListsItsOwn
PROPERTIES
  NeverWaits
  ImplementsScanStore
