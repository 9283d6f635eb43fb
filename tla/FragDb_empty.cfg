CONSTANTS
  p1 = p1
  p2 = p2
  p3 = p3
  Procs <- TwoRuns
  Live <- NoneLive
  NoArg = NoArg
  Unit = 2
  Walks <- MCWalks
  Commands <- ScansAndTop
SPECIFICATION Spec
CHECK_DEADLOCK FALSE
PROPERTY EmptyMeansNothingStored
