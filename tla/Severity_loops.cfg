CONSTANTS
  Window = 3
  Shift = 1
  Penalty = 2
  Files <- AllFiles
SPECIFICATION Spec
CHECK_DEADLOCK FALSE
INVARIANTS
  TypeOK
  WorstAtExtents
  AtMostItsExtents
