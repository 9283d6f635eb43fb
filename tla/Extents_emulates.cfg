SPECIFICATION Spec
CONSTANTS
  MaxCount = 2
  MaxStates = 1
  BlockSize = 1
  Files <- SparseOrLong
  Supports <- OnlyFibmap
INVARIANTS
  EmulatesFiemap
CHECK_DEADLOCK FALSE
