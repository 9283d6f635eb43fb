SPECIFICATION Spec
CONSTANTS
  MaxCount = 2
  MaxStates = 3
  BlockSize = 2
  Files <- Writable
  Supports <- AnySupport
INVARIANTS
  TypeOK
  FiemapIsExact
  NothingMadeUp
  FibmapIsExactWhenDense
PROPERTIES
  EachCallGetsFurther
  Terminates
CHECK_DEADLOCK FALSE
