SPECIFICATION Spec
CONSTANTS
  Granularity = 2
  InitialSize = 3
  CapDivisor = 2
  WordMax = 15
  Scans <- MCScans
  DesiredSizes <- MCDesiredSizes
  ViewStarts <- MCViewStarts
  ViewLengths <- MCViewLengths
INVARIANTS
  TypeOK
  CoarseMapCurrent
  ClustersTileDevice
  IndicesValid
  CoarseIndexInBounds
  NothingInvented
  NothingLost
PROPERTIES
  FillPaintsTruth
