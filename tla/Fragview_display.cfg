SPECIFICATION FragviewSpec
CONSTANTS
  Granularity = 2
  InitialSize = 2
  CapDivisor = 4
  WordMax = 15
  Scans <- TinyAndSmaller
  DesiredSizes <- MCDesiredSizes
  ViewStarts <- MCViewStarts
  ViewLengths <- MCViewLengths
  BoxSize = 1
  ScrollbarWidth = 1
  TopRows = 0
  Allocations <- FourSizes
  Clicks <- NoClicks
INVARIANTS
  ScrollReachesAll
PROPERTIES
  ImplementsDiskMap
  ViewStaysOnMap
