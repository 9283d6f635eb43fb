CONSTANTS
  r = r
  a = a
  b = b
  m = m
  e = e
  f = f
  g = g
  h = h
  s = s
  q = q
  Root = r
  Nodes <- MCNodes
  Kind <- MCKind
  Device <- MCDevice
  MountPoints = {m}
  Readable <- MCReadable
  Tree <- MCTree
  Nowhere = Nowhere
  Givens <- AnyPath
  MaxChanges = 3
SPECIFICATION Spec
CHECK_DEADLOCK FALSE
INVARIANTS
  TypeOK
  StillFoundOnce
  OnlyThisDevice
