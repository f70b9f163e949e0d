SPECIFICATION Spec
CONSTANTS
  A = A
  B = B
  p1 = p1
  p2 = p2
  Side <- TwoSides
  Path <- TwoPaths
  First = p1
  Dialer <- DialTwo
  Fragile <- FirstPath
INVARIANTS
  NoLeak
PROPERTIES
  PathlessEnds
  DropReachesPeer
  CloseReachesPeer
CHECK_DEADLOCK FALSE
