SPECIFICATION Spec
CONSTANTS
  p1 = p1
  p2 = p2
  None = None
  FirstPath = p1
  Path <- TwoPaths
  MaxUnits = 3
  MaxAcks = 3
  MaxFails = 1
  Caps <- TwoCaps
  MinCap = 1
  MaxCap = 2
  SendBuf = 2
  InflightCap = 1
  MaxRanges = 1
  MaxAckAdvance = 1
  ReadAhead = 1
  ChanCap = 1
INVARIANTS
  TypeOK
  FlowControl
  OffsetsOrdered
  NoOrphan
  SackedIsHeld
  HonestAckValid
  LatestViewKept
PROPERTIES
  ImplementsByteStream
CHECK_DEADLOCK FALSE
