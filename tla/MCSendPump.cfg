SPECIFICATION Spec
CONSTANTS
  p1 = p1
  p2 = p2
  None = None
  Path <- TwoPaths
  Mortal <- SecondPath
  MaxUnits = 2
  InflightCap = 2
  ChanCap = 1
INVARIANTS
  NoLostWakeup
PROPERTIES
  EventuallyAcked
