SPECIFICATION Spec
CONSTANTS
  p1 = p1
  p2 = p2
  None = None
  Path <- TwoPaths
  Mortal <- SecondPath
  MaxUnits = 2
  InflightCap = 1
  ChanCap = 1
PROPERTIES
  EventuallyAcked
