SPECIFICATION Spec
CONSTANTS
  Frames <- OverlappingFrames
  Caps <- SmallCaps
  MaxAdds = 5
  MaxRanges = 2
INVARIANTS
  DeliveredIsPrefix
  SizeLedger
  RangesAreBlocks
  PanicMeansNested
PROPERTIES
  HoleFillAccepted
  NoRenege
\* A panic ends the process: nothing follows it.
CHECK_DEADLOCK FALSE
