SPECIFICATION Spec
CONSTANTS
  MaxBody = 1
  MaxMsgs = 1
  PumpCap = 1
  WireCap = 1
  Uses <- UsesSmall
CHECK_DEADLOCK FALSE
INVARIANTS
  EofOnlyAtEnd
