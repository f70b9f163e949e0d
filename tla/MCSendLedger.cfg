SPECIFICATION Spec
CONSTANTS
  p1 = p1
  p2 = p2
  None = None
  Path <- TwoPaths
  MaxBytes = 5
  MaxFrame = 3
  InflightCap = 2
SYMMETRY Symmetry
INVARIANTS
  Tiling
  InflightLedger
  OwnersLive
  CreditedOnce
PROPERTIES
  OnlyHolesResent
  MarksFollowReports
CHECK_DEADLOCK FALSE
