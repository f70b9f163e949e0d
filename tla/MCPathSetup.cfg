SPECIFICATION Spec
CONSTANTS
  s1 = s1
  r1 = r1
  r2 = r2
  Uses <- Applications
  MaxIds = 3
  Subs = {s1}
  BufLen = 1
  MaxPaths = 2
  KeepPaths = 1
  AddTryN = 2
  MaxShift = 1
  Reqs = {r1, r2}
  MaxRsv = 1
CHECK_DEADLOCK FALSE
INVARIANTS
  DropsAreTold
  NoSubscriberLeft
  AutoWithinLimit
  DialNeedsReservation

  
