SPECIFICATION Spec
CONSTANTS
  p1 = p1
  p2 = p2
  p3 = p3
  s1 = s1
  s2 = s2
  s3 = s3
  s4 = s4
  Peers = {p1, p2, p3}
  Streams = {s1, s2, s3, s4}
  PeerOf <- Ends
  Total = 4
  MinShare = 1
  MaxRead = 1
  Scale = 6
CHECK_DEADLOCK FALSE
INVARIANTS
  OneBucketPerPeer
  MaxMinFair
