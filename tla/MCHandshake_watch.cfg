SPECIFICATION Spec
CONSTANTS
  o1 = o1
  o2 = o2
  Opens = {o1, o2}
  Admitted = {o1}
  MinPaths <- Asked
  Backlog = 1
CHECK_DEADLOCK FALSE
INVARIANT NoBadStream
