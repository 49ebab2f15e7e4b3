CONSTANTS
  Procs = {p1, p2}
  Parent = p1
  Does <- MCApart
  NFILE = 2
  NOFILE = 2
  NINODE = 3
  Files = {2, 3}
  Opens <- MCOpens
  FileSize = 1
  MaxRef = 2
SPECIFICATION Spec
INVARIANTS NeverFreedEarly  ReadOnce
CHECK_DEADLOCK FALSE
