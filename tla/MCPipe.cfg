CONSTANTS
  p1 = p1
  p2 = p2
  Procs <- MCTwo
  Creator = p1
  Bytes <- MCBytes
  Size = 2
  IntMax = 15
  NoFile = 2
  MaxCall = 2
  MaxBytes = 2
SPECIFICATION Spec
PROPERTIES IsFifo
CHECK_DEADLOCK FALSE
