CONSTANTS
  p1 = p1
  p2 = p2
  Procs <- MCTwo
  Creator = p1
  Bytes <- MCOne
  Size = 1
  IntMax = 15
  NoFile = 2
  MaxCall = 2
  MaxBytes = 1
SPECIFICATION Spec
  
PROPERTIES KilledExits 
CHECK_DEADLOCK FALSE
