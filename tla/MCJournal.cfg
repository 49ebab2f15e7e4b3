SPECIFICATION Spec
CONSTANTS
  p1 = p1
  p2 = p2
  f1 = f1
  d1 = d1
  d2 = d2
  d3 = d3
  Procs = {p1, p2}
  Files = {f1}
  FileOf <- MCFileOf
  Data <- MCData
  IBlk = IBlk
  Boot = Boot
  Vals = {0, 1}
  Val0 = 0
  NBuf = 3
  LogSize = 4
  None = None
INVARIANTS LogFits IInv
PROPERTIES Atomic LengthAfterData 
