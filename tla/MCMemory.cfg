CONSTANTS
  Procs = {p1, p2}
  First = p1
  NPages = 20
  Spare = 3
  Reserve = 2
  PGSIZE = 2
  TopPage = 4
  MaxStack = 2
  MaxHeap = 1
  ProgramSizes = {1}
  StoreTo = {1, 2, 4}
  Text = Text
  Args = Args
  Blank = Blank
  Stored = Stored
  Junk = Junk
  NoImage = NoImage
SPECIFICATION Spec
INVARIANTS Accounted PageTables 
PROPERTIES IsPrivate
CHECK_DEADLOCK FALSE
