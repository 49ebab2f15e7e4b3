CONSTANTS
  Procs = {p1, p2}
  Scheduler = scheduler
  Locks = {a, b}
  MaxHeld = 3
  Vectors <- MCVectors
  HeaderSize = 2
  NALLOC = 4
  HeapStart = 2
  HeapEnd = 11
  Requests = {0, 1, 3, 5, 8}
  Chars = {"a", " ", "|", "&", ";", "(", ")", "<", ">"}
  MaxLine = 5
  MAXARGS = 3
  FSSIZE = 37
  BSIZE = 2
  swapsize = 2
  logsize = 2
  PageBlocks = 2
  IPB = 2
  EPB = 4
  EXTENT_N = 4
  Argcs = {3, 4, 5}
  FileSizes = {0, 1, 3, 4}
  Appends = {1, 2}
  MaxExtents = 2
  MaxTaken = 2
SPECIFICATION PartsSpec
INVARIANTS InterruptsKept RegistersKept HeapSound RunsAsTyped Wired LaidOut 
CHECK_DEADLOCK FALSE
