CONSTANTS
  FSSIZE = 61
  BSIZE = 4
  swapsize = 2
  logsize = 2
  PageBlocks = 4
  IPB = 2
  EPB = 4
  EXTENT_N = 7
  Argcs = {3}
  FileSizes = {0, 4}
  Appends = {4, 12}
  MaxExtents = 3
  MaxTaken = 3
SPECIFICATION Spec
CHECK_DEADLOCK FALSE
INVARIANT ReadBack
