CONSTANTS
  NProc = 3
  MaxPid = 3
  InitExits = FALSE
SPECIFICATION Spec
INVARIANTS ParentAlive PidsDiffer WaiterHasWork RefusedIsChildless
PROPERTIES ZombieFound OrphanReaped
