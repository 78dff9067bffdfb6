SPECIFICATION Spec
CONSTANTS
  Proc = {idle, init, pageoutd, p1, p2, p3}
  Idle = idle
  InitProc = init
  Pageoutd = pageoutd
  idle = idle
  init = init
  pageoutd = pageoutd
  p1 = p1
  p2 = p2
  p3 = p3
  PROC_MAX_COUNT = 6
  Status = {0}
  Halting = FALSE
  NULL = NULL
SYMMETRY Symmetry
CHECK_DEADLOCK FALSE
INVARIANT NoZombieOfSleeper
