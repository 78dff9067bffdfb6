SPECIFICATION FairSpec
CONSTANTS
  Proc = {idle, init, pageoutd, p1, p2}
  Idle = idle
  InitProc = init
  Pageoutd = pageoutd
  idle = idle
  init = init
  pageoutd = pageoutd
  p1 = p1
  p2 = p2
  PROC_MAX_COUNT = 5
  Status = {0}
  Halting = TRUE
  NULL = NULL
CHECK_DEADLOCK FALSE
INVARIANT IdleReapsInit
PROPERTY DeadInitHalts
PROPERTY WaitReturns
