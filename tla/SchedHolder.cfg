SPECIFICATION Spec
CONSTANTS
  Thread = {t1, t2, t3}
  First = t1
  Mutex = {m}
  WaitQ = {}
  DevQ = {dev}
  dev = dev
  Canceller = {t1}
  RunQ = RunQ
  NULL = NULL
  t1 = t1
  t2 = t2
  t3 = t3
  m = m
SYMMETRY Symmetry
INVARIANT HeirAlive
CHECK_DEADLOCK FALSE
