SPECIFICATION Spec
CONSTANTS
  Thread = {t1, t2}
  First = t1
  Mutex = {m}
  WaitQ = {}
  DevQ = {dev}
  Canceller = {}
  RunQ = RunQ
  NULL = NULL
  t1 = t1
  t2 = t2
  m = m
  dev = dev
SYMMETRY Symmetry
INVARIANT RunnableThreadNotHalted
