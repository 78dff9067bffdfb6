SPECIFICATION TickingSpec
CONSTANTS
  Thread = {t1, t2, t3}
  First = t1
  Mutex = {m}
  WaitQ = {}
  DevQ = {dev}
  Canceller = {}
  RunQ = RunQ
  NULL = NULL
  t1 = t1
  t2 = t2
  t3 = t3
  m = m
  dev = dev
INVARIANT ContextsIntact
PROPERTY WaiterGetsMutex
