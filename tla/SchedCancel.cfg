SPECIFICATION Spec
CONSTANTS
  Thread = {t1, t2, t3}
  First = t1
  Mutex = {m}
  WaitQ = {w}
  DevQ = {dev}
  dev = dev
  Canceller = {t1, t2, t3}
  RunQ = RunQ
  NULL = NULL
  t1 = t1
  t2 = t2
  t3 = t3
  m = m
  w = w
SYMMETRY Symmetry
INVARIANT TypeOK
INVARIANT QueueDiscipline
INVARIANT NoWaiterOnFreeMutex
INVARIANT HolderWillKnow
INVARIANT LockReturnsHeld
INVARIANT RunningNotCancelled
PROPERTY MutexProtocol
CHECK_DEADLOCK FALSE
