\* One worker is enough for a stop() before it has registered.
SPECIFICATION Spec
CONSTANTS
  NumThreads = 1
  Task = {t1, t2}
  Poison = poison
INVARIANT EarlyReturnIsSecondStop
CHECK_DEADLOCK FALSE
