\* One connection that stays idle is enough.
SPECIFICATION Spec
CONSTANTS
  NumThreads = 1
  Poison = poison
  Port = {1}
  Socket = {s1}
  MaxStops = 1
PROPERTY StopEndsRun
CHECK_DEADLOCK FALSE
