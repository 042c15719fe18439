\* One port, two workers, three sockets (the round robin wraps) and a stop.
SPECIFICATION Spec
CONSTANTS
  NumThreads = 2
  Poison = poison
  Port = {1}
  Socket = {s1, s2, s3}
  MaxStops = 1
INVARIANTS
  TypeOK
  SharedOutEvenly
  OneWorkerPerConnection
PROPERTIES
  NoWorkAfterStop
  UsesPool
  StopEndsAtLast
  AcceptedIsServed
CHECK_DEADLOCK FALSE
