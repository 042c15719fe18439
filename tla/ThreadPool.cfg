\* Two workers and three tasks.
SPECIFICATION Spec
CONSTANTS
  NumThreads = 2
  Task = {t1, t2, t3}
  Poison = poison
INVARIANTS
  TypeOK
  NoLostWakeup
  StopLeavesNoThread
PROPERTIES
  MailboxSpec
  AcceptedTaskRuns
  StopReturns
\* All tasks done and all threads joined: the pool has stopped.
CHECK_DEADLOCK FALSE
