SPECIFICATION FairSpec
CONSTANTS
  Task = {t1, t2, t3}
  RetryCount = 1
  None = None
INVARIANTS
  TypeOK
  Fifo
  LandsInOrder
PROPERTIES
  AcceptedSettles
  RestBecomesDone
  ImplementsSerialExecutor
CHECK_DEADLOCK FALSE
