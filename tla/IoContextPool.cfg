SPECIFICATION Spec
CONSTANTS
  PoolSize = 3
  MaxQueue = 2
  MaxHandouts = 2
INVARIANTS
  TypeOK
  Balanced
  ThreadsOutliveWork
  QuietAfterStop
PROPERTIES
  HandlersRun
  StopReturns
CHECK_DEADLOCK FALSE
