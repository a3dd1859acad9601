SPECIFICATION Spec
CONSTANTS
  PoolSize = 2
  Conns = {k1, k2}
  Acceptor = acceptor
  None = none
  MaxAcceptErrors = 1
  MaxInbox = 1
INVARIANTS
  TypeOK
  SessionConfined
  ResumedOnce
PROPERTIES
  PoolUse
  ReadsToTheEnd
  Accepted
  SessionEnds
CHECK_DEADLOCK FALSE
