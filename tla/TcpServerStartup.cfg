SPECIFICATION Spec
CONSTANTS
  PoolSize = 2
  Conns = {k1}
  Acceptor = acceptor
  None = none
  MaxAcceptErrors = 0
  MaxInbox = 1
INVARIANT
  StartupErrorCaught
CHECK_DEADLOCK FALSE
