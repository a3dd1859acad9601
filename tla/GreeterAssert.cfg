SPECIFICATION SafeSpec
CONSTANTS
  Threads = {t1}
  Calls = {c1}
  CallData = {d1, d2}
  MaxDrops = 1
  None = none
INVARIANT
  AssertOk
CHECK_DEADLOCK FALSE
