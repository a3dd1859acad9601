SPECIFICATION Spec
CONSTANTS
  Threads = {t1, t2}
  Calls = {c1, c2}
  CallData = {d1, d2, d3, d4}
  MaxDrops = 2
  None = none
INVARIANTS
  TypeOK
  SoleHolder
  ListenersConserved
PROPERTIES
  Greets
CHECK_DEADLOCK FALSE
