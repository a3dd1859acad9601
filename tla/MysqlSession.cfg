SPECIFICATION Spec
CONSTANTS
  PoolSize = 2
  MaxQueue = 1
  MaxHandouts = 1
  MaxRuns = 3
INVARIANTS
  TypeOK
  HandlesValid
  PrintedOwnRow
  RerunConverges
  NothingDangles
PROPERTIES
  RowStays
  EveryRunEnds
CHECK_DEADLOCK FALSE
