SPECIFICATION Spec
CONSTANTS
  Workers = 3
INVARIANTS
  ResumedOnce
  NameIsOurs
PROPERTIES
  RunEnds
CHECK_DEADLOCK FALSE
