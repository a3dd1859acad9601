SPECIFICATION Spec
CONSTANTS
  Workers = 3
INVARIANTS
  FailureReported
CHECK_DEADLOCK FALSE
