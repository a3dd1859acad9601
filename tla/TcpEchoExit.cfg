SPECIFICATION Spec
CONSTANTS
  Count = 2
  MaxLength = 2
  Cap = 2
PROPERTY
  MainExits
CHECK_DEADLOCK FALSE
