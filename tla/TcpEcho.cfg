SPECIFICATION Spec
CONSTANTS
  Count = 4
  MaxLength = 3
  Cap = 4
INVARIANTS
  TypeOK
  EchoPrefix
  NoMutualBlock
PROPERTIES
  ConnectedClientExits
  SessionCloses
CHECK_DEADLOCK FALSE
