SPECIFICATION Spec
CONSTANTS
  Lines <- TypedLines
  MaxLines = 3
  UpCapacity = 1
CHECK_DEADLOCK FALSE
INVARIANTS
  GateAgrees
  CommandsArrive
  RepliesShown
PROPERTIES
  EofEndsIo
