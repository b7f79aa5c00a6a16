SPECIFICATION Spec
CONSTANTS
  Lines <- TypedLines
  MaxLines = 1
  UpCapacity = 1
CHECK_DEADLOCK FALSE
PROPERTIES
  ClientEnds
