SPECIFICATION Spec
CONSTANTS
  Bytes <- MCBytes
  Newline = "NL"
  Return = "CR"
  CompactAt = 4
  Sendable <- MCSendable
  MaxCommands = 3
CHECK_DEADLOCK FALSE
INVARIANTS
  StreamExact
  ReceivedAsSent
  DoneBytesBounded
