SPECIFICATION Spec
CONSTANTS
  Bytes <- MCBytes
  Newline = 0
  CompactAt = 2
  RecordSize = 2
  OutCapacity = 2
  ReplySize = 3
  MaxReplies = 2
  MaxSends = 2
CHECK_DEADLOCK FALSE
INVARIANTS
  RepliesExact
  RetryOffersRecord
  ArmedToWrite
PROPERTIES
  RepliesArrive
  LinesAreExecuted
