SPECIFICATION LoopSpec
CONSTANTS
  Fds = {f1, f2}
  Users = {u1}
  Rooms <- MCRooms
  Nicks = {guest}
  Texts = {text}
  Requests <- MCRequests
  Empty = blank
  Guest = guest
  f1 = f1
  f2 = f2
  u1 = u1
  blank = blank
  guest = guest
  MaxQueue = 4
  MaxConns = 2
CHECK_DEADLOCK FALSE
INVARIANTS
  NoLostWakeup
  EventsFindTheirConnection
PROPERTIES
  CommandsAreHandled
  StopEndsLoop
