SPECIFICATION Spec
CONSTANTS
  Fds = {fd1, fd2, fd3}
  Users = {a, b}
  Rooms <- MCRooms
  Nicks = {guest}
  Texts <- TaskTexts
  Empty = none
  Guest = guest
  Passwords = {pw}
  Script <- RoomScript
  Starts <- RoomStarts
  MaxConns = 2
  MaxOutages = 1
  MaxReads = 3
  fd1 = fd1
  fd2 = fd2
  fd3 = fd3
  a = a
  b = b
  pw = pw
  guest = guest
  none = none
CHECK_DEADLOCK FALSE
SYMMETRY RoomSymmetry
INVARIANTS
  RoomMessagesStayInRoom
  MembersHear
