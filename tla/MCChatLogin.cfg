SPECIFICATION Spec
CONSTANTS
  Fds = {fd1}
  Users = {a, b}
  Rooms <- MCRooms
  Nicks = {guest}
  Texts <- TaskTexts
  Empty = none
  Guest = guest
  Passwords = {pw}
  Script <- LoginScript
  Starts <- LoginStarts
  MaxConns = 2
  MaxOutages = 1
  MaxReads = 3
  fd1 = fd1
  fd2 = fd2
  fd3 = fd3
  a = a
  b = b
  pw = pw
  guest = guest
  none = none
CHECK_DEADLOCK FALSE
INVARIANTS
  TypeOK
  LoginSuccess
  RepliesInOrder
