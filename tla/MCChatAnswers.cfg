SPECIFICATION FairSpec
CONSTANTS
  Fds = {fd1}
  Users = {a, b}
  Rooms <- MCRooms
  Nicks = {guest, nick1}
  Texts <- TaskTexts
  Empty = none
  Guest = guest
  Passwords = {pw}
  Script <- AnswerScript
  Starts <- AnswerStarts
  MaxConns = 1
  MaxOutages = 1
  MaxReads = 2
  fd1 = fd1
  fd2 = fd2
  fd3 = fd3
  a = a
  b = b
  pw = pw
  guest = guest
  none = none
CHECK_DEADLOCK FALSE
PROPERTIES
  EveryTaskAnswered
