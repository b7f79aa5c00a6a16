SPECIFICATION Spec
CONSTANTS
  Fds <- MCFds
  Users <- MCUsers
  Rooms <- MCRooms
  Nicks <- MCNicks
  Texts <- MCTexts
  Requests <- MCRequests
  Empty = blank
  Guest = guest
  f1 = f1
  f2 = f2
  nick1 = nick1
  u1 = u1
  u2 = u2
  blank = blank
  guest = guest
  MaxQueue = 2
SYMMETRY Symmetry
INVARIANTS
  TypeOK
  UserIndexExact
  RoomIndexExact
  NoGhostEntries
  FdOwnership
  PendingArmed
  UnregisterMeetsItsSession
PROPERTIES
  ImplementsPresence
