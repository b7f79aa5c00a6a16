SPECIFICATION Spec
CONSTANTS
  Users = {a, b}
  Passwords = {pw1, pw2}
  Nicks = {guest, nick1}
  Guest = guest
  a = a
  b = b
  c = c
  guest = guest
  MaxRooms = 2
  MaxMessages = 2
SYMMETRY Symmetry
INVARIANTS
  RoomIdsNotReused
