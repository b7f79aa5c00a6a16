SPECIFICATION Spec
CONSTANTS
  Users = {a, b, c}
  Passwords = {pw}
  Nicks = {guest}
  Guest = guest
  a = a
  b = b
  c = c
  guest = guest
  MaxRooms = 1
  MaxMessages = 1
SYMMETRY Symmetry
INVARIANTS
  TypeOK
  ReferencesHold
  OwnerIsMember
  FriendsByConsent
PROPERTIES
  MembersAreInvited
