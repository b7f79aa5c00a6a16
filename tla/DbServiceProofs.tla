-------------------------- MODULE DbServiceProofs --------------------------
(***************************************************************************)
(* Proofs about DbService, for any set of users and any bounds.            *)
(*                                                                         *)
(* An operation's outcomes carry either the old tables or the new tables   *)
(* of its transaction, so an invariant of the tables is kept when every    *)
(* new table of every operation keeps it: whether the caller saw an answer *)
(* or an error is irrelevant.                                              *)
(***************************************************************************)
EXTENDS DbService, TLAPS

LEMMA TransactionTables ==
  ASSUME NEW d, NEW d2, NEW answer, NEW value,
         NEW o \in Transaction(d, d2, answer, value)
  PROVE  o.db = d \/ o.db = d2
  BY DEF Transaction, Outcome, Fails

LEMMA FailsTables == ASSUME NEW d, NEW o \in {Fails(d)} PROVE o.db = d
  BY DEF Outcome, Fails

-----------------------------------------------------------------------------
(* The inductive invariant, as a predicate of the tables.  Beyond the      *)
(* properties it says that the identity sequence is ahead of every room,   *)
(* without which a new room could inherit the rows of an old one.          *)

TablesRecord(d) ==
  d = [users |-> d.users, friendships |-> d.friendships,
       friend_requests |-> d.friend_requests, rooms |-> d.rooms,
       room_members |-> d.room_members, messages |-> d.messages,
       next_room |-> d.next_room, next_message |-> d.next_message]

RoomRows(d) ==
  /\ d.next_room \in Nat
  /\ \A r \in DOMAIN d.rooms : r \in Nat /\ r < d.next_room
  /\ \A r \in DOMAIN d.rooms : <<r, d.rooms[r]>> \in d.room_members
  /\ \A m \in d.room_members : m[1] \in DOMAIN d.rooms /\ m[2] \in DOMAIN d.users
  /\ \A m \in d.messages : m.room_id \in DOMAIN d.rooms /\ m.sender \in DOMAIN d.users

FriendRows(d) ==
  /\ \A pair \in d.friendships : pair \subseteq DOMAIN d.users
  /\ \A k \in DOMAIN d.friend_requests : {k[1], k[2]} \subseteq DOMAIN d.users
  /\ \A a, b \in Users : {a, b} \in d.friendships
       => Status(d, a, b) = "accepted" \/ Status(d, b, a) = "accepted"

Consistent(d) == TablesRecord(d) /\ RoomRows(d) /\ FriendRows(d)

\* Tables that differ from consistent ones in the users only, and only by
\* having more of them or other rows for them.
LEMMA MoreUsers ==
  ASSUME NEW d, Consistent(d), NEW users, DOMAIN d.users \subseteq DOMAIN users
  PROVE  Consistent([d EXCEPT !.users = users])
<1> DEFINE d2 == [d EXCEPT !.users = users]
<1>1. /\ d2.users = users
      /\ d2.rooms = d.rooms /\ d2.room_members = d.room_members
      /\ d2.messages = d.messages /\ d2.friendships = d.friendships
      /\ d2.friend_requests = d.friend_requests /\ d2.next_room = d.next_room
      /\ TablesRecord(d2)
  BY DEF Consistent, TablesRecord
<1> HIDE DEF d2
<1>2. RoomRows(d2)
  BY <1>1 DEF Consistent, RoomRows
<1>3. FriendRows(d2)
  BY <1>1 DEF Consistent, FriendRows, Status
<1>4. Consistent(d2)
  BY <1>1, <1>2, <1>3 DEF Consistent
<1> QED
  BY <1>4 DEF d2

LEMMA SignupConsistent ==
  ASSUME NEW d, Consistent(d), NEW id, NEW pw, NEW o \in signup(d, id, pw)
  PROVE  Consistent(o.db)
<1> DEFINE users == Put(d.users, id, [pw |-> pw, nickname |-> Guest])
<1>1. o.db = d \/ o.db = [d EXCEPT !.users = users]
  BY TransactionTables DEF signup
<1>2. DOMAIN d.users \subseteq DOMAIN users
  BY DEF Put
<1> HIDE DEF users
<1> QED
  BY <1>1, <1>2, MoreUsers

LEMMA ChangeNicknameConsistent ==
  ASSUME NEW d, Consistent(d), NEW id, NEW nick, NEW o \in change_nickname(d, id, nick)
  PROVE  Consistent(o.db)
<1> DEFINE users == [d.users EXCEPT ![id].nickname = nick]
<1>1. o.db = d \/ o.db = [d EXCEPT !.users[id].nickname = nick]
  BY TransactionTables DEF change_nickname
<1>2. [d EXCEPT !.users[id].nickname = nick] = [d EXCEPT !.users = users]
  BY DEF Consistent, TablesRecord
<1>3. DOMAIN d.users \subseteq DOMAIN users
  OBVIOUS
<1> HIDE DEF users
<1> QED
  BY <1>1, <1>2, <1>3, MoreUsers

-----------------------------------------------------------------------------
(* Operations on friends.                                                  *)

\* Tables with other friendships and requests.
FriendTables(d, friendships, requests) ==
  [d EXCEPT !.friendships = friendships, !.friend_requests = requests]

LEMMA OtherFriendRows ==
  ASSUME NEW d, Consistent(d), NEW friendships, NEW requests,
         FriendRows(FriendTables(d, friendships, requests))
  PROVE  Consistent(FriendTables(d, friendships, requests))
<1>1. PICK d2 : d2 = FriendTables(d, friendships, requests)
  OBVIOUS
<1>2. /\ d2.users = d.users
      /\ d2.rooms = d.rooms /\ d2.room_members = d.room_members
      /\ d2.messages = d.messages /\ d2.next_room = d.next_room
      /\ TablesRecord(d2)
  BY <1>1 DEF Consistent, TablesRecord, FriendTables
<1>3. RoomRows(d2)
  BY <1>2 DEF Consistent, RoomRows
<1> QED
  BY <1>1, <1>2, <1>3 DEF Consistent

LEMMA RemoveFriendConsistent ==
  ASSUME NEW d, Consistent(d), NEW u, NEW v, NEW o \in remove_friend(d, u, v)
  PROVE  Consistent(o.db)
<1> DEFINE left == d.friendships \ {{u, v}}
           d2 == FriendTables(d, left, d.friend_requests)
<1>1. o.db = d \/ o.db = d2
  <2>1. o.db = d \/ o.db = [d EXCEPT !.friendships = left]
    BY TransactionTables DEF remove_friend
  <2>2. [d EXCEPT !.friendships = left] = d2
    BY DEF Consistent, TablesRecord, FriendTables
  <2> QED
    BY <2>1, <2>2
<1>2. FriendRows(d2)
  <2>1. d2.users = d.users /\ d2.friendships = left
        /\ d2.friend_requests = d.friend_requests
    BY DEF Consistent, TablesRecord, FriendTables
  <2> HIDE DEF d2
  <2> QED
    BY <2>1 DEF Consistent, FriendRows, Status
<1> HIDE DEF left
<1> QED
  BY <1>1, <1>2, OtherFriendRows

\* What d2 has in common with d when only the status of one request differs.
OneStatusChanged(d, d2, from, to, status) ==
  /\ d2.users = d.users
  /\ d2.friendships = d.friendships
  /\ d2 = FriendTables(d, d2.friendships, d2.friend_requests)
  /\ \A k \in DOMAIN d2.friend_requests : {k[1], k[2]} \subseteq DOMAIN d.users
  /\ Status(d2, from, to) = status
  /\ \A a, b : <<a, b>> # <<from, to>> => Status(d2, a, b) = Status(d, a, b)

LEMMA StatusChange ==
  ASSUME NEW d, Consistent(d), NEW from, NEW to, NEW status,
         {from, to} \subseteq DOMAIN d.users,
         NEW d2, d2 = SetStatus(d, from, to, status)
  PROVE  OneStatusChanged(d, d2, from, to, status)
<1> DEFINE reqs == Put(d.friend_requests, <<from, to>>, status)
<1>1. /\ d2.users = d.users
      /\ d2.friendships = d.friendships
      /\ d2.friend_requests = reqs
      /\ d2 = FriendTables(d, d2.friendships, d2.friend_requests)
  BY DEF Consistent, TablesRecord, SetStatus, FriendTables
<1>2. /\ DOMAIN reqs = DOMAIN d.friend_requests \cup {<<from, to>>}
      /\ \A k \in DOMAIN reqs :
           reqs[k] = IF k = <<from, to>> THEN status ELSE d.friend_requests[k]
  BY DEF Put
<1> HIDE DEF reqs
<1>3. \A k \in DOMAIN reqs : {k[1], k[2]} \subseteq DOMAIN d.users
  BY <1>2 DEF Consistent, FriendRows
<1>4. /\ Status(d2, from, to) = status
      /\ \A a, b : <<a, b>> # <<from, to>> => Status(d2, a, b) = Status(d, a, b)
  BY <1>1, <1>2 DEF Status
<1> QED
  BY <1>1, <1>3, <1>4 DEF OneStatusChanged

\* Enough for a change of status to keep the tables consistent.
LEMMA StatusConsistent ==
  ASSUME NEW d, Consistent(d), NEW d2, NEW from, NEW to, NEW status,
         OneStatusChanged(d, d2, from, to, status),
         \A a, b \in Users : {a, b} \in d.friendships =>
           Status(d2, a, b) = "accepted" \/ Status(d2, b, a) = "accepted"
  PROVE  Consistent(d2)
<1>1. FriendRows(d2)
  BY DEF OneStatusChanged, Consistent, FriendRows
<1>2. PICK fs, reqs : d2 = FriendTables(d, fs, reqs)
  BY DEF OneStatusChanged
<1> QED
  BY <1>1, <1>2, OtherFriendRows

LEMMA RequestFriendConsistent ==
  ASSUME NEW d, Consistent(d), NEW from, NEW to,
         NEW o \in request_friend(d, from, to)
  PROVE  Consistent(o.db)
<1>1. CASE o.db = d
  BY <1>1
<1>2. CASE o.db # d
  <2>1. PICK d2 : d2 = o.db
    OBVIOUS
  <2>2. /\ d2 = SetStatus(d, from, to, "pending")
        /\ ~Friends(d, from, to)
        /\ Status(d, from, to) # "accepted"
        /\ {from, to} \subseteq DOMAIN d.users
    BY <1>2, <2>1, TransactionTables, FailsTables DEF request_friend
  <2>3. OneStatusChanged(d, d2, from, to, "pending")
    BY <2>2, StatusChange
  <2>4. ASSUME NEW a \in Users, NEW b \in Users, {a, b} \in d.friendships
        PROVE  Status(d2, a, b) = "accepted" \/ Status(d2, b, a) = "accepted"
    <3>1. Status(d, a, b) = "accepted" \/ Status(d, b, a) = "accepted"
      BY <2>4 DEF Consistent, FriendRows
    <3> QED
      BY <2>2, <2>3, <3>1 DEF OneStatusChanged
  <2> QED
    BY <2>1, <2>3, <2>4, StatusConsistent
<1> QED
  BY <1>1, <1>2

LEMMA PendingHasUsers ==
  ASSUME NEW d, Consistent(d), NEW from, NEW to, Status(d, from, to) = "pending"
  PROVE  {from, to} \subseteq DOMAIN d.users
  BY DEF Consistent, FriendRows, Status

LEMMA RejectConsistent ==
  ASSUME NEW d, Consistent(d), NEW from, NEW to,
         NEW o \in reject_friend_request(d, from, to)
  PROVE  Consistent(o.db)
<1>1. CASE o.db = d
  BY <1>1
<1>2. CASE o.db # d
  <2>1. PICK d2 : d2 = o.db
    OBVIOUS
  <2>2. d2 = SetStatus(d, from, to, "rejected") /\ Status(d, from, to) = "pending"
    BY <1>2, <2>1, TransactionTables DEF reject_friend_request
  <2>3. OneStatusChanged(d, d2, from, to, "rejected")
    BY <2>2, StatusChange, PendingHasUsers
  <2>4. ASSUME NEW a \in Users, NEW b \in Users, {a, b} \in d.friendships
        PROVE  Status(d2, a, b) = "accepted" \/ Status(d2, b, a) = "accepted"
    <3>1. Status(d, a, b) = "accepted" \/ Status(d, b, a) = "accepted"
      BY <2>4 DEF Consistent, FriendRows
    <3> QED
      BY <2>2, <2>3, <3>1 DEF OneStatusChanged
  <2> QED
    BY <2>1, <2>3, <2>4, StatusConsistent
<1> QED
  BY <1>1, <1>2

LEMMA AcceptConsistent ==
  ASSUME NEW d, Consistent(d), NEW from, NEW to,
         NEW o \in accept_friend_request(d, from, to)
  PROVE  Consistent(o.db)
<1> DEFINE fs == d.friendships \cup {{from, to}}
<1>1. CASE o.db = d
  BY <1>1
<1>2. CASE o.db # d
  <2>1. PICK d2 : d2 = o.db
    OBVIOUS
  <2>2. PICK d1 : d1 = SetStatus(d, from, to, "accepted")
    OBVIOUS
  <2>3. /\ d2 = [d1 EXCEPT !.friendships = @ \cup {{from, to}}]
        /\ Status(d, from, to) = "pending"
    BY <1>2, <2>1, <2>2, TransactionTables DEF accept_friend_request
  <2>4. /\ {from, to} \subseteq DOMAIN d.users
        /\ OneStatusChanged(d, d1, from, to, "accepted")
    BY <2>2, <2>3, StatusChange, PendingHasUsers
  <2>5. /\ d1.friendships = d.friendships
        /\ d1 = FriendTables(d, d1.friendships, d1.friend_requests)
    BY <2>4 DEF OneStatusChanged
  <2>6. /\ d2 = FriendTables(d, fs, d1.friend_requests)
        /\ d2.users = d.users
        /\ d2.friendships = fs
        /\ d2.friend_requests = d1.friend_requests
    <3>1. PICK reqs : reqs = d1.friend_requests
      OBVIOUS
    <3>2. d1 = FriendTables(d, d.friendships, reqs)
      BY <2>5, <3>1
    <3> QED
      BY <2>3, <3>1, <3>2 DEF Consistent, TablesRecord, FriendTables
  <2>7. \A a, b : Status(d2, a, b) = Status(d1, a, b)
    BY <2>6 DEF Status
  <2>8. FriendRows(d2)
    <3>1. ASSUME NEW a \in Users, NEW b \in Users, {a, b} \in fs
          PROVE  Status(d2, a, b) = "accepted" \/ Status(d2, b, a) = "accepted"
      <4>1. CASE {a, b} = {from, to}
        <5>1. (a = from /\ b = to) \/ (b = from /\ a = to)
          BY <4>1
        <5> QED
          BY <2>4, <2>7, <5>1 DEF OneStatusChanged
      <4>2. CASE {a, b} # {from, to}
        <5>1. Status(d, a, b) = "accepted" \/ Status(d, b, a) = "accepted"
          BY <3>1, <4>2 DEF Consistent, FriendRows
        <5> QED
          BY <2>4, <2>7, <5>1 DEF OneStatusChanged
      <4> QED
        BY <4>1, <4>2
    <3>2. \A pair \in fs : pair \subseteq DOMAIN d.users
      BY <2>4 DEF Consistent, FriendRows
    <3>3. \A k \in DOMAIN d2.friend_requests : {k[1], k[2]} \subseteq DOMAIN d2.users
      BY <2>4, <2>6 DEF OneStatusChanged
    <3> HIDE DEF fs
    <3> QED
      BY <2>6, <3>1, <3>2, <3>3 DEF FriendRows
  <2> HIDE DEF fs
  <2> QED
    BY <2>1, <2>6, <2>8, OtherFriendRows
<1> QED
  BY <1>1, <1>2
-----------------------------------------------------------------------------
(* Operations on rooms.                                                    *)

\* What d2 has in common with d when only rooms, members, messages and the
\* sequences differ.
SameUsersAndFriends(d, d2) ==
  /\ d2.users = d.users
  /\ d2.friendships = d.friendships
  /\ d2.friend_requests = d.friend_requests

LEMMA OtherRoomRows ==
  ASSUME NEW d, Consistent(d), NEW d2, SameUsersAndFriends(d, d2),
         TablesRecord(d2), RoomRows(d2)
  PROVE  Consistent(d2)
  BY DEF SameUsersAndFriends, Consistent, FriendRows, Status

LEMMA DrawRoomIdConsistent ==
  ASSUME NEW d, Consistent(d)
  PROVE  Consistent(DrawRoomId(d))
<1>1. PICK d2 : d2 = DrawRoomId(d)
  OBVIOUS
<1>2. /\ SameUsersAndFriends(d, d2)
      /\ d2.rooms = d.rooms /\ d2.room_members = d.room_members
      /\ d2.messages = d.messages /\ d2.next_room = d.next_room + 1
      /\ TablesRecord(d2)
  BY <1>1 DEF DrawRoomId, Consistent, TablesRecord, SameUsersAndFriends
<1>3. RoomRows(d2)
  BY <1>2 DEF Consistent, RoomRows, SameUsersAndFriends
<1> QED
  BY <1>1, <1>2, <1>3, OtherRoomRows

LEMMA DrawMessageIdConsistent ==
  ASSUME NEW d, Consistent(d)
  PROVE  Consistent(DrawMessageId(d))
<1>1. PICK d2 : d2 = DrawMessageId(d)
  OBVIOUS
<1>2. /\ SameUsersAndFriends(d, d2)
      /\ d2.rooms = d.rooms /\ d2.room_members = d.room_members
      /\ d2.messages = d.messages /\ d2.next_room = d.next_room
      /\ TablesRecord(d2)
  BY <1>1 DEF DrawMessageId, Consistent, TablesRecord, SameUsersAndFriends
<1>3. RoomRows(d2)
  BY <1>2 DEF Consistent, RoomRows, SameUsersAndFriends
<1> QED
  BY <1>1, <1>2, <1>3, OtherRoomRows

LEMMA CreateRoomConsistent ==
  ASSUME NEW d, Consistent(d), NEW owner, NEW o \in create_room(d, owner)
  PROVE  Consistent(o.db)
<1>1. CASE o.db = d \/ o.db = DrawRoomId(d)
  BY <1>1, DrawRoomIdConsistent
<1>2. CASE ~(o.db = d \/ o.db = DrawRoomId(d))
  <2>1. PICK d2 : d2 = o.db
    OBVIOUS
  <2>2. PICK id : id = d.next_room
    OBVIOUS
  <2>3. PICK d1 : d1 = DrawRoomId(d)
    OBVIOUS
  <2>4. /\ owner \in DOMAIN d.users
        /\ d2 = [d1 EXCEPT !.rooms = Put(@, id, owner),
                           !.room_members = @ \cup {<<id, owner>>}]
    BY <1>2, <2>1, <2>2, <2>3, TransactionTables, FailsTables DEF create_room
  <2>5. /\ SameUsersAndFriends(d, d1)
        /\ d1.rooms = d.rooms
        /\ d1.room_members = d.room_members
        /\ d1.messages = d.messages
        /\ d1.next_room = d.next_room + 1
        /\ TablesRecord(d1)
    BY <2>3 DEF DrawRoomId, Consistent, TablesRecord, SameUsersAndFriends
  <2>6. /\ SameUsersAndFriends(d, d2)
        /\ d2.rooms = Put(d.rooms, id, owner)
        /\ d2.room_members = d.room_members \cup {<<id, owner>>}
        /\ d2.messages = d.messages
        /\ d2.next_room = d.next_room + 1
        /\ TablesRecord(d2)
    BY <2>4, <2>5 DEF TablesRecord, SameUsersAndFriends
  <2>7. /\ DOMAIN d2.rooms = DOMAIN d.rooms \cup {id}
        /\ \A r \in DOMAIN d2.rooms :
             d2.rooms[r] = IF r = id THEN owner ELSE d.rooms[r]
    BY <2>6 DEF Put
  <2>8. RoomRows(d2)
    BY <2>2, <2>4, <2>6, <2>7 DEF Consistent, RoomRows, SameUsersAndFriends
  <2> QED
    BY <2>1, <2>6, <2>8, OtherRoomRows
<1> QED
  BY <1>1, <1>2

LEMMA DeleteRoomConsistent ==
  ASSUME NEW d, Consistent(d), NEW owner, NEW room_id,
         NEW o \in delete_room(d, owner, room_id)
  PROVE  Consistent(o.db)
<1>1. CASE o.db = d
  BY <1>1
<1>2. CASE o.db # d
  <2>1. PICK d2 : d2 = o.db
    OBVIOUS
  <2>2. d2 = [d EXCEPT
                !.rooms = [r \in DOMAIN @ \ {room_id} |-> @[r]],
                !.room_members = {m \in @ : m[1] # room_id},
                !.messages = {m \in @ : m.room_id # room_id}]
    BY <1>2, <2>1, TransactionTables DEF delete_room
  <2>3. /\ SameUsersAndFriends(d, d2)
        /\ d2.rooms = [r \in DOMAIN d.rooms \ {room_id} |-> d.rooms[r]]
        /\ d2.room_members = {m \in d.room_members : m[1] # room_id}
        /\ d2.messages = {m \in d.messages : m.room_id # room_id}
        /\ d2.next_room = d.next_room
        /\ TablesRecord(d2)
    BY <2>2 DEF Consistent, TablesRecord, SameUsersAndFriends
  <2>4. /\ DOMAIN d2.rooms = DOMAIN d.rooms \ {room_id}
        /\ \A r \in DOMAIN d2.rooms : d2.rooms[r] = d.rooms[r]
    BY <2>3
  <2>5. RoomRows(d2)
    BY <2>3, <2>4 DEF Consistent, RoomRows, SameUsersAndFriends
  <2> QED
    BY <2>1, <2>3, <2>5, OtherRoomRows
<1> QED
  BY <1>1, <1>2

\* The befriended have accounts.
LEMMA FriendHasAccount ==
  ASSUME NEW d, Consistent(d), NEW a, NEW b, Friends(d, a, b)
  PROVE  a \in DOMAIN d.users /\ b \in DOMAIN d.users
  BY DEF Consistent, FriendRows, Friends

LEMMA InviteRoomConsistent ==
  ASSUME NEW d, Consistent(d), NEW inviter, NEW room_id, NEW friend,
         NEW o \in invite_room(d, inviter, room_id, friend)
  PROVE  Consistent(o.db)
<1>1. CASE o.db = d
  BY <1>1
<1>2. CASE o.db # d
  <2>1. PICK d2 : d2 = o.db
    OBVIOUS
  <2>2. /\ Member(d, room_id, inviter)
        /\ Friends(d, inviter, friend)
        /\ d2 = [d EXCEPT !.room_members = @ \cup {<<room_id, friend>>}]
    BY <1>2, <2>1, TransactionTables DEF invite_room
  <2>3. /\ SameUsersAndFriends(d, d2)
        /\ d2.rooms = d.rooms
        /\ d2.room_members = d.room_members \cup {<<room_id, friend>>}
        /\ d2.messages = d.messages
        /\ d2.next_room = d.next_room
        /\ TablesRecord(d2)
    BY <2>2 DEF Consistent, TablesRecord, SameUsersAndFriends
  <2>4. room_id \in DOMAIN d.rooms
    BY <2>2 DEF Consistent, RoomRows, Member
  <2>5. friend \in DOMAIN d.users
    BY <2>2, FriendHasAccount
  <2>6. RoomRows(d2)
    BY <2>3, <2>4, <2>5 DEF Consistent, RoomRows, SameUsersAndFriends
  <2> QED
    BY <2>1, <2>3, <2>6, OtherRoomRows
<1> QED
  BY <1>1, <1>2

LEMMA LeaveRoomConsistent ==
  ASSUME NEW d, Consistent(d), NEW user_id, NEW room_id,
         NEW o \in leave_room(d, user_id, room_id)
  PROVE  Consistent(o.db)
<1>1. CASE o.db = d
  BY <1>1
<1>2. CASE o.db # d
  <2>1. PICK d2 : d2 = o.db
    OBVIOUS
  <2>2. /\ room_id \in DOMAIN d.rooms
        /\ d.rooms[room_id] # user_id
        /\ d2 = [d EXCEPT !.room_members = @ \ {<<room_id, user_id>>}]
    BY <1>2, <2>1, TransactionTables DEF leave_room
  <2>3. /\ SameUsersAndFriends(d, d2)
        /\ d2.rooms = d.rooms
        /\ d2.room_members = d.room_members \ {<<room_id, user_id>>}
        /\ d2.messages = d.messages
        /\ d2.next_room = d.next_room
        /\ TablesRecord(d2)
    BY <2>2 DEF Consistent, TablesRecord, SameUsersAndFriends
  <2>4. RoomRows(d2)
    BY <2>2, <2>3 DEF Consistent, RoomRows, SameUsersAndFriends
  <2> QED
    BY <2>1, <2>3, <2>4, OtherRoomRows
<1> QED
  BY <1>1, <1>2

LEMMA CreateRoomMessageConsistent ==
  ASSUME NEW d, Consistent(d), NEW room_id, NEW sender,
         NEW o \in create_room_message(d, room_id, sender)
  PROVE  Consistent(o.db)
<1>1. CASE o.db = d \/ o.db = DrawMessageId(d)
  BY <1>1, DrawMessageIdConsistent
<1>2. CASE ~(o.db = d \/ o.db = DrawMessageId(d))
  <2>1. PICK d2 : d2 = o.db
    OBVIOUS
  <2>2. PICK d1 : d1 = DrawMessageId(d)
    OBVIOUS
  <2>3. PICK message :
          /\ message = [id |-> d.next_message, room_id |-> room_id, sender |-> sender]
          /\ Member(d, room_id, sender)
          /\ d2 = [d1 EXCEPT !.messages = @ \cup {message}]
    <3>1. Member(d, room_id, sender)
      BY <1>2, TransactionTables DEF create_room_message
    <3>2. PICK message :
            message = [id |-> d.next_message, room_id |-> room_id, sender |-> sender]
      OBVIOUS
    <3>3. d2 = [d1 EXCEPT !.messages = @ \cup {message}]
      BY <1>2, <2>1, <2>2, <3>1, <3>2, TransactionTables, FailsTables
         DEF create_room_message
    <3> QED
      BY <3>1, <3>2, <3>3
  <2>4. /\ SameUsersAndFriends(d, d1)
        /\ d1.rooms = d.rooms /\ d1.room_members = d.room_members
        /\ d1.messages = d.messages /\ d1.next_room = d.next_room
        /\ TablesRecord(d1)
    BY <2>2 DEF DrawMessageId, Consistent, TablesRecord, SameUsersAndFriends
  <2>5. /\ SameUsersAndFriends(d, d2)
        /\ d2.rooms = d.rooms
        /\ d2.room_members = d.room_members
        /\ d2.messages = d.messages \cup {message}
        /\ d2.next_room = d.next_room
        /\ TablesRecord(d2)
    BY <2>3, <2>4 DEF TablesRecord, SameUsersAndFriends
  <2>6. /\ message.room_id \in DOMAIN d.rooms
        /\ message.sender \in DOMAIN d.users
    BY <2>3 DEF Consistent, RoomRows, Member
  <2>7. RoomRows(d2)
    BY <2>5, <2>6 DEF Consistent, RoomRows, SameUsersAndFriends
  <2> QED
    BY <2>1, <2>5, <2>7, OtherRoomRows
<1> QED
  BY <1>1, <1>2

-----------------------------------------------------------------------------
(* The specification.                                                      *)

LEMMA InitConsistent == Init => Consistent(db)
  BY DEF Init, EmptyTables, NoRows, Consistent, TablesRecord, RoomRows, FriendRows

\* The operations that only read leave the tables as they are.
LEMMA ReadsChangeNothing ==
  ASSUME Login \/ ListFriends \/ ListFriendRequests \/ ListRooms \/ ListRoomMessages
  PROVE  db' = db
<1>1. CASE Login
  BY <1>1, TransactionTables DEF Login, Do, login
<1>2. CASE ListFriends
  BY <1>2, TransactionTables DEF ListFriends, Do, list_friends
<1>3. CASE ListFriendRequests
  BY <1>3, TransactionTables DEF ListFriendRequests, Do, list_friend_requests
<1>4. CASE ListRooms
  BY <1>4, TransactionTables DEF ListRooms, Do, list_rooms
<1>5. CASE ListRoomMessages
  BY <1>5, TransactionTables DEF ListRoomMessages, Do, list_room_messages
<1> QED
  BY <1>1, <1>2, <1>3, <1>4, <1>5

LEMMA NextConsistent ==
  ASSUME Consistent(db), [Next]_vars
  PROVE  Consistent(db)'
<1> SUFFICES Consistent(db')
  BY DEF Consistent, TablesRecord, RoomRows, FriendRows, Status
<1>1. CASE Signup
  BY <1>1, SignupConsistent DEF Signup, Do
<1>2. CASE ChangeNickname
  BY <1>2, ChangeNicknameConsistent DEF ChangeNickname, Do
<1>3. CASE RemoveFriend
  BY <1>3, RemoveFriendConsistent DEF RemoveFriend, Do
<1>4. CASE RequestFriend
  BY <1>4, RequestFriendConsistent DEF RequestFriend, Do
<1>5. CASE AcceptFriendRequest
  BY <1>5, AcceptConsistent DEF AcceptFriendRequest, Do
<1>6. CASE RejectFriendRequest
  BY <1>6, RejectConsistent DEF RejectFriendRequest, Do
<1>7. CASE CreateRoom
  BY <1>7, CreateRoomConsistent DEF CreateRoom, Do
<1>8. CASE DeleteRoom
  BY <1>8, DeleteRoomConsistent DEF DeleteRoom, Do
<1>9. CASE InviteRoom
  BY <1>9, InviteRoomConsistent DEF InviteRoom, Do
<1>10. CASE LeaveRoom
  BY <1>10, LeaveRoomConsistent DEF LeaveRoom, Do
<1>11. CASE CreateRoomMessage
  BY <1>11, CreateRoomMessageConsistent DEF CreateRoomMessage, Do
<1>12. CASE Login \/ ListFriends \/ ListFriendRequests \/ ListRooms \/ ListRoomMessages
  BY <1>12, ReadsChangeNothing
<1>13. CASE UNCHANGED vars
  BY <1>13 DEF vars
<1> QED
  BY <1>1, <1>2, <1>3, <1>4, <1>5, <1>6, <1>7, <1>8, <1>9, <1>10, <1>11, <1>12,
     <1>13 DEF Next

\* Consistency of the tables, for any number of users, rooms and messages:
\* no dangling reference (ReferencesHold), owners are members
\* (OwnerIsMember) and friendship is by consent (FriendsByConsent), even when
\* commits are in doubt.
THEOREM TablesConsistent ==
  Spec => [](ReferencesHold /\ OwnerIsMember /\ FriendsByConsent)
<1>1. Init => Consistent(db)
  BY InitConsistent
<1>2. Consistent(db) /\ [Next]_vars => Consistent(db)'
  BY NextConsistent
<1>3. Consistent(db) => ReferencesHold /\ OwnerIsMember /\ FriendsByConsent
  BY DEF Consistent, RoomRows, FriendRows, ReferencesHold, OwnerIsMember,
         FriendsByConsent, Member, Friends
<1> QED
  BY <1>1, <1>2, <1>3, PTL DEF Spec

\* Two users are friends only when one asked and the other accepted, whatever
\* else they and others do (accept_friend_request(), remove_friend()).
THEOREM FriendsConsent == Spec => []FriendsByConsent
  BY TablesConsistent, PTL

\* The owner of a room stays a member as long as there is the room
\* (create_room(), leave_room(), delete_room()).
THEOREM OwnersStay == Spec => []OwnerIsMember
  BY TablesConsistent, PTL

-----------------------------------------------------------------------------
(* What one operation may do to the rooms and their members.               *)

\* The sequence never goes back; rooms that appear take ids from it; members
\* that appear own a new room or have a friend in an old one.
RoomStep(d, d2) ==
  /\ d2.next_room \in {d.next_room, d.next_room + 1}
  /\ \A r \in DOMAIN d2.rooms : r \in DOMAIN d.rooms \/ r >= d.next_room
  /\ \A r, u : Member(d2, r, u) /\ ~Member(d, r, u) =>
       \/ r \notin DOMAIN d.rooms /\ d2.rooms[r] = u
       \/ \E v \in Users : Member(d, r, v) /\ Friends(d, u, v)

LEMMA FewerRooms ==
  ASSUME NEW d, NEW d2, DOMAIN d2.rooms \subseteq DOMAIN d.rooms,
         d2.room_members \subseteq d.room_members,
         d2.next_room \in {d.next_room, d.next_room + 1}
  PROVE  RoomStep(d, d2)
  BY DEF RoomStep, Member

LEMMA AccountsKeepRooms ==
  ASSUME NEW d, TablesRecord(d), NEW id, NEW pw, NEW nick,
         NEW o \in signup(d, id, pw) \cup change_nickname(d, id, nick)
  PROVE  RoomStep(d, o.db)
<1>1. /\ o.db.rooms = d.rooms /\ o.db.room_members = d.room_members
      /\ o.db.next_room = d.next_room
  <2>1. CASE o.db = d
    BY <2>1
  <2>2. CASE o.db = [d EXCEPT !.users = Put(@, id, [pw |-> pw, nickname |-> Guest])]
    BY <2>2 DEF TablesRecord
  <2>3. CASE o.db = [d EXCEPT !.users[id].nickname = nick]
    BY <2>3 DEF TablesRecord
  <2> QED
    BY <2>1, <2>2, <2>3, TransactionTables DEF signup, change_nickname
<1> QED
  BY <1>1, FewerRooms

LEMMA FriendsKeepRooms ==
  ASSUME NEW d, TablesRecord(d), NEW u, NEW v,
         NEW o \in remove_friend(d, u, v) \cup request_friend(d, u, v)
                    \cup accept_friend_request(d, u, v) \cup reject_friend_request(d, u, v)
  PROVE  RoomStep(d, o.db)
<1>1. /\ o.db.rooms = d.rooms /\ o.db.room_members = d.room_members
      /\ o.db.next_room = d.next_room
  <2>1. CASE o.db = d
    BY <2>1
  <2>2. CASE o.db = [d EXCEPT !.friendships = @ \ {{u, v}}]
    BY <2>2 DEF TablesRecord
  <2>3. ASSUME NEW status, o.db = SetStatus(d, u, v, status)
        PROVE  /\ o.db.rooms = d.rooms /\ o.db.room_members = d.room_members
               /\ o.db.next_room = d.next_room
    BY <2>3 DEF TablesRecord, SetStatus
  <2>4. CASE o.db = [SetStatus(d, u, v, "accepted") EXCEPT !.friendships = @ \cup {{u, v}}]
    BY <2>4 DEF TablesRecord, SetStatus
  <2>5. CASE o \in remove_friend(d, u, v)
    BY <2>1, <2>2, <2>5, TransactionTables DEF remove_friend
  <2>6. CASE o \in request_friend(d, u, v)
    BY <2>1, <2>3, <2>6, TransactionTables, FailsTables DEF request_friend
  <2>7. CASE o \in accept_friend_request(d, u, v)
    BY <2>1, <2>4, <2>7, TransactionTables DEF accept_friend_request
  <2>8. CASE o \in reject_friend_request(d, u, v)
    BY <2>1, <2>3, <2>8, TransactionTables DEF reject_friend_request
  <2> QED
    BY <2>5, <2>6, <2>7, <2>8
<1> QED
  BY <1>1, FewerRooms

LEMMA CreateRoomStep ==
  ASSUME NEW d, Consistent(d), NEW owner, NEW o \in create_room(d, owner)
  PROVE  RoomStep(d, o.db)
<1> DEFINE d1 == DrawRoomId(d)
<1>1. /\ d1.rooms = d.rooms /\ d1.room_members = d.room_members /\ TablesRecord(d1)
      /\ d1.next_room = d.next_room + 1
  BY DEF DrawRoomId, Consistent, TablesRecord
<1> HIDE DEF d1
<1>2. CASE o.db = d \/ o.db = d1
  BY <1>1, <1>2, FewerRooms
<1>3. CASE o.db = [d1 EXCEPT !.rooms = Put(@, d.next_room, owner),
                             !.room_members = @ \cup {<<d.next_room, owner>>}]
  <2>1. PICK d2 : d2 = o.db
    OBVIOUS
  <2>2. /\ d2.rooms = Put(d.rooms, d.next_room, owner)
        /\ d2.room_members = d.room_members \cup {<<d.next_room, owner>>}
        /\ d2.next_room = d.next_room + 1
    BY <1>1, <1>3, <2>1 DEF TablesRecord
  <2>3. /\ DOMAIN d2.rooms = DOMAIN d.rooms \cup {d.next_room}
        /\ d2.rooms[d.next_room] = owner
    BY <2>2 DEF Put
  <2>4. d.next_room \in Nat /\ d.next_room \notin DOMAIN d.rooms
    BY DEF Consistent, RoomRows
  <2>5. RoomStep(d, d2)
    BY <2>2, <2>3, <2>4 DEF RoomStep, Member
  <2> QED
    BY <2>1, <2>5
<1> QED
  BY <1>2, <1>3, TransactionTables, FailsTables DEF create_room, d1

LEMMA RoomsShrink ==
  ASSUME NEW d, TablesRecord(d), NEW user_id, NEW room_id,
         NEW o \in delete_room(d, user_id, room_id) \cup leave_room(d, user_id, room_id)
  PROVE  RoomStep(d, o.db)
<1>1. /\ DOMAIN o.db.rooms \subseteq DOMAIN d.rooms
      /\ o.db.room_members \subseteq d.room_members
      /\ o.db.next_room = d.next_room
  <2>1. CASE o.db = d
    BY <2>1
  <2>2. CASE o.db = [d EXCEPT
                       !.rooms = [r \in DOMAIN @ \ {room_id} |-> @[r]],
                       !.room_members = {m \in @ : m[1] # room_id},
                       !.messages = {m \in @ : m.room_id # room_id}]
    <3>1. /\ o.db.rooms = [r \in DOMAIN d.rooms \ {room_id} |-> d.rooms[r]]
          /\ o.db.room_members = {m \in d.room_members : m[1] # room_id}
          /\ o.db.next_room = d.next_room
      BY <2>2 DEF TablesRecord
    <3> QED
      BY <3>1
  <2>3. CASE o.db = [d EXCEPT !.room_members = @ \ {<<room_id, user_id>>}]
    BY <2>3 DEF TablesRecord
  <2>4. CASE o \in delete_room(d, user_id, room_id)
    BY <2>1, <2>2, <2>4, TransactionTables DEF delete_room
  <2>5. CASE o \in leave_room(d, user_id, room_id)
    BY <2>1, <2>3, <2>5, TransactionTables DEF leave_room
  <2> QED
    BY <2>4, <2>5
<1> QED
  BY <1>1, FewerRooms

LEMMA InviteRoomStep ==
  ASSUME NEW d, TablesRecord(d), NEW inviter \in Users, NEW room_id, NEW friend,
         NEW o \in invite_room(d, inviter, room_id, friend)
  PROVE  RoomStep(d, o.db)
<1>1. CASE o.db = d
  BY <1>1, FewerRooms
<1>2. CASE /\ Member(d, room_id, inviter) /\ Friends(d, inviter, friend)
           /\ o.db = [d EXCEPT !.room_members = @ \cup {<<room_id, friend>>}]
  <2>1. /\ o.db.rooms = d.rooms
        /\ o.db.room_members = d.room_members \cup {<<room_id, friend>>}
        /\ o.db.next_room = d.next_room
    BY <1>2 DEF TablesRecord
  <2>2. Friends(d, friend, inviter)
    <3>1. {inviter, friend} = {friend, inviter}
      OBVIOUS
    <3> QED
      BY <1>2, <3>1 DEF Friends
  <2> QED
    BY <1>2, <2>1, <2>2 DEF RoomStep, Member
<1> QED
  BY <1>1, <1>2, TransactionTables DEF invite_room

LEMMA MessagesKeepRooms ==
  ASSUME NEW d, TablesRecord(d), NEW room_id, NEW sender,
         NEW o \in create_room_message(d, room_id, sender)
  PROVE  RoomStep(d, o.db)
<1> DEFINE d1 == DrawMessageId(d)
           message == [id |-> d.next_message, room_id |-> room_id, sender |-> sender]
<1>1. /\ d1.rooms = d.rooms /\ d1.room_members = d.room_members /\ TablesRecord(d1)
      /\ d1.next_room = d.next_room
  BY DEF DrawMessageId, TablesRecord
<1> HIDE DEF d1, message
<1>2. CASE o.db = d \/ o.db = d1
  BY <1>1, <1>2, FewerRooms
<1>3. CASE o.db = [d1 EXCEPT !.messages = @ \cup {message}]
  <2>1. /\ o.db.rooms = d.rooms /\ o.db.room_members = d.room_members
        /\ o.db.next_room = d.next_room
    BY <1>1, <1>3 DEF TablesRecord
  <2> QED
    BY <2>1, FewerRooms
<1> QED
  BY <1>2, <1>3, TransactionTables, FailsTables DEF create_room_message, d1, message

LEMMA NextRoomStep ==
  ASSUME Consistent(db), Next
  PROVE  RoomStep(db, db')
<1>0. TablesRecord(db)
  BY DEF Consistent
<1>1. CASE Signup \/ ChangeNickname
  BY <1>0, <1>1, AccountsKeepRooms DEF Signup, ChangeNickname, Do
<1>2. CASE RemoveFriend \/ RequestFriend \/ AcceptFriendRequest \/ RejectFriendRequest
  BY <1>0, <1>2, FriendsKeepRooms
     DEF RemoveFriend, RequestFriend, AcceptFriendRequest, RejectFriendRequest, Do
<1>3. CASE CreateRoom
  BY <1>3, CreateRoomStep DEF CreateRoom, Do
<1>4. CASE DeleteRoom \/ LeaveRoom
  BY <1>0, <1>4, RoomsShrink DEF DeleteRoom, LeaveRoom, Do
<1>5. CASE InviteRoom
  BY <1>0, <1>5, InviteRoomStep DEF InviteRoom, Do
<1>6. CASE CreateRoomMessage
  BY <1>0, <1>6, MessagesKeepRooms DEF CreateRoomMessage, Do
<1>7. CASE Login \/ ListFriends \/ ListFriendRequests \/ ListRooms \/ ListRoomMessages
  BY <1>7, ReadsChangeNothing, FewerRooms
<1> QED
  BY <1>1, <1>2, <1>3, <1>4, <1>5, <1>6, <1>7 DEF Next

\* What Do() records in every operation.
LEMMA NextGivesUp ==
  ASSUME Next
  PROVE  given_up' = given_up \cup (DOMAIN db.rooms \ DOMAIN db'.rooms)
  BY DEF Next, Do, Signup, Login, ChangeNickname, RemoveFriend, ListFriends,
         RequestFriend, AcceptFriendRequest, RejectFriendRequest, ListFriendRequests,
         CreateRoom, DeleteRoom, InviteRoom, LeaveRoom, ListRooms,
         CreateRoomMessage, ListRoomMessages

\* Ids that were given up are behind the sequence for good.
GivenUp ==
  /\ given_up \cap DOMAIN db.rooms = {}
  /\ \A r \in given_up : r \in Nat /\ r < db.next_room

LEMMA NextGivenUp ==
  ASSUME Consistent(db), GivenUp, [Next]_vars
  PROVE  GivenUp'
<1>1. CASE Next
  <2>1. given_up' = given_up \cup (DOMAIN db.rooms \ DOMAIN db'.rooms)
    BY <1>1, NextGivesUp
  <2>2. RoomStep(db, db')
    BY <1>1, NextRoomStep
  <2>3. /\ db.next_room \in Nat
        /\ \A r \in DOMAIN db.rooms : r \in Nat /\ r < db.next_room
    BY DEF Consistent, RoomRows
  <2>4. \A r \in given_up' : r \in Nat /\ r < db.next_room
    BY <2>1, <2>3 DEF GivenUp
  <2>5. \A r \in given_up' : r < db'.next_room
    BY <2>2, <2>3, <2>4 DEF RoomStep
  <2>6. \A r \in given_up' : r \notin DOMAIN db'.rooms
    BY <2>1, <2>2, <2>3, <2>4 DEF RoomStep, GivenUp
  <2> QED
    BY <2>4, <2>5, <2>6 DEF GivenUp
<1>2. CASE UNCHANGED vars
  BY <1>2 DEF vars, GivenUp
<1> QED
  BY <1>1, <1>2

\* The id of a deleted room never names a room again, whatever is created and
\* deleted later and however transactions fail in between: the online index
\* keeps members under it (create_room(), delete_room()).  The argument: the
\* sequence never goes back, rooms are named from it, and what was given up
\* stays behind it.
THEOREM NoRoomInheritsAnId == Spec => []RoomIdsNotReused
<1>1. Init => Consistent(db) /\ GivenUp
  BY InitConsistent DEF Init, GivenUp
<1>2. Consistent(db) /\ GivenUp /\ [Next]_vars => (Consistent(db) /\ GivenUp)'
  BY NextConsistent, NextGivenUp
<1>3. GivenUp => RoomIdsNotReused
  BY DEF GivenUp, RoomIdsNotReused
<1> QED
  BY <1>1, <1>2, <1>3, PTL DEF Spec

\* Nobody gets into a room but as its owner, with the step that creates it, or
\* as a friend of somebody who is a member when the invitation is made
\* (invite_room(), create_room()).
THEOREM NobodyComesUninvited == Spec => MembersAreInvited
<1>1. Consistent(db) /\ [Next]_vars =>
        [\A r \in 1..MaxRooms, u \in Users :
           Member(db', r, u) /\ ~Member(db, r, u) =>
             \/ r \notin DOMAIN db.rooms /\ db'.rooms[r] = u
             \/ \E v \in Users : Member(db, r, v) /\ Friends(db, u, v)]_vars
  BY NextRoomStep DEF RoomStep
<1> QED
  BY InitConsistent, NextConsistent, <1>1, PTL DEF Spec, MembersAreInvited

-----------------------------------------------------------------------------
(* The columns.                                                            *)

UserTypes(d) ==
  /\ DOMAIN d.users \subseteq Users
  /\ d.users \in [DOMAIN d.users -> [pw : Passwords, nickname : Nicks]]

FriendTypes(d) ==
  /\ \A pair \in d.friendships : \E a, b \in Users : a # b /\ pair = {a, b}
  /\ DOMAIN d.friend_requests \subseteq {k \in Users \X Users : k[1] # k[2]}
  /\ d.friend_requests \in [DOMAIN d.friend_requests -> Statuses]

RoomTypes(d) ==
  /\ d.next_room \in 1..(MaxRooms + 1)
  /\ DOMAIN d.rooms \subseteq 1..(d.next_room - 1)
  /\ d.rooms \in [DOMAIN d.rooms -> Users]
  /\ d.room_members \subseteq (1..MaxRooms) \X Users
  /\ d.next_message \in 1..(MaxMessages + 1)
  /\ d.messages \subseteq [id : 1..MaxMessages, room_id : 1..MaxRooms, sender : Users]

Typed(d) == TablesRecord(d) /\ UserTypes(d) /\ FriendTypes(d) /\ RoomTypes(d)

SameUsers(d, d2) == d2.users = d.users
SameFriends(d, d2) ==
  d2.friendships = d.friendships /\ d2.friend_requests = d.friend_requests
SameRooms(d, d2) ==
  /\ d2.rooms = d.rooms /\ d2.room_members = d.room_members /\ d2.messages = d.messages
  /\ d2.next_room = d.next_room /\ d2.next_message = d.next_message

LEMMA SameIsTyped ==
  ASSUME NEW d, Typed(d), NEW d2
  PROVE  /\ SameUsers(d, d2) => UserTypes(d2)
         /\ SameFriends(d, d2) => FriendTypes(d2)
         /\ SameRooms(d, d2) => RoomTypes(d2)
  BY DEF Typed, SameUsers, SameFriends, SameRooms, UserTypes, FriendTypes, RoomTypes

LEMMA PutTyped ==
  ASSUME NEW Rows, NEW table, NEW key, NEW row \in Rows, table \in [DOMAIN table -> Rows]
  PROVE  /\ DOMAIN Put(table, key, row) = DOMAIN table \cup {key}
         /\ Put(table, key, row) \in [DOMAIN Put(table, key, row) -> Rows]
  BY DEF Put

LEMMA SignupTyped ==
  ASSUME NEW d, Typed(d), NEW id \in Users, NEW pw \in Passwords,
         NEW o \in signup(d, id, pw)
  PROVE  Typed(o.db)
<1>1. CASE o.db = d
  BY <1>1
<1>2. CASE o.db = [d EXCEPT !.users = Put(@, id, [pw |-> pw, nickname |-> Guest])]
  <2>1. PICK d2 : d2 = o.db
    OBVIOUS
  <2>2. /\ d2.users = Put(d.users, id, [pw |-> pw, nickname |-> Guest])
        /\ SameFriends(d, d2) /\ SameRooms(d, d2) /\ TablesRecord(d2)
    BY <1>2, <2>1 DEF Typed, TablesRecord, SameFriends, SameRooms
  <2>3. PICK row : row = [pw |-> pw, nickname |-> Guest]
    OBVIOUS
  <2>4. PICK Rows : Rows = [pw : Passwords, nickname : Nicks]
    OBVIOUS
  <2>5. row \in Rows /\ d.users \in [DOMAIN d.users -> Rows]
    BY <2>3, <2>4, DbAssumption DEF Typed, UserTypes
  <2>6. /\ DOMAIN Put(d.users, id, row) = DOMAIN d.users \cup {id}
        /\ Put(d.users, id, row) \in [DOMAIN Put(d.users, id, row) -> Rows]
    BY <2>5, PutTyped, Zenon
  <2>7. DOMAIN d2.users \subseteq Users /\ d2.users \in [DOMAIN d2.users -> Rows]
    BY <2>2, <2>3, <2>6 DEF Typed, UserTypes
  <2>8. UserTypes(d2)
    BY <2>4, <2>7 DEF UserTypes
  <2> QED
    BY <2>1, <2>2, <2>8, SameIsTyped DEF Typed
<1> QED
  BY <1>1, <1>2, TransactionTables DEF signup

LEMMA NicknamesTyped ==
  ASSUME NEW d, Typed(d), NEW id \in Users, NEW nick \in Nicks,
         NEW o \in change_nickname(d, id, nick)
  PROVE  Typed(o.db)
<1>1. CASE o.db = d
  BY <1>1
<1>2. CASE id \in DOMAIN d.users /\ o.db = [d EXCEPT !.users[id].nickname = nick]
  <2>1. PICK d2 : d2 = o.db
    OBVIOUS
  <2>2. /\ d2.users = [d.users EXCEPT ![id].nickname = nick]
        /\ SameFriends(d, d2) /\ SameRooms(d, d2) /\ TablesRecord(d2)
    BY <1>2, <2>1 DEF Typed, TablesRecord, SameFriends, SameRooms
  <2>3. UserTypes(d2)
    BY <1>2, <2>2 DEF Typed, UserTypes
  <2> QED
    BY <2>1, <2>2, <2>3, SameIsTyped DEF Typed
<1> QED
  BY <1>1, <1>2, TransactionTables DEF change_nickname

LEMMA SetStatusTyped ==
  ASSUME NEW d, Typed(d), NEW u \in Users, NEW v \in Users, u # v, NEW status \in Statuses
  PROVE  /\ Typed(SetStatus(d, u, v, status))
         /\ SetStatus(d, u, v, status).friendships = d.friendships
<1>1. PICK d2 : d2 = SetStatus(d, u, v, status)
  OBVIOUS
<1>2. /\ d2.friend_requests = Put(d.friend_requests, <<u, v>>, status)
      /\ d2.friendships = d.friendships
      /\ SameUsers(d, d2) /\ SameRooms(d, d2) /\ TablesRecord(d2)
  BY <1>1 DEF SetStatus, Typed, TablesRecord, SameUsers, SameRooms
<1>3. /\ DOMAIN d2.friend_requests = DOMAIN d.friend_requests \cup {<<u, v>>}
      /\ d2.friend_requests \in [DOMAIN d2.friend_requests -> Statuses]
  <2>1. d.friend_requests \in [DOMAIN d.friend_requests -> Statuses]
    BY DEF Typed, FriendTypes
  <2>2. PICK requests : requests = Put(d.friend_requests, <<u, v>>, status)
    OBVIOUS
  <2>3. /\ DOMAIN Put(d.friend_requests, <<u, v>>, status)
             = DOMAIN d.friend_requests \cup {<<u, v>>}
        /\ Put(d.friend_requests, <<u, v>>, status)
             \in [DOMAIN Put(d.friend_requests, <<u, v>>, status) -> Statuses]
    BY <2>1, PutTyped, Zenon
  <2> QED
    BY <1>2, <2>2, <2>3
<1>4. FriendTypes(d2)
  BY <1>2, <1>3 DEF Typed, FriendTypes
<1> QED
  BY <1>1, <1>2, <1>4, SameIsTyped DEF Typed

LEMMA FriendshipsTyped ==
  ASSUME NEW d, Typed(d), NEW fs,
         \A pair \in fs : \E a, b \in Users : a # b /\ pair = {a, b}
  PROVE  Typed([d EXCEPT !.friendships = fs])
<1>1. PICK d2 : d2 = [d EXCEPT !.friendships = fs]
  OBVIOUS
<1>2. /\ d2.friendships = fs /\ d2.friend_requests = d.friend_requests
      /\ SameUsers(d, d2) /\ SameRooms(d, d2) /\ TablesRecord(d2)
  BY <1>1 DEF Typed, TablesRecord, SameUsers, SameRooms
<1>3. FriendTypes(d2)
  BY <1>2 DEF Typed, FriendTypes
<1> QED
  BY <1>1, <1>2, <1>3, SameIsTyped DEF Typed

LEMMA PendingIsBetweenTwo ==
  ASSUME NEW d, Typed(d), NEW u, NEW v, Status(d, u, v) = "pending"
  PROVE  u # v
  BY DEF Typed, FriendTypes, Status

LEMMA FriendsTyped ==
  ASSUME NEW d, Typed(d), NEW u \in Users, NEW v \in Users,
         NEW o \in remove_friend(d, u, v) \cup request_friend(d, u, v)
                    \cup accept_friend_request(d, u, v) \cup reject_friend_request(d, u, v)
  PROVE  Typed(o.db)
<1>1. CASE o.db = d
  BY <1>1
<1>2. CASE o.db = [d EXCEPT !.friendships = @ \ {{u, v}}]
  <2>1. o.db = [d EXCEPT !.friendships = d.friendships \ {{u, v}}]
    BY <1>2 DEF Typed, TablesRecord
  <2>2. \A pair \in d.friendships \ {{u, v}} : \E a, b \in Users : a # b /\ pair = {a, b}
    BY DEF Typed, FriendTypes
  <2>3. PICK fs : fs = d.friendships \ {{u, v}}
    OBVIOUS
  <2>4. Typed([d EXCEPT !.friendships = fs])
    BY <2>2, <2>3, FriendshipsTyped, Zenon
  <2> QED
    BY <2>1, <2>3, <2>4
<1>3. ASSUME NEW status \in Statuses, u # v, o.db = SetStatus(d, u, v, status)
      PROVE  Typed(o.db)
  BY <1>3, SetStatusTyped
<1>4. CASE /\ u # v
           /\ o.db = [SetStatus(d, u, v, "accepted") EXCEPT !.friendships = @ \cup {{u, v}}]
  <2>1. PICK d1 : d1 = SetStatus(d, u, v, "accepted")
    OBVIOUS
  <2>2. Typed(d1) /\ d1.friendships = d.friendships
    BY <1>4, <2>1, SetStatusTyped DEF Statuses
  <2>3. o.db = [d1 EXCEPT !.friendships = d.friendships \cup {{u, v}}]
    BY <1>4, <2>1, <2>2
  <2>4. \A pair \in d.friendships \cup {{u, v}} : \E a, b \in Users : a # b /\ pair = {a, b}
    BY <1>4 DEF Typed, FriendTypes
  <2>5. PICK fs : fs = d.friendships \cup {{u, v}}
    OBVIOUS
  <2>6. Typed([d1 EXCEPT !.friendships = fs])
    BY <2>2, <2>4, <2>5, FriendshipsTyped, Zenon
  <2> QED
    BY <2>3, <2>5, <2>6
<1>5. CASE o \in remove_friend(d, u, v)
  BY <1>1, <1>2, <1>5, TransactionTables DEF remove_friend
<1>6. CASE o \in request_friend(d, u, v)
  BY <1>1, <1>3, <1>6, TransactionTables, FailsTables DEF request_friend, Statuses
<1>7. CASE o \in accept_friend_request(d, u, v)
  BY <1>1, <1>4, <1>7, TransactionTables, PendingIsBetweenTwo DEF accept_friend_request
<1>8. CASE o \in reject_friend_request(d, u, v)
  BY <1>1, <1>3, <1>8, TransactionTables, PendingIsBetweenTwo DEF reject_friend_request, Statuses
<1> QED
  BY <1>5, <1>6, <1>7, <1>8

\* Tables that differ in rooms, members, messages and the sequences only.
LEMMA RoomsTyped ==
  ASSUME NEW d, Typed(d), NEW d2, TablesRecord(d2), SameUsers(d, d2), SameFriends(d, d2),
         RoomTypes(d2)
  PROVE  Typed(d2)
  BY SameIsTyped DEF Typed

LEMMA CreateRoomTyped ==
  ASSUME NEW d, Typed(d), d.next_room <= MaxRooms, NEW owner \in Users,
         NEW o \in create_room(d, owner)
  PROVE  Typed(o.db)
<1>1. PICK d1 : d1 = DrawRoomId(d)
  OBVIOUS
<1>2. /\ SameUsers(d, d1) /\ SameFriends(d, d1) /\ TablesRecord(d1)
      /\ d1.rooms = d.rooms /\ d1.room_members = d.room_members /\ d1.messages = d.messages
      /\ d1.next_room = d.next_room + 1 /\ d1.next_message = d.next_message
  BY <1>1 DEF DrawRoomId, Typed, TablesRecord, SameUsers, SameFriends
<1>3. /\ d.next_room \in 1..MaxRooms /\ d1.next_room \in 1..(MaxRooms + 1)
      /\ 1..(d.next_room - 1) \subseteq 1..(d1.next_room - 1)
      /\ d.next_room \in 1..(d1.next_room - 1)
  BY <1>2, DbAssumption DEF Typed, RoomTypes
<1>4. Typed(d1)
  <2>1. RoomTypes(d1)
    BY <1>2, <1>3 DEF Typed, RoomTypes
  <2> QED
    BY <1>2, <2>1, RoomsTyped
<1>5. CASE o.db = [d1 EXCEPT !.rooms = Put(@, d.next_room, owner),
                             !.room_members = @ \cup {<<d.next_room, owner>>}]
  <2>1. PICK d2 : d2 = o.db
    OBVIOUS
  <2>2. /\ SameUsers(d1, d2) /\ SameFriends(d1, d2) /\ TablesRecord(d2)
        /\ d2.rooms = Put(d.rooms, d.next_room, owner)
        /\ d2.room_members = d.room_members \cup {<<d.next_room, owner>>}
        /\ d2.messages = d1.messages
        /\ d2.next_room = d1.next_room /\ d2.next_message = d1.next_message
    BY <1>2, <1>5, <2>1 DEF TablesRecord, SameUsers, SameFriends
  <2>3. /\ DOMAIN d2.rooms = DOMAIN d.rooms \cup {d.next_room}
        /\ d2.rooms \in [DOMAIN d2.rooms -> Users]
    <3>1. d.rooms \in [DOMAIN d.rooms -> Users]
      BY DEF Typed, RoomTypes
    <3>2. PICK rooms : rooms = Put(d.rooms, d.next_room, owner)
      OBVIOUS
    <3>3. /\ DOMAIN Put(d.rooms, d.next_room, owner) = DOMAIN d.rooms \cup {d.next_room}
          /\ Put(d.rooms, d.next_room, owner)
               \in [DOMAIN Put(d.rooms, d.next_room, owner) -> Users]
      BY <3>1, PutTyped, Zenon
    <3> QED
      BY <2>2, <3>2, <3>3
  <2>4. <<d.next_room, owner>> \in (1..MaxRooms) \X Users
    BY <1>3
  <2>5. RoomTypes(d2)
    BY <1>2, <1>3, <1>4, <2>2, <2>3, <2>4 DEF Typed, RoomTypes
  <2> QED
    BY <1>4, <2>1, <2>2, <2>5, RoomsTyped
<1> QED
  BY <1>1, <1>4, <1>5, TransactionTables, FailsTables DEF create_room

LEMMA RoomsShrinkTyped ==
  ASSUME NEW d, Typed(d), NEW user_id, NEW room_id,
         NEW o \in delete_room(d, user_id, room_id) \cup leave_room(d, user_id, room_id)
  PROVE  Typed(o.db)
<1>1. CASE o.db = d
  BY <1>1
<1>2. CASE o.db = [d EXCEPT
                     !.rooms = [r \in DOMAIN @ \ {room_id} |-> @[r]],
                     !.room_members = {m \in @ : m[1] # room_id},
                     !.messages = {m \in @ : m.room_id # room_id}]
  <2>1. PICK d2 : d2 = o.db
    OBVIOUS
  <2>2. /\ SameUsers(d, d2) /\ SameFriends(d, d2) /\ TablesRecord(d2)
        /\ d2.rooms = [r \in DOMAIN d.rooms \ {room_id} |-> d.rooms[r]]
        /\ d2.room_members = {m \in d.room_members : m[1] # room_id}
        /\ d2.messages = {m \in d.messages : m.room_id # room_id}
        /\ d2.next_room = d.next_room /\ d2.next_message = d.next_message
    BY <1>2, <2>1 DEF Typed, TablesRecord, SameUsers, SameFriends
  <2>3. /\ DOMAIN d2.rooms = DOMAIN d.rooms \ {room_id}
        /\ d2.rooms \in [DOMAIN d2.rooms -> Users]
        /\ d2.room_members \subseteq d.room_members /\ d2.messages \subseteq d.messages
    BY <2>2 DEF Typed, RoomTypes
  <2>4. RoomTypes(d2)
    BY <2>2, <2>3 DEF Typed, RoomTypes
  <2> QED
    BY <2>1, <2>2, <2>4, RoomsTyped
<1>3. CASE o.db = [d EXCEPT !.room_members = @ \ {<<room_id, user_id>>}]
  <2>1. PICK d2 : d2 = o.db
    OBVIOUS
  <2>2. /\ SameUsers(d, d2) /\ SameFriends(d, d2) /\ TablesRecord(d2)
        /\ d2.rooms = d.rooms /\ d2.messages = d.messages
        /\ d2.room_members \subseteq d.room_members
        /\ d2.next_room = d.next_room /\ d2.next_message = d.next_message
    BY <1>3, <2>1 DEF Typed, TablesRecord, SameUsers, SameFriends
  <2>3. RoomTypes(d2)
    BY <2>2 DEF Typed, RoomTypes
  <2> QED
    BY <2>1, <2>2, <2>3, RoomsTyped
<1>4. CASE o \in delete_room(d, user_id, room_id)
  BY <1>1, <1>2, <1>4, TransactionTables DEF delete_room
<1>5. CASE o \in leave_room(d, user_id, room_id)
  BY <1>1, <1>3, <1>5, TransactionTables DEF leave_room
<1> QED
  BY <1>4, <1>5

LEMMA InviteRoomTyped ==
  ASSUME NEW d, Typed(d), NEW u, NEW room_id \in 1..MaxRooms, NEW friend \in Users,
         NEW o \in invite_room(d, u, room_id, friend)
  PROVE  Typed(o.db)
<1>1. CASE o.db = d
  BY <1>1
<1>2. CASE o.db = [d EXCEPT !.room_members = @ \cup {<<room_id, friend>>}]
  <2>1. PICK d2 : d2 = o.db
    OBVIOUS
  <2>2. /\ SameUsers(d, d2) /\ SameFriends(d, d2) /\ TablesRecord(d2)
        /\ d2.rooms = d.rooms /\ d2.messages = d.messages
        /\ d2.room_members = d.room_members \cup {<<room_id, friend>>}
        /\ d2.next_room = d.next_room /\ d2.next_message = d.next_message
    BY <1>2, <2>1 DEF Typed, TablesRecord, SameUsers, SameFriends
  <2>3. RoomTypes(d2)
    BY <2>2 DEF Typed, RoomTypes
  <2> QED
    BY <2>1, <2>2, <2>3, RoomsTyped
<1> QED
  BY <1>1, <1>2, TransactionTables DEF invite_room

LEMMA CreateRoomMessageTyped ==
  ASSUME NEW d, Typed(d), d.next_message <= MaxMessages,
         NEW room_id \in 1..MaxRooms, NEW sender \in Users,
         NEW o \in create_room_message(d, room_id, sender)
  PROVE  Typed(o.db)
<1>1. PICK d1 : d1 = DrawMessageId(d)
  OBVIOUS
<1>2. /\ SameUsers(d, d1) /\ SameFriends(d, d1) /\ TablesRecord(d1)
      /\ d1.rooms = d.rooms /\ d1.room_members = d.room_members /\ d1.messages = d.messages
      /\ d1.next_room = d.next_room /\ d1.next_message = d.next_message + 1
  BY <1>1 DEF DrawMessageId, Typed, TablesRecord, SameUsers, SameFriends
<1>3. d.next_message \in 1..MaxMessages /\ d1.next_message \in 1..(MaxMessages + 1)
  BY <1>2, DbAssumption DEF Typed, RoomTypes
<1>4. Typed(d1)
  <2>1. RoomTypes(d1)
    BY <1>2, <1>3 DEF Typed, RoomTypes
  <2> QED
    BY <1>2, <2>1, RoomsTyped
<1>5. PICK message :
        message = [id |-> d.next_message, room_id |-> room_id, sender |-> sender]
  OBVIOUS
<1>6. message \in [id : 1..MaxMessages, room_id : 1..MaxRooms, sender : Users]
  BY <1>3, <1>5
<1>7. CASE o.db = [d1 EXCEPT !.messages = @ \cup {message}]
  <2>1. PICK d2 : d2 = o.db
    OBVIOUS
  <2>2. /\ SameUsers(d1, d2) /\ SameFriends(d1, d2) /\ TablesRecord(d2)
        /\ d2.rooms = d1.rooms /\ d2.room_members = d1.room_members
        /\ d2.messages = d1.messages \cup {message}
        /\ d2.next_room = d1.next_room /\ d2.next_message = d1.next_message
    BY <1>2, <1>7, <2>1 DEF TablesRecord, SameUsers, SameFriends
  <2>3. RoomTypes(d2)
    BY <1>4, <1>6, <2>2 DEF Typed, RoomTypes
  <2> QED
    BY <1>4, <2>1, <2>2, <2>3, RoomsTyped
<1> QED
  BY <1>1, <1>4, <1>5, <1>7, TransactionTables, FailsTables DEF create_room_message

LEMMA NextTyped ==
  ASSUME Typed(db), [Next]_vars
  PROVE  Typed(db')
<1>1. CASE Signup
  BY <1>1, SignupTyped DEF Signup, Do
<1>2. CASE ChangeNickname
  BY <1>2, NicknamesTyped DEF ChangeNickname, Do
<1>3. CASE RemoveFriend \/ RequestFriend \/ AcceptFriendRequest \/ RejectFriendRequest
  BY <1>3, FriendsTyped
     DEF RemoveFriend, RequestFriend, AcceptFriendRequest, RejectFriendRequest, Do
<1>4. CASE CreateRoom
  BY <1>4, CreateRoomTyped DEF CreateRoom, Do
<1>5. CASE DeleteRoom \/ LeaveRoom
  BY <1>5, RoomsShrinkTyped DEF DeleteRoom, LeaveRoom, Do
<1>6. CASE InviteRoom
  BY <1>6, InviteRoomTyped DEF InviteRoom, Do
<1>7. CASE CreateRoomMessage
  BY <1>7, CreateRoomMessageTyped DEF CreateRoomMessage, Do
<1>8. CASE Login \/ ListFriends \/ ListFriendRequests \/ ListRooms \/ ListRoomMessages
  BY <1>8, ReadsChangeNothing
<1>9. CASE UNCHANGED vars
  BY <1>9 DEF vars
<1> QED
  BY <1>1, <1>2, <1>3, <1>4, <1>5, <1>6, <1>7, <1>8, <1>9 DEF Next

\* The tables keep to their columns and CHECK constraints: nobody befriends
\* himself and no row carries an id that the sequences have not drawn.
THEOREM TablesTyped == Spec => []TypeOK
<1>1. Init => Typed(db) /\ given_up \subseteq 1..MaxRooms
  BY DbAssumption DEF Init, EmptyTables, NoRows, Typed, TablesRecord, UserTypes, FriendTypes, RoomTypes
<1>2. Typed(db) /\ [Next]_vars => Typed(db)'
  <2> SUFFICES ASSUME Typed(db), [Next]_vars
               PROVE  Typed(db')
    BY DEF Typed, TablesRecord, UserTypes, FriendTypes, RoomTypes
  <2> QED
    BY NextTyped
<1>3. Typed(db) /\ given_up \subseteq 1..MaxRooms /\ [Next]_vars
        => (given_up \subseteq 1..MaxRooms)'
  <2> SUFFICES ASSUME Typed(db), given_up \subseteq 1..MaxRooms, [Next]_vars
               PROVE  given_up' \subseteq 1..MaxRooms
    OBVIOUS
  <2>1. DOMAIN db.rooms \subseteq 1..MaxRooms
    BY DbAssumption DEF Typed, RoomTypes
  <2>2. CASE Next
    BY <2>1, <2>2, NextGivesUp
  <2>3. CASE UNCHANGED vars
    BY <2>3 DEF vars
  <2> QED
    BY <2>2, <2>3
<1>4. Typed(db) /\ given_up \subseteq 1..MaxRooms => TypeOK
  BY DEF Typed, UserTypes, FriendTypes, RoomTypes, TypeOK
<1> QED
  BY <1>1, <1>2, <1>3, <1>4, PTL DEF Spec

=============================================================================
