-------------------------- MODULE ChatServerProofs --------------------------
(***************************************************************************)
(* Proofs about ChatServer, for any users, descriptors, script and bounds. *)
(*                                                                         *)
(* The commands that are pushed and those still to be pushed are taken as  *)
(* one sequence, Ahead: a push moves nothing in it, the worker adds at its *)
(* end, the acceptor and the loop's own handlers somewhere before todo,    *)
(* and the loop takes the first away.  The inductive invariant has four    *)
(* parts, each proved over the ones before it:                             *)
(*   Typed          types, tables as DbService keeps them, ids left;       *)
(*   Orderly        numbers grow along Ahead and on to tasks, for one      *)
(*                  asker;                                                 *)
(*   KnownSessions  the last identity set before "login success" is the    *)
(*                  one it speaks of;                                      *)
(*   Listed         what becomes of each session when Ahead is obeyed is   *)
(*                  foretold, and where it ends it is listed under the     *)
(*                  rooms of its user.                                     *)
(* The last is about the sessions in calm only: those that no failure of   *)
(* the database, no use of their descriptor again while something was under*)
(* way and no command behind an unanswered login has touched.              *)
(***************************************************************************)
EXTENDS ChatServer, TLAPS, FiniteSetTheorems, SequenceTheorems

-----------------------------------------------------------------------------
(* What the operations of db_service make of the tables.                   *)

JoinedRooms(d, u) == {r \in DOMAIN d.rooms : Db!Member(d, r, u)}

\* From d to d2 the memberships of u stay, but for a room u creates.
SameFor(d, d2, u) ==
  \A r \in DOMAIN d2.rooms :
    \/ /\ r \in DOMAIN d.rooms
       /\ d2.rooms[r] = d.rooms[r]
       /\ Db!Member(d2, r, u) <=> Db!Member(d, r, u)
    \/ /\ r = d.next_room
       /\ Db!Member(d2, r, u) <=> d2.rooms[r] = u

\* d2 can follow d, and its room ids are drawn one at a time.
Follows(d, d2) ==
  /\ Tables(d2)
  /\ d2.next_room \in {d.next_room, d.next_room + 1}

\* An operation that leaves everybody's memberships as they are.
Keeps(d, d2) == Follows(d, d2) /\ \A u : SameFor(d, d2, u)

LEMMA KeepsItself == ASSUME NEW d, Tables(d) PROVE Keeps(d, d)
  BY DEF Keeps, Follows, SameFor, Tables

\* The three outcomes of a transaction.
LEMMA TransactionOutcome ==
  ASSUME NEW d, NEW d2, NEW answer, NEW value,
         NEW o \in Db!Transaction(d, d2, answer, value)
  PROVE  /\ o.db \in {d, d2}
         /\ o.answer \in {answer, "error"}
         /\ ~Failed(o) => o = [db |-> d2, answer |-> answer, value |-> value]
  BY DEF Db!Transaction, Db!Outcome, Db!Fails, Failed, Db!Error

\* A call has one of the operation's outcomes, and a database that does not
\* fail does not fail it when it can succeed.
LEMMA CallOutcome ==
  ASSUME NEW outcomes, NEW o \in Call(outcomes)
  PROVE  /\ o \in outcomes
         /\ ~failing /\ (\E p \in outcomes : ~Failed(p)) => ~Failed(o)
  BY DEF Call, Failed

LEMMA SignupKeeps ==
  ASSUME NEW d, Tables(d), NEW id \in Users, NEW pw \in Passwords,
         NEW o \in Db!signup(d, id, pw)
  PROVE  Keeps(d, o.db)
<1> DEFINE row == [pw |-> pw, nickname |-> Guest]
           users == Db!Put(d.users, id, row)
           d2 == [d EXCEPT !.users = users]
<1>1. o.db = d \/ o.db = d2
  BY TransactionOutcome DEF Db!signup
<1>2. /\ DOMAIN users \subseteq Users
      /\ users \in [DOMAIN users -> [pw : Passwords, nickname : Nicks]]
  BY NamesAssumption DEF Db!Put, Tables
<1> HIDE DEF users
<1>3. Keeps(d, d2)
  <2>1. /\ DOMAIN d2 = DOMAIN d /\ d2.users = users
        /\ d2.rooms = d.rooms /\ d2.room_members = d.room_members
        /\ d2.messages = d.messages /\ d2.next_room = d.next_room
        /\ d2.friend_requests = d.friend_requests
    BY DEF Tables
  <2> HIDE DEF d2
  <2> QED
    BY <1>2, <2>1 DEF Keeps, Follows, SameFor, Tables, Db!Member
<1> QED
  BY <1>1, <1>3, KeepsItself

LEMMA ChangeNicknameKeeps ==
  ASSUME NEW d, Tables(d), NEW id, NEW n \in Nicks,
         NEW o \in Db!change_nickname(d, id, n)
  PROVE  Keeps(d, o.db)
<1> DEFINE users == [d.users EXCEPT ![id].nickname = n]
           d2 == [d EXCEPT !.users[id].nickname = n]
<1>1. o.db = d \/ (id \in DOMAIN d.users /\ o.db = d2)
  BY TransactionOutcome DEF Db!change_nickname
<1>2. ASSUME id \in DOMAIN d.users
      PROVE  /\ DOMAIN users \subseteq Users
             /\ users \in [DOMAIN users -> [pw : Passwords, nickname : Nicks]]
  BY <1>2 DEF Tables
<1>3. ASSUME id \in DOMAIN d.users PROVE Keeps(d, d2)
  <2>1. /\ DOMAIN d2 = DOMAIN d /\ d2.users = users
        /\ d2.rooms = d.rooms /\ d2.room_members = d.room_members
        /\ d2.messages = d.messages /\ d2.next_room = d.next_room
        /\ d2.friend_requests = d.friend_requests
    BY DEF Tables
  <2> HIDE DEF d2, users
  <2> QED
    BY <1>2, <1>3, <2>1 DEF Keeps, Follows, SameFor, Tables, Db!Member
<1> QED
  BY <1>1, <1>3, KeepsItself

\* Tables that differ from d in friendships and requests only.
LEMMA FriendTablesKeep ==
  ASSUME NEW d, Tables(d), NEW d2,
         DOMAIN d2 = DOMAIN d, d2.users = d.users, d2.rooms = d.rooms,
         d2.room_members = d.room_members, d2.messages = d.messages,
         d2.next_room = d.next_room, IsFiniteSet(DOMAIN d2.friend_requests)
  PROVE  Keeps(d, d2)
  BY DEF Keeps, Follows, SameFor, Tables, Db!Member

LEMMA SetStatusKeeps ==
  ASSUME NEW d, Tables(d), NEW from, NEW to, NEW status
  PROVE  /\ Keeps(d, Db!SetStatus(d, from, to, status))
         /\ DOMAIN Db!SetStatus(d, from, to, status) = DOMAIN d
<1> DEFINE requests == Db!Put(d.friend_requests, <<from, to>>, status)
           d2 == Db!SetStatus(d, from, to, status)
<1>1. d2 = [d EXCEPT !.friend_requests = requests]
  BY DEF Db!SetStatus
<1>2. IsFiniteSet(DOMAIN requests)
  <2>1. DOMAIN requests = DOMAIN d.friend_requests \cup {<<from, to>>}
    BY DEF Db!Put
  <2>2. IsFiniteSet(DOMAIN d.friend_requests)
    BY DEF Tables
  <2>3. IsFiniteSet(DOMAIN d.friend_requests \cup {<<from, to>>})
    BY <2>2, FS_AddElement
  <2> QED
    BY <2>1, <2>3
<1> HIDE DEF requests, d2
<1>3. /\ DOMAIN d2 = DOMAIN d /\ d2.users = d.users
      /\ d2.rooms = d.rooms /\ d2.room_members = d.room_members
      /\ d2.messages = d.messages /\ d2.next_room = d.next_room
      /\ d2.friend_requests = requests
  BY <1>1 DEF Tables
<1>4. Keeps(d, d2) /\ DOMAIN d2 = DOMAIN d
  BY <1>2, <1>3, FriendTablesKeep
<1> QED
  BY <1>4 DEF d2

LEMMA RequestFriendKeeps ==
  ASSUME NEW d, Tables(d), NEW from, NEW to,
         NEW o \in Db!request_friend(d, from, to)
  PROVE  Keeps(d, o.db)
<1>1. o.db = d \/ o.db = Db!SetStatus(d, from, to, "pending")
  BY TransactionOutcome DEF Db!request_friend, Db!Fails, Db!Outcome
<1> QED
  BY <1>1, SetStatusKeeps, KeepsItself

LEMMA RejectFriendRequestKeeps ==
  ASSUME NEW d, Tables(d), NEW from, NEW to,
         NEW o \in Db!reject_friend_request(d, from, to)
  PROVE  Keeps(d, o.db)
<1>1. o.db = d \/ o.db = Db!SetStatus(d, from, to, "rejected")
  BY TransactionOutcome DEF Db!reject_friend_request
<1> QED
  BY <1>1, SetStatusKeeps, KeepsItself

LEMMA AcceptFriendRequestKeeps ==
  ASSUME NEW d, Tables(d), NEW from, NEW to,
         NEW o \in Db!accept_friend_request(d, from, to)
  PROVE  Keeps(d, o.db)
<1> DEFINE accepted == Db!SetStatus(d, from, to, "accepted")
           d2 == [accepted EXCEPT !.friendships = @ \cup {{from, to}}]
<1>1. o.db = d \/ o.db = d2
  BY TransactionOutcome DEF Db!accept_friend_request
<1>2. Keeps(d, accepted) /\ DOMAIN accepted = DOMAIN d
  BY SetStatusKeeps
<1>3. Keeps(d, d2)
  <2>1. /\ accepted.rooms = d.rooms /\ accepted.room_members = d.room_members
        /\ accepted.messages = d.messages /\ accepted.users = d.users
        /\ accepted.next_room = d.next_room
    BY DEF Db!SetStatus, Tables
  <2>2. IsFiniteSet(DOMAIN accepted.friend_requests)
    BY <1>2 DEF Keeps, Follows, Tables
  <2> HIDE DEF accepted
  <2>3. /\ DOMAIN d2 = DOMAIN d /\ d2.users = d.users
        /\ d2.rooms = d.rooms /\ d2.room_members = d.room_members
        /\ d2.messages = d.messages /\ d2.next_room = d.next_room
        /\ d2.friend_requests = accepted.friend_requests
    BY <1>2, <2>1 DEF Tables
  <2> HIDE DEF d2
  <2> QED
    BY <2>2, <2>3, FriendTablesKeep
<1> QED
  BY <1>1, <1>3, KeepsItself

LEMMA RemoveFriendKeeps ==
  ASSUME NEW d, Tables(d), NEW u, NEW v, NEW o \in Db!remove_friend(d, u, v)
  PROVE  Keeps(d, o.db)
<1> DEFINE d2 == [d EXCEPT !.friendships = @ \ {{u, v}}]
<1>1. o.db = d \/ o.db = d2
  BY TransactionOutcome DEF Db!remove_friend
<1>2. Keeps(d, d2)
  <2>1. /\ DOMAIN d2 = DOMAIN d /\ d2.users = d.users
        /\ d2.rooms = d.rooms /\ d2.room_members = d.room_members
        /\ d2.messages = d.messages /\ d2.next_room = d.next_room
        /\ d2.friend_requests = d.friend_requests
    BY DEF Tables
  <2> HIDE DEF d2
  <2> QED
    BY <2>1, FriendTablesKeep DEF Tables
<1> QED
  BY <1>1, <1>2, KeepsItself

LEMMA CreateRoomMessageKeeps ==
  ASSUME NEW d, Tables(d), NEW r, NEW u,
         NEW o \in Db!create_room_message(d, r, u)
  PROVE  Keeps(d, o.db)
<1> DEFINE id == d.next_message
           drawn == Db!DrawMessageId(d)
           row == [id |-> id, room_id |-> r, sender |-> u]
           d2 == [drawn EXCEPT !.messages = @ \cup {row}]
<1>1. o.db \in {d, drawn, d2}
  BY TransactionOutcome DEF Db!create_room_message, Db!Fails, Db!Outcome
<1>2. /\ DOMAIN drawn = DOMAIN d /\ drawn.users = d.users
      /\ drawn.rooms = d.rooms /\ drawn.room_members = d.room_members
      /\ drawn.messages = d.messages /\ drawn.next_room = d.next_room
      /\ drawn.friend_requests = d.friend_requests
  BY DEF Tables, Db!DrawMessageId
<1> HIDE DEF drawn, row
<1>3. Keeps(d, drawn)
  BY <1>2, FriendTablesKeep DEF Tables
<1>4. Keeps(d, d2)
  <2>1. IsFiniteSet(d.messages \cup {row})
    BY FS_AddElement DEF Tables
  <2>2. /\ DOMAIN d2 = DOMAIN d /\ d2.users = d.users
        /\ d2.rooms = d.rooms /\ d2.room_members = d.room_members
        /\ d2.messages = d.messages \cup {row} /\ d2.next_room = d.next_room
        /\ d2.friend_requests = d.friend_requests
    BY <1>2 DEF Tables
  <2> HIDE DEF d2
  <2> QED
    BY <2>1, <2>2 DEF Keeps, Follows, SameFor, Tables, Db!Member
<1> QED
  BY <1>1, <1>3, <1>4, KeepsItself

\* The new room is its owner's only, because members refer to rooms that
\* exist and its id is new.
LEMMA CreateRoomKeeps ==
  ASSUME NEW d, Tables(d), NEW owner, NEW o \in Db!create_room(d, owner)
  PROVE  Keeps(d, o.db)
<1> DEFINE id == d.next_room
           drawn == Db!DrawRoomId(d)
           d2 == [drawn EXCEPT !.rooms = Db!Put(@, id, owner),
                               !.room_members = @ \cup {<<id, owner>>}]
<1>1. o.db \in {d, drawn} \/ (owner \in DOMAIN d.users /\ o.db = d2)
  BY TransactionOutcome DEF Db!create_room, Db!Fails, Db!Outcome
<1>2. /\ DOMAIN drawn = DOMAIN d /\ drawn.users = d.users
      /\ drawn.rooms = d.rooms /\ drawn.room_members = d.room_members
      /\ drawn.messages = d.messages /\ drawn.next_room = d.next_room + 1
      /\ drawn.friend_requests = d.friend_requests
  BY DEF Tables, Db!DrawRoomId
<1> HIDE DEF drawn
<1>3. Keeps(d, drawn)
  BY <1>2 DEF Keeps, Follows, SameFor, Tables, Db!Member
<1>4. ASSUME owner \in DOMAIN d.users PROVE Keeps(d, d2)
  <2> DEFINE rooms == Db!Put(d.rooms, id, owner)
             members == d.room_members \cup {<<id, owner>>}
  <2>1. /\ DOMAIN d2 = DOMAIN d /\ d2.users = d.users
        /\ d2.rooms = rooms /\ d2.room_members = members
        /\ d2.messages = d.messages /\ d2.next_room = d.next_room + 1
        /\ d2.friend_requests = d.friend_requests
    BY <1>2 DEF Tables
  <2> HIDE DEF d2
  <2>2. /\ DOMAIN rooms = DOMAIN d.rooms \cup {id}
        /\ rooms[id] = owner
        /\ \A r \in DOMAIN d.rooms : rooms[r] = d.rooms[r]
        /\ rooms \in [DOMAIN rooms -> Users]
    BY <1>4 DEF Tables, Db!Put
  <2> HIDE DEF rooms
  <2>3. Tables(d2)
    BY <1>4, <2>1, <2>2 DEF Tables
  <2>4. ASSUME NEW u PROVE SameFor(d, d2, u)
    <3>1. ~Db!Member(d, id, u)
      BY DEF Tables, Db!Member
    <3> QED
      BY <2>1, <2>2, <3>1 DEF SameFor, Db!Member, Tables
  <2> QED
    BY <2>1, <2>3, <2>4 DEF Keeps, Follows
<1> QED
  BY <1>1, <1>3, <1>4, KeepsItself

\* The rooms left have the members they had.
LEMMA DeleteRoomKeeps ==
  ASSUME NEW d, Tables(d), NEW owner, NEW room_id,
         NEW o \in Db!delete_room(d, owner, room_id)
  PROVE  Keeps(d, o.db)
<1> DEFINE rooms == [r \in (DOMAIN d.rooms) \ {room_id} |-> d.rooms[r]]
           members == {m \in d.room_members : m[1] # room_id}
           messages == {m \in d.messages : m.room_id # room_id}
           d2 == [d EXCEPT
                   !.rooms = [r \in DOMAIN @ \ {room_id} |-> @[r]],
                   !.room_members = {m \in @ : m[1] # room_id},
                   !.messages = {m \in @ : m.room_id # room_id}]
<1>1. o.db = d \/ o.db = d2
  BY TransactionOutcome DEF Db!delete_room
<1>2. /\ DOMAIN d2 = DOMAIN d /\ d2.users = d.users
      /\ d2.rooms = rooms /\ d2.room_members = members
      /\ d2.messages = messages /\ d2.next_room = d.next_room
      /\ d2.friend_requests = d.friend_requests
  BY DEF Tables
<1> HIDE DEF d2
<1>3. IsFiniteSet(messages)
  <2>1. IsFiniteSet(d.messages) /\ messages \in SUBSET d.messages
    BY DEF Tables
  <2> QED
    BY <2>1, FS_Subset
<1>4. /\ DOMAIN rooms = (DOMAIN d.rooms) \ {room_id}
      /\ \A r \in DOMAIN rooms : rooms[r] = d.rooms[r]
      /\ rooms \in [DOMAIN rooms -> Users]
  BY DEF Tables
<1>5. members \subseteq (DOMAIN rooms) \X Users
  <2>1. d.room_members \subseteq (DOMAIN d.rooms) \X Users
    BY DEF Tables
  <2> QED
    BY <1>4, <2>1
<1>6. \A r \in DOMAIN rooms : \A u : <<r, u>> \in members <=> <<r, u>> \in d.room_members
  BY <1>4
<1> HIDE DEF rooms, members, messages
<1>7. Tables(d2)
  BY <1>2, <1>3, <1>4, <1>5 DEF Tables
<1>8. \A u : SameFor(d, d2, u)
  BY <1>2, <1>4, <1>6 DEF SameFor, Db!Member
<1> QED
  BY <1>1, <1>2, <1>7, <1>8, KeepsItself DEF Keeps, Follows

\* One membership more or less, of one user.
LEMMA MembershipChange ==
  ASSUME NEW d, Tables(d), NEW members \in SUBSET ((DOMAIN d.rooms) \X Users),
         NEW user,
         \A r, u : u # user => (<<r, u>> \in members <=> <<r, u>> \in d.room_members)
  PROVE  /\ Follows(d, [d EXCEPT !.room_members = members])
         /\ \A u : u # user => SameFor(d, [d EXCEPT !.room_members = members], u)
<1> DEFINE d2 == [d EXCEPT !.room_members = members]
<1>1. /\ DOMAIN d2 = DOMAIN d /\ d2.users = d.users
      /\ d2.rooms = d.rooms /\ d2.room_members = members
      /\ d2.messages = d.messages /\ d2.next_room = d.next_room
      /\ d2.friend_requests = d.friend_requests
  BY DEF Tables
<1> HIDE DEF d2
<1>2. Follows(d, d2) /\ \A u : u # user => SameFor(d, d2, u)
  BY <1>1 DEF Follows, SameFor, Tables, Db!Member
<1> QED
  BY <1>2 DEF d2

LEMMA InviteRoomFollows ==
  ASSUME NEW d, Tables(d), NEW inviter, NEW room_id, NEW friend \in Users,
         NEW o \in Db!invite_room(d, inviter, room_id, friend)
  PROVE  /\ Follows(d, o.db)
         /\ \A u : u # friend => SameFor(d, o.db, u)
         /\ ~Failed(o) /\ o.answer # "invited" => o.db = d
         /\ o.answer \in {"error", "already_member", "not_friend", "invited",
                          "room_not_found_or_no_permission"}
<1> DEFINE members == d.room_members \cup {<<room_id, friend>>}
           d2 == [d EXCEPT !.room_members = @ \cup {<<room_id, friend>>}]
<1>1. \/ o.db = d
      \/ Db!Member(d, room_id, inviter) /\ o.db = d2
  BY TransactionOutcome DEF Db!invite_room
<1>2. d2 = [d EXCEPT !.room_members = members]
  OBVIOUS
<1>3. ASSUME Db!Member(d, room_id, inviter)
      PROVE  members \in SUBSET ((DOMAIN d.rooms) \X Users)
  BY <1>3 DEF Tables, Db!Member
<1>4. \A r, u : u # friend => (<<r, u>> \in members <=> <<r, u>> \in d.room_members)
  OBVIOUS
<1>5. /\ ~Failed(o) /\ o.answer # "invited" => o.db = d
      /\ o.answer \in {"error", "already_member", "not_friend", "invited",
                       "room_not_found_or_no_permission"}
  BY TransactionOutcome DEF Db!invite_room, Failed, Db!Error
<1> HIDE DEF members, d2
<1>6. CASE o.db = d
  BY <1>5, <1>6, KeepsItself DEF Keeps
<1>7. CASE Db!Member(d, room_id, inviter) /\ o.db = d2
  <2>1. /\ Follows(d, [d EXCEPT !.room_members = members])
        /\ \A u : u # friend => SameFor(d, [d EXCEPT !.room_members = members], u)
    BY <1>3, <1>4, <1>7, MembershipChange
  <2> QED
    BY <1>2, <1>5, <1>7, <2>1
<1> QED
  BY <1>1, <1>6, <1>7

LEMMA LeaveRoomFollows ==
  ASSUME NEW d, Tables(d), NEW user_id, NEW room_id,
         NEW o \in Db!leave_room(d, user_id, room_id)
  PROVE  /\ Follows(d, o.db)
         /\ \A u : u # user_id => SameFor(d, o.db, u)
         /\ ~Failed(o) /\ o.answer # "left" => o.db = d
         /\ o.answer \in {"error", "not_member_or_room_not_found",
                          "owner_cannot_leave", "left"}
<1> DEFINE members == d.room_members \ {<<room_id, user_id>>}
           d2 == [d EXCEPT !.room_members = @ \ {<<room_id, user_id>>}]
<1>1. o.db = d \/ o.db = d2
  BY TransactionOutcome DEF Db!leave_room
<1>2. d2 = [d EXCEPT !.room_members = members]
  OBVIOUS
<1>3. members \in SUBSET ((DOMAIN d.rooms) \X Users)
  BY DEF Tables
<1>4. \A r, u : u # user_id => (<<r, u>> \in members <=> <<r, u>> \in d.room_members)
  OBVIOUS
<1>5. /\ ~Failed(o) /\ o.answer # "left" => o.db = d
      /\ o.answer \in {"error", "not_member_or_room_not_found",
                       "owner_cannot_leave", "left"}
  BY TransactionOutcome DEF Db!leave_room, Failed, Db!Error
<1> HIDE DEF members, d2
<1>6. CASE o.db = d
  BY <1>5, <1>6, KeepsItself DEF Keeps
<1>7. CASE o.db = d2
  <2>1. /\ Follows(d, [d EXCEPT !.room_members = members])
        /\ \A u : u # user_id => SameFor(d, [d EXCEPT !.room_members = members], u)
    BY <1>3, <1>4, <1>7, MembershipChange
  <2> QED
    BY <1>2, <1>5, <1>7, <2>1
<1> QED
  BY <1>1, <1>6, <1>7

LEMMA LeaveRoomCanSucceed ==
  ASSUME NEW d, NEW user_id, NEW room_id
  PROVE  \E o \in Db!leave_room(d, user_id, room_id) : ~Failed(o)
  BY DEF Db!leave_room, Db!Transaction, Db!Outcome, Failed, Db!Error

LEMMA InviteRoomCanSucceed ==
  ASSUME NEW d, NEW inviter, NEW room_id, NEW friend
  PROVE  \E o \in Db!invite_room(d, inviter, room_id, friend) : ~Failed(o)
  BY DEF Db!invite_room, Db!Transaction, Db!Outcome, Failed, Db!Error

\* The list of a user's rooms.
LEMMA ListRoomsOutcome ==
  ASSUME NEW d, NEW u, NEW o \in Db!list_rooms(d, u)
  PROVE  /\ o.db = d
         /\ ~Failed(o) => o.value = JoinedRooms(d, u)
  BY TransactionOutcome DEF Db!list_rooms, JoinedRooms

\* It can always be had from a database that does not fail.
LEMMA LoadJoinedRooms ==
  ASSUME NEW d, NEW u, NEW o \in load_joined_room_ids(d, u)
  PROVE  /\ o.db = d
         /\ ~Failed(o) => o.value = JoinedRooms(d, u)
         /\ ~failing => ~Failed(o)
<1>1. \E p \in Db!list_rooms(d, u) : ~Failed(p)
  BY DEF Db!list_rooms, Db!Transaction, Db!Outcome, Failed, Db!Error
<1> QED
  BY <1>1, CallOutcome, ListRoomsOutcome DEF load_joined_room_ids

-----------------------------------------------------------------------------
(* What a task pushes.                                                     *)

\* t may push cmd, unless it is a login, when it leaves the tables d: its
\* replies go to whom they should, and whatever refreshes the rooms of
\* sessions gives them their user's.
Fitting(t, d, cmd) ==
  /\ cmd \in WorkerCommands
  /\ cmd.op # "set_user_id"
  /\ cmd.op = "send_one" => /\ cmd.fd = t.fd
                            /\ cmd.text.task = t
                            /\ cmd.text.says # "login success"
  /\ cmd.op = "set_joined_rooms" => /\ cmd.fd = t.fd
                                    /\ cmd.room_ids = JoinedRooms(d, t.user_id)
  /\ cmd.op = "set_joined_rooms_for_user" => cmd.room_ids = JoinedRooms(d, cmd.user_id)
  /\ cmd.op = "room_broadcast" =>
       /\ t.cmd.op = "say"
       /\ cmd.room_id \in DOMAIN d.rooms
       /\ cmd.text.members = {u \in Users : Db!Member(d, cmd.room_id, u)}

AllFitting(t, d, pushes) ==
  /\ pushes \in Seq(WorkerCommands)
  /\ \A i \in DOMAIN pushes : Fitting(t, d, pushes[i])

Refreshes(pushes, u) ==
  \E i \in DOMAIN pushes :
    pushes[i].op = "set_joined_rooms_for_user" /\ pushes[i].user_id = u

\* A task that is not a login leaves tables that can follow, pushes what fits,
\* and if the database does not fail refreshes everybody whose memberships
\* it changed.
Serves(t, result) ==
  /\ Follows(db, result.db)
  /\ AllFitting(t, result.db, result.pushes)
  /\ ~failing => \A u : SameFor(db, result.db, u) \/ Refreshes(result.pushes, u)

\* What a task is executed under.
Supplied ==
  /\ Tables(db)
  /\ 1..db.next_room \subseteq Rooms

LEMMA NothingFits == ASSUME NEW t, NEW d PROVE AllFitting(t, d, <<>>)
  BY DEF AllFitting

LEMMA OneFits ==
  ASSUME NEW t, NEW d, NEW cmd, Fitting(t, d, cmd)
  PROVE  AllFitting(t, d, <<cmd>>)
<1>1. cmd \in WorkerCommands
  BY DEF Fitting
<1>2. <<cmd>> \in Seq(WorkerCommands) /\ DOMAIN <<cmd>> = {1} /\ <<cmd>>[1] = cmd
  BY <1>1
<1> QED
  BY <1>2 DEF AllFitting

LEMMA ConcatFits ==
  ASSUME NEW t, NEW d, NEW p, NEW q, AllFitting(t, d, p), AllFitting(t, d, q)
  PROVE  /\ AllFitting(t, d, p \o q)
         /\ \A u : Refreshes(p, u) \/ Refreshes(q, u) => Refreshes(p \o q, u)
<1>1. p \in Seq(WorkerCommands) /\ q \in Seq(WorkerCommands)
  BY DEF AllFitting
<1>2. /\ p \o q \in Seq(WorkerCommands)
      /\ Len(p \o q) = Len(p) + Len(q)
      /\ \A i \in 1..(Len(p) + Len(q)) :
           (p \o q)[i] = IF i <= Len(p) THEN p[i] ELSE q[i - Len(p)]
  BY <1>1, ConcatProperties
<1>3. /\ Len(p) \in Nat /\ Len(q) \in Nat
      /\ DOMAIN p = 1..Len(p) /\ DOMAIN q = 1..Len(q)
      /\ DOMAIN (p \o q) = 1..(Len(p) + Len(q))
  BY <1>1, <1>2, LenProperties
<1>4. \A i \in DOMAIN (p \o q) : Fitting(t, d, (p \o q)[i])
  BY <1>2, <1>3 DEF AllFitting
<1>5. ASSUME NEW u, Refreshes(p, u) PROVE Refreshes(p \o q, u)
  BY <1>2, <1>3, <1>5 DEF Refreshes
<1>6. ASSUME NEW u, Refreshes(q, u) PROVE Refreshes(p \o q, u)
  <2>1. PICK i \in DOMAIN q : /\ q[i].op = "set_joined_rooms_for_user"
                              /\ q[i].user_id = u
    BY <1>6 DEF Refreshes
  <2>2. i + Len(p) \in DOMAIN (p \o q) /\ (p \o q)[i + Len(p)] = q[i]
    BY <1>2, <1>3
  <2> QED
    BY <2>1, <2>2 DEF Refreshes
<1> QED
  BY <1>2, <1>4, <1>5, <1>6 DEF AllFitting

LEMMA TwoFit ==
  ASSUME NEW t, NEW d, NEW cmd, NEW next, Fitting(t, d, cmd), Fitting(t, d, next)
  PROVE  AllFitting(t, d, <<cmd, next>>)
<1>1. cmd \in WorkerCommands /\ next \in WorkerCommands
  BY DEF Fitting
<1>2. /\ <<cmd, next>> \in Seq(WorkerCommands)
      /\ DOMAIN <<cmd, next>> = {1, 2}
      /\ <<cmd, next>>[1] = cmd /\ <<cmd, next>>[2] = next
  BY <1>1
<1> QED
  BY <1>2 DEF AllFitting

LEMMA ReplyFits ==
  ASSUME NEW t \in Tasks, NEW d,
         NEW says \in Sayings, says # "login success"
  PROVE  /\ Fitting(t, d, Reply(t, says))
         /\ AllFitting(t, d, <<Reply(t, says)>>)
<1>1. Says(t, says) \in Texts
  BY TextsAssumption DEF TaskTexts, Says
<1>2. Fitting(t, d, Reply(t, says))
  BY <1>1 DEF Fitting, Reply, Says, WorkerCommands, Tasks
<1> QED
  BY <1>2, OneFits

\* Whatever is only replied to is served.
LEMMA ReplyServes ==
  ASSUME NEW t \in Tasks, NEW d, Keeps(db, d),
         NEW says \in Sayings, says # "login success"
  PROVE  Serves(t, Then(d, <<Reply(t, says)>>))
  BY ReplyFits DEF Serves, Keeps, Then

LEMMA RefuseServes ==
  ASSUME Supplied, NEW t \in Tasks, NEW says \in Sayings, says # "login success",
         NEW result \in Refuse(t, says)
  PROVE  Serves(t, result)
  BY ReplyServes, KeepsItself DEF Refuse, Supplied

LEMMA AnswerServes ==
  ASSUME Supplied, NEW t \in Tasks, NEW outcomes, NEW says,
         \A o \in outcomes : /\ Keeps(db, o.db)
                             /\ o.answer \in {"error", "true", "false"},
         {says["error"], says["true"], says["false"]}
           \subseteq Sayings \ {"login success"},
         NEW result \in Answer(t, outcomes, says)
  PROVE  Serves(t, result)
<1>1. PICK o \in Call(outcomes) : result = Then(o.db, <<Reply(t, says[o.answer])>>)
  BY DEF Answer
<1>2. o \in outcomes
  BY CallOutcome
<1>3. /\ Keeps(db, o.db)
      /\ says[o.answer] \in Sayings
      /\ says[o.answer] # "login success"
  BY <1>2
<1> QED
  BY <1>1, <1>3, ReplyServes DEF Supplied

\* The lines of a list.
LEMMA ListLinesFit ==
  ASSUME NEW t \in Tasks, NEW d, NEW list, IsFiniteSet(list)
  PROVE  AllFitting(t, d, ListLines(t, list))
<1> DEFINE lines == [i \in 1..Cardinality(list) |-> Reply(t, "line")]
<1>1. Cardinality(list) \in Nat
  BY FS_CardinalityType
<1> /\ "line" \in Sayings /\ "line" # "login success"
    /\ "header" \in Sayings /\ "header" # "login success"
  BY DEF Sayings
<1>2. Fitting(t, d, Reply(t, "line"))
  BY ReplyFits
<1>3. AllFitting(t, d, lines)
  <2>1. Reply(t, "line") \in WorkerCommands
    BY <1>2 DEF Fitting
  <2>2. lines \in Seq(WorkerCommands) /\ \A i \in DOMAIN lines : lines[i] = Reply(t, "line")
    BY <1>1, <2>1
  <2> QED
    BY <1>2, <2>2 DEF AllFitting
<1>4. AllFitting(t, d, <<Reply(t, "header")>>)
  BY ReplyFits
<1> HIDE DEF lines
<1>5. AllFitting(t, d, <<Reply(t, "header")>> \o lines)
  BY <1>3, <1>4, ConcatFits
<1> QED
  BY <1>5 DEF lines, ListLines

LEMMA ListLinesServe ==
  ASSUME Supplied, NEW t \in Tasks, NEW list, IsFiniteSet(list)
  PROVE  Serves(t, Then(db, ListLines(t, list)))
  BY ListLinesFit, KeepsItself DEF Serves, Keeps, Then, Supplied

\* The refreshing of one session and of all sessions of a user.
LEMMA RefreshSessionFits ==
  ASSUME NEW t \in Tasks, NEW d, Tables(d), 1..(d.next_room - 1) \subseteq Rooms,
         NEW pushes \in RefreshSession(d, t)
  PROVE  AllFitting(t, d, pushes)
<1>1. PICK o \in load_joined_room_ids(d, t.user_id) :
        pushes = IF Failed(o) THEN <<>> ELSE <<SetJoinedRooms(t.fd, o.value)>>
  BY DEF RefreshSession
<1>2. ~Failed(o) => o.value = JoinedRooms(d, t.user_id)
  BY LoadJoinedRooms
<1>3. JoinedRooms(d, t.user_id) \in SUBSET Rooms
  BY DEF JoinedRooms, Tables
<1>4. Fitting(t, d, SetJoinedRooms(t.fd, JoinedRooms(d, t.user_id)))
  BY <1>3 DEF Fitting, SetJoinedRooms, WorkerCommands, Tasks
<1> QED
  BY <1>1, <1>2, <1>4, OneFits, NothingFits

LEMMA RefreshUserFits ==
  ASSUME NEW t \in Tasks, NEW d, Tables(d), 1..(d.next_room - 1) \subseteq Rooms,
         NEW u \in Users, NEW pushes \in RefreshUser(d, u)
  PROVE  /\ AllFitting(t, d, pushes)
         /\ ~failing => Refreshes(pushes, u)
<1>1. PICK o \in load_joined_room_ids(d, u) :
        pushes = IF Failed(o) THEN <<>> ELSE <<SetJoinedRoomsForUser(u, o.value)>>
  BY DEF RefreshUser
<1>2. /\ ~Failed(o) => o.value = JoinedRooms(d, u)
      /\ ~failing => ~Failed(o)
  BY LoadJoinedRooms
<1>3. JoinedRooms(d, u) \in SUBSET Rooms
  BY DEF JoinedRooms, Tables
<1> DEFINE cmd == SetJoinedRoomsForUser(u, JoinedRooms(d, u))
<1>4. Fitting(t, d, cmd)
  BY <1>3 DEF Fitting, SetJoinedRoomsForUser, WorkerCommands
<1>5. Refreshes(<<cmd>>, u)
  BY DEF Refreshes, SetJoinedRoomsForUser
<1> HIDE DEF cmd
<1>6. pushes = <<>> \/ pushes = <<cmd>>
  BY <1>1, <1>2 DEF cmd
<1>7. ~failing => pushes = <<cmd>>
  BY <1>1, <1>2 DEF cmd
<1> QED
  BY <1>4, <1>5, <1>6, <1>7, OneFits, NothingFits

-----------------------------------------------------------------------------
(* One operation after the other.                                          *)

LEMMA RegisterServes ==
  ASSUME Supplied, NEW t \in Tasks, t.cmd.op = "register", NEW result \in register(t)
  PROVE  Serves(t, result)
<1> DEFINE outcomes == Db!signup(db, t.cmd.id, t.cmd.pw)
           says == [error |-> "register failed", true |-> "register success",
                    false |-> "id already exists"]
<1>1. t.cmd.id \in Users /\ t.cmd.pw \in Passwords
  BY DEF Tasks, ClientCommands
<1>2. \A o \in outcomes : Keeps(db, o.db) /\ o.answer \in {"error", "true", "false"}
  BY <1>1, SignupKeeps, TransactionOutcome DEF Supplied, Db!signup
<1>3. {says["error"], says["true"], says["false"]} \subseteq Sayings \ {"login success"}
  BY DEF Sayings
<1>4. result \in Answer(t, outcomes, says)
  BY DEF register
<1> HIDE DEF outcomes, says
<1> QED
  BY <1>2, <1>3, <1>4, AnswerServes

LEMMA NickServes ==
  ASSUME Supplied, NEW t \in Tasks, t.cmd.op = "nick", NEW result \in nick(t)
  PROVE  Serves(t, result)
<1>1. t.cmd.nick \in Nicks
  BY DEF Tasks, ClientCommands
<1>2. CASE result \in Refuse(t, "login first")
  BY <1>2, RefuseServes DEF Sayings
<1>3. CASE result \notin Refuse(t, "login first")
  <2>1. PICK o \in Call(Db!change_nickname(db, t.user_id, t.cmd.nick)) :
          result = Then(o.db,
            IF o.answer # "true" THEN <<Reply(t, "nick change failed")>>
            ELSE <<ChangeNickname(t.fd, t.cmd.nick), Reply(t, "nick change success")>>)
    BY <1>3 DEF nick, LoggedIn
  <2>2. Keeps(db, o.db)
    BY <1>1, CallOutcome, ChangeNicknameKeeps DEF Supplied
  <2>3. /\ AllFitting(t, o.db, <<Reply(t, "nick change failed")>>)
        /\ Fitting(t, o.db, Reply(t, "nick change success"))
    BY ReplyFits DEF Sayings
  <2>4. Fitting(t, o.db, ChangeNickname(t.fd, t.cmd.nick))
    BY <1>1 DEF Fitting, ChangeNickname, WorkerCommands, Tasks
  <2>5. AllFitting(t, o.db, <<ChangeNickname(t.fd, t.cmd.nick),
                              Reply(t, "nick change success")>>)
    BY <2>3, <2>4, TwoFit
  <2> QED
    BY <2>1, <2>2, <2>3, <2>5 DEF Serves, Keeps, Then
<1> QED
  BY <1>2, <1>3

LEMMA FriendRequestServes ==
  ASSUME Supplied, NEW t \in Tasks, t.cmd.op = "friend_request",
         NEW result \in friend_request(t)
  PROVE  Serves(t, result)
<1> DEFINE outcomes == Db!request_friend(db, t.user_id, t.cmd.user)
           says == [error |-> "friend request failed", true |-> "friend request sent",
                    false |-> "friend request already exists or already friends"]
<1>1. \/ result \in Refuse(t, "login first")
      \/ result \in Refuse(t, "cannot request yourself")
      \/ result \in Answer(t, outcomes, says)
  BY DEF friend_request, LoggedIn
<1>2. ASSUME NEW o \in outcomes
      PROVE  Keeps(db, o.db) /\ o.answer \in {"error", "true", "false"}
  <2>1. Keeps(db, o.db)
    BY RequestFriendKeeps DEF Supplied
  <2>2. o.answer \in {"error", "true", "false"}
    BY TransactionOutcome DEF Db!request_friend, Db!Fails, Db!Outcome, Db!Error
  <2> QED
    BY <2>1, <2>2
<1>3. {says["error"], says["true"], says["false"]} \subseteq Sayings \ {"login success"}
  BY DEF Sayings
<1> HIDE DEF outcomes, says
<1>4. CASE result \in Answer(t, outcomes, says)
  BY <1>2, <1>3, <1>4, AnswerServes
<1> QED
  BY <1>1, <1>4, RefuseServes DEF Sayings

LEMMA FriendAcceptServes ==
  ASSUME Supplied, NEW t \in Tasks, t.cmd.op = "friend_accept",
         NEW result \in friend_accept(t)
  PROVE  Serves(t, result)
<1> DEFINE outcomes == Db!accept_friend_request(db, t.cmd.user, t.user_id)
           says == [error |-> "friend request accept failed",
                    true |-> "friend request accepted",
                    false |-> "no pending friend request"]
<1>1. result \in Refuse(t, "login first") \/ result \in Answer(t, outcomes, says)
  BY DEF friend_accept, LoggedIn
<1>2. ASSUME NEW o \in outcomes
      PROVE  Keeps(db, o.db) /\ o.answer \in {"error", "true", "false"}
  <2>1. Keeps(db, o.db)
    BY AcceptFriendRequestKeeps DEF Supplied
  <2>2. o.answer \in {"error", "true", "false"}
    BY TransactionOutcome DEF Db!accept_friend_request
  <2> QED
    BY <2>1, <2>2
<1>3. {says["error"], says["true"], says["false"]} \subseteq Sayings \ {"login success"}
  BY DEF Sayings
<1> HIDE DEF outcomes, says
<1>4. CASE result \in Answer(t, outcomes, says)
  BY <1>2, <1>3, <1>4, AnswerServes
<1> QED
  BY <1>1, <1>4, RefuseServes DEF Sayings

LEMMA FriendRejectServes ==
  ASSUME Supplied, NEW t \in Tasks, t.cmd.op = "friend_reject",
         NEW result \in friend_reject(t)
  PROVE  Serves(t, result)
<1> DEFINE outcomes == Db!reject_friend_request(db, t.cmd.user, t.user_id)
           says == [error |-> "friend request reject failed",
                    true |-> "friend request rejected",
                    false |-> "no pending friend request"]
<1>1. result \in Refuse(t, "login first") \/ result \in Answer(t, outcomes, says)
  BY DEF friend_reject, LoggedIn
<1>2. \A o \in outcomes : Keeps(db, o.db) /\ o.answer \in {"error", "true", "false"}
  BY RejectFriendRequestKeeps, TransactionOutcome DEF Supplied, Db!reject_friend_request
<1>3. {says["error"], says["true"], says["false"]} \subseteq Sayings \ {"login success"}
  BY DEF Sayings
<1> HIDE DEF outcomes, says
<1>4. CASE result \in Answer(t, outcomes, says)
  BY <1>2, <1>3, <1>4, AnswerServes
<1> QED
  BY <1>1, <1>4, RefuseServes DEF Sayings

LEMMA FriendRemoveServes ==
  ASSUME Supplied, NEW t \in Tasks, t.cmd.op = "friend_remove",
         NEW result \in friend_remove(t)
  PROVE  Serves(t, result)
<1> DEFINE outcomes == Db!remove_friend(db, t.user_id, t.cmd.user)
           says == [error |-> "friend remove failed", true |-> "friend removed",
                    false |-> "friend not found"]
<1>1. \/ result \in Refuse(t, "login first")
      \/ result \in Refuse(t, "cannot remove yourself")
      \/ result \in Answer(t, outcomes, says)
  BY DEF friend_remove, LoggedIn
<1>2. \A o \in outcomes : Keeps(db, o.db) /\ o.answer \in {"error", "true", "false"}
  BY RemoveFriendKeeps, TransactionOutcome DEF Supplied, Db!remove_friend
<1>3. {says["error"], says["true"], says["false"]} \subseteq Sayings \ {"login success"}
  BY DEF Sayings
<1> HIDE DEF outcomes, says
<1>4. CASE result \in Answer(t, outcomes, says)
  BY <1>2, <1>3, <1>4, AnswerServes
<1> QED
  BY <1>1, <1>4, RefuseServes DEF Sayings

\* A stored message is for the members the room has then.
LEMMA SayServes ==
  ASSUME Supplied, NEW t \in Tasks, t.cmd.op = "say", NEW result \in say(t)
  PROVE  Serves(t, result) /\ Keeps(db, result.db)
<1> DEFINE outcomes == Db!create_room_message(db, t.cmd.room_id, t.user_id)
           spoken(d) == [op |-> "room_broadcast", fd |-> t.fd,
                         room_id |-> t.cmd.room_id, text |-> MessageText(d, t)]
<1>1. CASE \/ result \in Refuse(t, "login first")
           \/ result \in Refuse(t, "invalid room id")
  <2>1. Serves(t, result)
    BY <1>1, RefuseServes DEF Sayings
  <2>2. \E says : result = Then(db, <<Reply(t, says)>>)
    BY <1>1 DEF Refuse
  <2> QED
    BY <2>1, <2>2, KeepsItself DEF Supplied, Then
<1>2. CASE ~ \/ result \in Refuse(t, "login first")
             \/ result \in Refuse(t, "invalid room id")
  <2>1. t.cmd.room_id # 0
    BY <1>2 DEF say, LoggedIn, RoomGiven
  <2>2. PICK o \in Call(outcomes) :
          result = Then(o.db,
            IF Failed(o) THEN <<Reply(t, "send failed")>>
            ELSE IF o.answer = "none"
            THEN <<Reply(t, "room not found or no permission")>>
            ELSE <<spoken(o.db)>>)
    BY <1>2 DEF say, LoggedIn, RoomGiven
  <2>3. o \in outcomes
    BY CallOutcome
  <2>4. Keeps(db, o.db)
    BY <2>3, CreateRoomMessageKeeps DEF Supplied
  <2>5. /\ AllFitting(t, o.db, <<Reply(t, "send failed")>>)
        /\ AllFitting(t, o.db, <<Reply(t, "room not found or no permission")>>)
    BY ReplyFits DEF Sayings
  <2>6. ASSUME ~Failed(o), o.answer # "none"
        PROVE  AllFitting(t, o.db, <<spoken(o.db)>>)
    <3>1. Db!Member(db, t.cmd.room_id, t.user_id) /\ o.db.rooms = db.rooms
      <4>1. Db!Member(db, t.cmd.room_id, t.user_id)
        BY <2>3, <2>6, TransactionOutcome DEF Db!create_room_message
      <4>2. o.db = [Db!DrawMessageId(db) EXCEPT
                      !.messages = @ \cup {[id |-> db.next_message,
                                            room_id |-> t.cmd.room_id,
                                            sender |-> t.user_id]}]
        BY <2>3, <2>6, <4>1, TransactionOutcome
          DEF Db!create_room_message, Db!Fails, Db!Outcome, Failed
      <4>3. o.db.rooms = db.rooms
        BY <4>2 DEF Db!DrawMessageId, Supplied, Tables
      <4> QED
        BY <4>1, <4>3
    <3>2. t.cmd.room_id \in DOMAIN o.db.rooms
      BY <3>1 DEF Supplied, Tables, Db!Member
    <3>3. t.cmd.room_id \in Rooms
      BY <2>1 DEF Tasks, ClientCommands, RoomTexts
    <3>4. MessageText(o.db, t) \in Texts
      BY TextsAssumption DEF TaskTexts, MessageText
    <3>5. MessageText(o.db, t).members
            = {u \in Users : Db!Member(o.db, t.cmd.room_id, u)}
      BY DEF MessageText
    <3>6. spoken(o.db) \in WorkerCommands
      BY <3>3, <3>4 DEF WorkerCommands, Tasks
    <3>7. Fitting(t, o.db, spoken(o.db))
      BY <3>2, <3>5, <3>6 DEF Fitting
    <3> QED
      BY <3>7, OneFits
  <2> HIDE DEF outcomes, spoken
  <2> QED
    BY <2>2, <2>4, <2>5, <2>6 DEF Serves, Keeps, Then
<1> QED
  BY <1>1, <1>2

LEMMA ListFriendServes ==
  ASSUME Supplied, NEW t \in Tasks, t.cmd.op = "list_friend",
         NEW result \in list_friend(t)
  PROVE  Serves(t, result)
<1>1. CASE result \in Refuse(t, "login first")
  BY <1>1, RefuseServes DEF Sayings
<1>2. CASE result \notin Refuse(t, "login first")
  <2>1. PICK o \in Call(Db!list_friends(db, t.user_id)) :
          result = Then(o.db,
            IF Failed(o) THEN <<Reply(t, "friend list failed")>>
            ELSE IF o.value = {} THEN <<Reply(t, "no friends")>>
            ELSE <<[op |-> "send_friend_list", fd |-> t.fd, friend_ids |-> o.value]>>)
    BY <1>2 DEF list_friend, LoggedIn
  <2>2. /\ o.db = db
        /\ ~Failed(o) => o.value \in SUBSET Users
    BY CallOutcome, TransactionOutcome DEF Db!list_friends
  <2>3. /\ AllFitting(t, db, <<Reply(t, "friend list failed")>>)
        /\ AllFitting(t, db, <<Reply(t, "no friends")>>)
    BY ReplyFits DEF Sayings
  <2> DEFINE cmd == [op |-> "send_friend_list", fd |-> t.fd, friend_ids |-> o.value]
  <2>4. ASSUME ~Failed(o) PROVE AllFitting(t, db, <<cmd>>)
    <3>1. Fitting(t, db, cmd)
      BY <2>2, <2>4 DEF Fitting, WorkerCommands, Tasks
    <3> QED
      BY <3>1, OneFits
  <2> HIDE DEF cmd
  <2>5. AllFitting(t, db, result.pushes) /\ result.db = db
    BY <2>1, <2>2, <2>3, <2>4 DEF Then, cmd
  <2> QED
    BY <2>5, KeepsItself DEF Serves, Keeps, Supplied
<1> QED
  BY <1>1, <1>2

\* The requests pending for somebody are as few as the rows of the table.
LEMMA PendingAreFinite ==
  ASSUME NEW d, Tables(d), NEW to
  PROVE  IsFiniteSet({from \in Users : Db!Status(d, from, to) = "pending"})
<1> DEFINE S == {from \in Users : Db!Status(d, from, to) = "pending"}
           T == DOMAIN d.friend_requests
           f == [from \in S |-> <<from, to>>]
<1>1. \A from \in S : <<from, to>> \in T
  BY DEF Db!Status
<1>2. f \in Injection(S, T)
  <2>1. f \in [S -> T]
    BY <1>1
  <2>2. \A a, b \in S : f[a] = f[b] => a = b
    OBVIOUS
  <2> HIDE DEF S, T, f
  <2> QED
    BY <2>1, <2>2 DEF Injection, IsInjective
<1>3. IsFiniteSet(T)
  BY DEF Tables
<1> HIDE DEF S, T, f
<1>4. IsFiniteSet(S)
  BY <1>2, <1>3, FS_Injection
<1> QED
  BY <1>4 DEF S

LEMMA ListFriendRequestServes ==
  ASSUME Supplied, NEW t \in Tasks, t.cmd.op = "list_friend_request",
         NEW result \in list_friend_request(t)
  PROVE  Serves(t, result)
<1>1. CASE result \in Refuse(t, "login first")
  BY <1>1, RefuseServes DEF Sayings
<1>2. CASE result \notin Refuse(t, "login first")
  <2>1. PICK o \in Call(Db!list_friend_requests(db, t.user_id)) :
          result = Then(o.db,
            IF Failed(o) THEN <<Reply(t, "friend requests list failed")>>
            ELSE IF o.value = {} THEN <<Reply(t, "no pending friend requests")>>
            ELSE ListLines(t, o.value))
    BY <1>2 DEF list_friend_request, LoggedIn
  <2>2. /\ o.db = db
        /\ ~Failed(o) => o.value = {from \in Users : Db!Status(db, from, t.user_id) = "pending"}
    BY CallOutcome, TransactionOutcome DEF Db!list_friend_requests
  <2>3. ~Failed(o) => IsFiniteSet(o.value)
    BY <2>2, PendingAreFinite DEF Supplied
  <2>4. /\ Serves(t, Then(db, <<Reply(t, "friend requests list failed")>>))
        /\ Serves(t, Then(db, <<Reply(t, "no pending friend requests")>>))
    BY ReplyServes, KeepsItself DEF Sayings, Supplied
  <2>5. ~Failed(o) => Serves(t, Then(db, ListLines(t, o.value)))
    BY <2>3, ListLinesServe
  <2> QED
    BY <2>1, <2>2, <2>4, <2>5
<1> QED
  BY <1>1, <1>2

LEMMA ListRoomServes ==
  ASSUME Supplied, NEW t \in Tasks, t.cmd.op = "list_room", NEW result \in list_room(t)
  PROVE  Serves(t, result)
<1>1. CASE result \in Refuse(t, "login first")
  BY <1>1, RefuseServes DEF Sayings
<1>2. CASE result \notin Refuse(t, "login first")
  <2>1. PICK o \in Call(Db!list_rooms(db, t.user_id)) :
          result = Then(o.db,
            IF Failed(o) THEN <<Reply(t, "list room failed")>>
            ELSE IF o.value = {} THEN <<Reply(t, "no rooms")>>
            ELSE ListLines(t, o.value))
    BY <1>2 DEF list_room, LoggedIn
  <2>2. o.db = db /\ (~Failed(o) => o.value = JoinedRooms(db, t.user_id))
    BY CallOutcome, ListRoomsOutcome
  <2>3. IsFiniteSet(JoinedRooms(db, t.user_id))
    <3>1. IsFiniteSet(1..(db.next_room - 1))
      BY FS_Interval DEF Supplied, Tables
    <3>2. JoinedRooms(db, t.user_id) \in SUBSET (1..(db.next_room - 1))
      BY DEF JoinedRooms, Supplied, Tables
    <3> QED
      BY <3>1, <3>2, FS_Subset
  <2>4. /\ Serves(t, Then(db, <<Reply(t, "list room failed")>>))
        /\ Serves(t, Then(db, <<Reply(t, "no rooms")>>))
    BY ReplyServes, KeepsItself DEF Sayings, Supplied
  <2>5. ~Failed(o) => Serves(t, Then(db, ListLines(t, o.value)))
    BY <2>2, <2>3, ListLinesServe
  <2> QED
    BY <2>1, <2>2, <2>4, <2>5
<1> QED
  BY <1>1, <1>2

LEMMA HistoryServes ==
  ASSUME Supplied, NEW t \in Tasks, t.cmd.op = "history", NEW result \in history(t)
  PROVE  Serves(t, result)
<1> DEFINE refused == \/ result \in Refuse(t, "login first")
                      \/ result \in Refuse(t, "invalid room id")
                      \/ result \in Refuse(t, "invalid limit (1-100)")
<1>1. CASE refused
  BY <1>1, RefuseServes DEF Sayings
<1>2. CASE ~refused
  <2>1. PICK o \in Call(Db!list_room_messages(db, t.user_id, t.cmd.room_id, t.cmd.limit)) :
          result = Then(o.db,
            IF Failed(o) THEN <<Reply(t, "history query failed")>>
            ELSE IF o.answer = "none"
            THEN <<Reply(t, "room not found or no permission")>>
            ELSE ListLines(t, o.value))
    BY <1>2 DEF history, LoggedIn, RoomGiven
  <2>2. /\ o.db = db
        /\ ~Failed(o) /\ o.answer # "none" => o.value \in SUBSET db.messages
    <3> DEFINE all == {m \in db.messages : m.room_id = t.cmd.room_id}
               newest == {m \in all : Db!Cardinality({n \in all : n.id > m.id}) < t.cmd.limit}
    <3>1. \/ o \in Db!Transaction(db, db, "list", newest)
          \/ o \in Db!Transaction(db, db, "none", {})
      <4>1. o \in Db!list_room_messages(db, t.user_id, t.cmd.room_id, t.cmd.limit)
        BY CallOutcome
      <4> QED
        BY <4>1 DEF Db!list_room_messages
    <3>2. newest \in SUBSET db.messages
      OBVIOUS
    <3> HIDE DEF newest
    <3> QED
      BY <3>1, <3>2, TransactionOutcome
  <2>3. ~Failed(o) /\ o.answer # "none" => IsFiniteSet(o.value)
    BY <2>2, FS_Subset DEF Supplied, Tables
  <2>4. /\ Serves(t, Then(db, <<Reply(t, "history query failed")>>))
        /\ Serves(t, Then(db, <<Reply(t, "room not found or no permission")>>))
    BY ReplyServes, KeepsItself DEF Sayings, Supplied
  <2>5. ~Failed(o) /\ o.answer # "none" => Serves(t, Then(db, ListLines(t, o.value)))
    BY <2>3, ListLinesServe
  <2> QED
    BY <2>1, <2>2, <2>4, <2>5
<1> QED
  BY <1>1, <1>2

LEMMA CreateRoomServes ==
  ASSUME Supplied, NEW t \in Tasks, t.cmd.op = "create_room",
         NEW result \in create_room(t)
  PROVE  Serves(t, result)
<1>1. CASE result \in Refuse(t, "login first")
  BY <1>1, RefuseServes DEF Sayings
<1>2. CASE result \notin Refuse(t, "login first")
  <2>1. PICK o \in Call(Db!create_room(db, t.user_id)) :
          result \in IF Failed(o) THEN {Then(o.db, <<Reply(t, "create room failed")>>)}
                     ELSE {Then(o.db, <<Reply(t, "room created")>> \o pushes) :
                             pushes \in RefreshSession(o.db, t)}
    BY <1>2 DEF create_room, LoggedIn
  <2>2. Keeps(db, o.db)
    BY CallOutcome, CreateRoomKeeps DEF Supplied
  <2>3. Tables(o.db) /\ 1..(o.db.next_room - 1) \subseteq Rooms
    BY <2>2 DEF Keeps, Follows, Supplied, Tables
  <2>4. CASE Failed(o)
    BY <2>1, <2>2, <2>4, ReplyServes DEF Sayings
  <2>5. CASE ~Failed(o)
    <3>1. PICK pushes \in RefreshSession(o.db, t) :
            result = Then(o.db, <<Reply(t, "room created")>> \o pushes)
      BY <2>1, <2>5
    <3>2. AllFitting(t, o.db, pushes)
      BY <2>3, RefreshSessionFits
    <3>3. AllFitting(t, o.db, <<Reply(t, "room created")>>)
      BY ReplyFits DEF Sayings
    <3>4. AllFitting(t, o.db, <<Reply(t, "room created")>> \o pushes)
      BY <3>2, <3>3, ConcatFits
    <3> QED
      BY <2>2, <3>1, <3>4 DEF Serves, Keeps, Then
  <2> QED
    BY <2>4, <2>5
<1> QED
  BY <1>1, <1>2

LEMMA DeleteRoomServes ==
  ASSUME Supplied, NEW t \in Tasks, t.cmd.op = "delete_room",
         NEW result \in delete_room(t)
  PROVE  Serves(t, result)
<1> DEFINE refused == \/ result \in Refuse(t, "login first")
                      \/ result \in Refuse(t, "invalid room id")
<1>1. CASE refused
  BY <1>1, RefuseServes DEF Sayings
<1>2. CASE ~refused
  <2>1. PICK o \in Call(Db!delete_room(db, t.user_id, t.cmd.room_id)) :
          result \in
            IF Failed(o) THEN {Then(o.db, <<Reply(t, "delete room failed")>>)}
            ELSE IF o.answer = "false"
            THEN {Then(o.db, <<Reply(t, "room not found or no permission")>>)}
            ELSE {Then(o.db, pushes \o <<Reply(t, "room deleted")>>) :
                    pushes \in RefreshSession(o.db, t)}
    BY <1>2 DEF delete_room, LoggedIn, RoomGiven
  <2>2. Keeps(db, o.db)
    BY CallOutcome, DeleteRoomKeeps DEF Supplied
  <2>3. Tables(o.db) /\ 1..(o.db.next_room - 1) \subseteq Rooms
    BY <2>2 DEF Keeps, Follows, Supplied, Tables
  <2>4. CASE Failed(o) \/ o.answer = "false"
    BY <2>1, <2>2, <2>4, ReplyServes DEF Sayings
  <2>5. CASE ~Failed(o) /\ o.answer # "false"
    <3>1. PICK pushes \in RefreshSession(o.db, t) :
            result = Then(o.db, pushes \o <<Reply(t, "room deleted")>>)
      BY <2>1, <2>5
    <3>2. AllFitting(t, o.db, pushes)
      BY <2>3, RefreshSessionFits
    <3>3. AllFitting(t, o.db, <<Reply(t, "room deleted")>>)
      BY ReplyFits DEF Sayings
    <3>4. AllFitting(t, o.db, pushes \o <<Reply(t, "room deleted")>>)
      BY <3>2, <3>3, ConcatFits
    <3> QED
      BY <2>2, <3>1, <3>4 DEF Serves, Keeps, Then
  <2> QED
    BY <2>4, <2>5
<1> QED
  BY <1>1, <1>2

\* Whoever changes one user's memberships refreshes all his sessions.
LEMMA RefreshingServes ==
  ASSUME NEW t \in Tasks, NEW d, NEW pushes, NEW user, Follows(db, d),
         \A u : u # user => SameFor(db, d, u),
         AllFitting(t, d, pushes), ~failing => Refreshes(pushes, user),
         NEW says \in Sayings, says # "login success"
  PROVE  Serves(t, Then(d, pushes \o <<Reply(t, says)>>))
<1>1. AllFitting(t, d, <<Reply(t, says)>>)
  BY ReplyFits
<1>2. /\ AllFitting(t, d, pushes \o <<Reply(t, says)>>)
      /\ ~failing => Refreshes(pushes \o <<Reply(t, says)>>, user)
  BY <1>1, ConcatFits
<1> QED
  BY <1>2 DEF Serves, Then

LEMMA LeaveRoomServes ==
  ASSUME Supplied, NEW t \in Tasks, t.cmd.op = "leave_room",
         NEW result \in leave_room(t)
  PROVE  Serves(t, result)
<1> DEFINE refused == \/ result \in Refuse(t, "login first")
                      \/ result \in Refuse(t, "invalid room id")
           refusals ==
             [error |-> "leave room failed",
              not_member_or_room_not_found |-> "room not found or not joined",
              owner_cannot_leave |-> "room owner cannot leave (delete room instead)"]
<1>1. CASE refused
  BY <1>1, RefuseServes DEF Sayings
<1>2. CASE ~refused
  <2>1. t.user_id \in Users
    BY <1>2 DEF leave_room, LoggedIn, Tasks
  <2>2. PICK o \in Call(Db!leave_room(db, t.user_id, t.cmd.room_id)) :
          result \in
            IF o.answer # "left"
            THEN {Then(o.db, <<Reply(t, refusals[o.answer])>>)}
            ELSE {Then(o.db, pushes \o <<Reply(t, "left room")>>) :
                    pushes \in RefreshUser(o.db, t.user_id)}
    BY <1>2 DEF leave_room, LoggedIn, RoomGiven
  <2>3. /\ Follows(db, o.db)
        /\ \A u : u # t.user_id => SameFor(db, o.db, u)
        /\ ~Failed(o) /\ o.answer # "left" => o.db = db
        /\ o.answer \in {"error", "not_member_or_room_not_found",
                         "owner_cannot_leave", "left"}
    BY CallOutcome, LeaveRoomFollows DEF Supplied
  <2>4. ~failing => ~Failed(o)
    BY CallOutcome, LeaveRoomCanSucceed
  <2>5. {refusals["error"], refusals["not_member_or_room_not_found"],
         refusals["owner_cannot_leave"]} \subseteq Sayings \ {"login success"}
    BY DEF Sayings
  <2> HIDE DEF refusals
  <2>6. CASE o.answer # "left"
    <3>1. refusals[o.answer] \in Sayings /\ refusals[o.answer] # "login success"
      BY <2>3, <2>5, <2>6
    <3>2. ~failing => \A u : SameFor(db, o.db, u)
      BY <2>3, <2>4, <2>6, KeepsItself DEF Keeps, Supplied
    <3>3. AllFitting(t, o.db, <<Reply(t, refusals[o.answer])>>)
      BY <3>1, ReplyFits
    <3> QED
      BY <2>2, <2>3, <2>6, <3>2, <3>3 DEF Serves, Then
  <2>7. CASE o.answer = "left"
    <3>1. PICK pushes \in RefreshUser(o.db, t.user_id) :
            result = Then(o.db, pushes \o <<Reply(t, "left room")>>)
      BY <2>2, <2>7
    <3>2. Tables(o.db) /\ 1..(o.db.next_room - 1) \subseteq Rooms
      BY <2>3 DEF Follows, Supplied, Tables
    <3>3. AllFitting(t, o.db, pushes) /\ (~failing => Refreshes(pushes, t.user_id))
      BY <2>1, <3>2, RefreshUserFits
    <3>4. "left room" \in Sayings /\ "left room" # "login success"
      BY DEF Sayings
    <3> QED
      BY <2>3, <3>1, <3>3, <3>4, RefreshingServes
  <2> QED
    BY <2>6, <2>7
<1> QED
  BY <1>1, <1>2

LEMMA InviteRoomServes ==
  ASSUME Supplied, NEW t \in Tasks, t.cmd.op = "invite_room",
         NEW result \in invite_room(t)
  PROVE  Serves(t, result)
<1> DEFINE refused == \/ result \in Refuse(t, "login first")
                      \/ result \in Refuse(t, "cannot invite yourself")
                      \/ result \in Refuse(t, "invalid room id")
           refusals ==
             [error |-> "invite room failed", already_member |-> "user already in room",
              not_friend |-> "can invite friends only",
              room_not_found_or_no_permission |-> "room not found or no permission"]
<1>1. CASE refused
  BY <1>1, RefuseServes DEF Sayings
<1>2. CASE ~refused
  <2>1. t.user_id \in Users /\ t.cmd.user \in Users
    <3>1. t.user_id # Empty
      BY <1>2 DEF invite_room, LoggedIn
    <3>2. t.user_id \in Users \cup {Empty} /\ t.cmd.user \in Users
      BY DEF Tasks, ClientCommands
    <3> QED
      BY <3>1, <3>2
  <2>2. PICK o \in Call(Db!invite_room(db, t.user_id, t.cmd.room_id, t.cmd.user)) :
          result \in
            IF o.answer # "invited"
            THEN {Then(o.db, <<Reply(t, refusals[o.answer])>>)}
            ELSE {Then(o.db, pushes \o <<Reply(t, "room invite sent")>>) :
                    pushes \in RefreshUsers(o.db, t.user_id, t.cmd.user)}
    BY <1>2 DEF invite_room, LoggedIn, RoomGiven
  <2>3. /\ Follows(db, o.db)
        /\ \A u : u # t.cmd.user => SameFor(db, o.db, u)
        /\ ~Failed(o) /\ o.answer # "invited" => o.db = db
        /\ o.answer \in {"error", "already_member", "not_friend", "invited",
                         "room_not_found_or_no_permission"}
    BY <2>1, CallOutcome, InviteRoomFollows DEF Supplied
  <2>4. ~failing => ~Failed(o)
    BY CallOutcome, InviteRoomCanSucceed
  <2>5. {refusals["error"], refusals["already_member"], refusals["not_friend"],
         refusals["room_not_found_or_no_permission"]} \subseteq Sayings \ {"login success"}
    BY DEF Sayings
  <2> HIDE DEF refusals
  <2>6. CASE o.answer # "invited"
    <3>1. refusals[o.answer] \in Sayings /\ refusals[o.answer] # "login success"
      BY <2>3, <2>5, <2>6
    <3>2. ~failing => \A u : SameFor(db, o.db, u)
      BY <2>3, <2>4, <2>6, KeepsItself DEF Keeps, Supplied
    <3>3. AllFitting(t, o.db, <<Reply(t, refusals[o.answer])>>)
      BY <3>1, ReplyFits
    <3> QED
      BY <2>2, <2>3, <2>6, <3>2, <3>3 DEF Serves, Then
  <2>7. CASE o.answer = "invited"
    <3>1. PICK pushes \in RefreshUsers(o.db, t.user_id, t.cmd.user) :
            result = Then(o.db, pushes \o <<Reply(t, "room invite sent")>>)
      BY <2>2, <2>7
    <3>. PICK p \in RefreshUser(o.db, t.user_id), q \in RefreshUser(o.db, t.cmd.user) :
            pushes = p \o q
      BY DEF RefreshUsers
    <3>2. Tables(o.db) /\ 1..(o.db.next_room - 1) \subseteq Rooms
      BY <2>3 DEF Follows, Supplied, Tables
    <3>3. /\ AllFitting(t, o.db, p)
          /\ AllFitting(t, o.db, q)
          /\ ~failing => Refreshes(q, t.cmd.user)
      BY <2>1, <3>2, RefreshUserFits
    <3>4. /\ AllFitting(t, o.db, p \o q)
          /\ ~failing => Refreshes(p \o q, t.cmd.user)
      BY <3>3, ConcatFits
    <3>5. "room invite sent" \in Sayings /\ "room invite sent" # "login success"
      BY DEF Sayings
    <3> QED
      BY <2>3, <3>1, <3>4, <3>5, RefreshingServes
  <2> QED
    BY <2>6, <2>7
<1> QED
  BY <1>1, <1>2

-----------------------------------------------------------------------------
(* A login.                                                                *)

\* What it pushes when id and password are right, when they are not, and when
\* the database failed.
Admission(t, n) ==
  <<SetUserId(t.fd, t.cmd.id), SetJoinedRooms(t.fd, JoinedRooms(db, t.cmd.id)),
    ChangeNickname(t.fd, n), Reply(t, "login success")>>

Rejection(t) ==
  <<SetUserId(t.fd, Empty), SetJoinedRooms(t.fd, {}), ChangeNickname(t.fd, Guest),
    Reply(t, "login failed")>>

Breakdown(t) ==
  <<Reply(t, "login failed"), SetUserId(t.fd, Empty), SetJoinedRooms(t.fd, {}),
    ChangeNickname(t.fd, Guest)>>

Identifies(t, result) ==
  /\ result.db = db
  /\ \/ \E n \in Nicks : result.pushes = Admission(t, n)
     \/ result.pushes = Rejection(t)
     \/ failing /\ result.pushes = Breakdown(t)

LEMMA ThreeAndOne ==
  ASSUME NEW a, NEW b, NEW c, NEW x
  PROVE  /\ <<a, b, c>> \o <<x>> = <<a, b, c, x>>
         /\ <<x>> \o <<a, b, c>> = <<x, a, b, c>>
<1> DEFINE S == {a, b, c, x}
           s == <<a, b, c>>
           e == <<x>>
           first == <<a, b, c, x>>
           last == <<x, a, b, c>>
<1>1. /\ s \in Seq(S) /\ Len(s) = 3 /\ s[1] = a /\ s[2] = b /\ s[3] = c
      /\ e \in Seq(S) /\ Len(e) = 1 /\ e[1] = x
  OBVIOUS
<1>2. /\ first \in Seq(S) /\ Len(first) = 4
      /\ first[1] = a /\ first[2] = b /\ first[3] = c /\ first[4] = x
      /\ last \in Seq(S) /\ Len(last) = 4
      /\ last[1] = x /\ last[2] = a /\ last[3] = b /\ last[4] = c
  OBVIOUS
<1> HIDE DEF S, s, e, first, last
<1>3. /\ s \o e \in Seq(S) /\ Len(s \o e) = Len(s) + Len(e)
      /\ \A i \in 1..(Len(s) + Len(e)) :
           (s \o e)[i] = IF i <= Len(s) THEN s[i] ELSE e[i - Len(s)]
  BY <1>1, ConcatProperties
<1>4. /\ e \o s \in Seq(S) /\ Len(e \o s) = Len(e) + Len(s)
      /\ \A i \in 1..(Len(e) + Len(s)) :
           (e \o s)[i] = IF i <= Len(e) THEN e[i] ELSE s[i - Len(e)]
  BY <1>1, ConcatProperties
<1>5. Len(s \o e) = 4 /\ \A i \in 1..4 : (s \o e)[i] = first[i]
  BY <1>1, <1>2, <1>3
<1>6. Len(e \o s) = 4 /\ \A i \in 1..4 : (e \o s)[i] = last[i]
  BY <1>1, <1>2, <1>4
<1>7. s \o e = first /\ e \o s = last
  BY <1>2, <1>3, <1>4, <1>5, <1>6, SeqEqual
<1> QED
  BY <1>7 DEF s, e, first, last

LEMMA LogOutConcat ==
  ASSUME NEW t
  PROVE  /\ LogOut(t.fd) \o <<Reply(t, "login failed")>> = Rejection(t)
         /\ <<Reply(t, "login failed")>> \o LogOut(t.fd) = Breakdown(t)
<1> DEFINE a == SetUserId(t.fd, Empty)
           b == SetJoinedRooms(t.fd, {})
           c == ChangeNickname(t.fd, Guest)
           x == Reply(t, "login failed")
<1>1. /\ LogOut(t.fd) = <<a, b, c>>
      /\ Rejection(t) = <<a, b, c, x>>
      /\ Breakdown(t) = <<x, a, b, c>>
  BY DEF LogOut, Rejection, Breakdown
<1> HIDE DEF a, b, c, x
<1>2. /\ <<a, b, c>> \o <<x>> = <<a, b, c, x>>
      /\ <<x>> \o <<a, b, c>> = <<x, a, b, c>>
  BY ThreeAndOne
<1> QED
  BY <1>1, <1>2 DEF x

LEMMA LoginIdentifies ==
  ASSUME Supplied, NEW t \in Tasks, t.cmd.op = "login", NEW result \in login(t)
  PROVE  Identifies(t, result)
<1> DEFINE failed == Reply(t, "login failed")
           outcomes == Db!login(db, t.cmd.id, t.cmd.pw)
           loads(d) == load_joined_room_ids(d, t.cmd.id)
<1>1. PICK o \in Call(outcomes) :
        \/ /\ o.answer = "found"
           /\ \E p \in loads(o.db) :
                result = IF Failed(p) THEN Then(p.db, <<failed>> \o LogOut(t.fd))
                         ELSE Then(p.db, <<SetUserId(t.fd, t.cmd.id),
                                           SetJoinedRooms(t.fd, p.value),
                                           ChangeNickname(t.fd, o.value),
                                           Reply(t, "login success")>>)
        \/ /\ o.answer # "found"
           /\ result = Then(o.db, IF Failed(o) THEN <<failed>> \o LogOut(t.fd)
                                  ELSE LogOut(t.fd) \o <<failed>>)
  BY DEF login
<1>2. /\ o.db = db
      /\ Failed(o) => o.answer = "error"
      /\ ~Failed(o) /\ o.answer = "found" => o.value \in Nicks
  <2>1. o \in outcomes
    BY CallOutcome
  <2>2. t.cmd.id \in DOMAIN db.users => db.users[t.cmd.id].nickname \in Nicks
    BY DEF Supplied, Tables
  <2> QED
    BY <2>1, <2>2, TransactionOutcome DEF Db!login, Failed, Db!Error
<1>3. ~failing => ~Failed(o)
  <2>1. \E p \in outcomes : ~Failed(p)
    BY DEF Db!login, Db!Transaction, Db!Outcome, Failed, Db!Error
  <2> QED
    BY <2>1, CallOutcome
<1>4. CASE o.answer = "found"
  <2>1. PICK p \in loads(db) :
          result = IF Failed(p) THEN Then(p.db, <<failed>> \o LogOut(t.fd))
                   ELSE Then(p.db, <<SetUserId(t.fd, t.cmd.id),
                                     SetJoinedRooms(t.fd, p.value),
                                     ChangeNickname(t.fd, o.value),
                                     Reply(t, "login success")>>)
    BY <1>1, <1>2, <1>4
  <2>2. /\ p.db = db
        /\ ~Failed(p) => p.value = JoinedRooms(db, t.cmd.id)
        /\ ~failing => ~Failed(p)
    BY LoadJoinedRooms
  <2>3. o.value \in Nicks
    BY <1>2, <1>4
  <2>4. result.db = db
    BY <2>1, <2>2 DEF Then
  <2>5. CASE Failed(p)
    BY <2>1, <2>2, <2>4, <2>5, LogOutConcat DEF Then, Identifies
  <2>6. CASE ~Failed(p)
    <3>1. result.pushes = Admission(t, o.value)
      BY <2>1, <2>2, <2>6 DEF Then, Admission
    <3> QED
      BY <2>3, <2>4, <3>1 DEF Identifies
  <2> QED
    BY <2>5, <2>6
<1>5. CASE o.answer # "found"
  <2>1. result = Then(db, IF Failed(o) THEN Breakdown(t) ELSE Rejection(t))
    BY <1>1, <1>2, <1>5, LogOutConcat
  <2> QED
    BY <1>3, <2>1 DEF Then, Identifies
<1> QED
  BY <1>4, <1>5

-----------------------------------------------------------------------------
(* A task is executed.                                                     *)

LEMMA TaskServes ==
  ASSUME Supplied, tasks \in Seq(Tasks), ExecuteNext
  PROVE  /\ todo = <<>> /\ tasks # <<>>
         /\ Head(tasks) \in Tasks /\ tasks' = Tail(tasks)
         /\ \/ /\ Head(tasks).cmd.op # "login"
               /\ Serves(Head(tasks), Then(db', todo'))
               /\ Head(tasks).cmd.op = "say" => Keeps(db, db')
            \/ /\ Head(tasks).cmd.op = "login"
               /\ Identifies(Head(tasks), Then(db', todo'))
<1>1. tasks # <<>> => Head(tasks) \in Tasks
  OBVIOUS
<1>2. CASE Execute("register", register(Head(tasks)))
  BY <1>1, <1>2, RegisterServes DEF Execute, Then, Serves
<1>3. CASE Execute("say", say(Head(tasks)))
  BY <1>1, <1>3, SayServes DEF Execute, Then, Serves
<1>4. CASE Execute("nick", nick(Head(tasks)))
  BY <1>1, <1>4, NickServes DEF Execute, Then, Serves
<1>5. CASE Execute("friend_request", friend_request(Head(tasks)))
  BY <1>1, <1>5, FriendRequestServes DEF Execute, Then, Serves
<1>6. CASE Execute("friend_accept", friend_accept(Head(tasks)))
  BY <1>1, <1>6, FriendAcceptServes DEF Execute, Then, Serves
<1>7. CASE Execute("friend_reject", friend_reject(Head(tasks)))
  BY <1>1, <1>7, FriendRejectServes DEF Execute, Then, Serves
<1>8. CASE Execute("friend_remove", friend_remove(Head(tasks)))
  BY <1>1, <1>8, FriendRemoveServes DEF Execute, Then, Serves
<1>9. CASE Execute("list_friend", list_friend(Head(tasks)))
  BY <1>1, <1>9, ListFriendServes DEF Execute, Then, Serves
<1>10. CASE Execute("list_friend_request", list_friend_request(Head(tasks)))
  BY <1>1, <1>10, ListFriendRequestServes DEF Execute, Then, Serves
<1>11. CASE Execute("create_room", create_room(Head(tasks)))
  BY <1>1, <1>11, CreateRoomServes DEF Execute, Then, Serves
<1>12. CASE Execute("delete_room", delete_room(Head(tasks)))
  BY <1>1, <1>12, DeleteRoomServes DEF Execute, Then, Serves
<1>13. CASE Execute("invite_room", invite_room(Head(tasks)))
  BY <1>1, <1>13, InviteRoomServes DEF Execute, Then, Serves
<1>14. CASE Execute("leave_room", leave_room(Head(tasks)))
  BY <1>1, <1>14, LeaveRoomServes DEF Execute, Then, Serves
<1>15. CASE Execute("list_room", list_room(Head(tasks)))
  BY <1>1, <1>15, ListRoomServes DEF Execute, Then, Serves
<1>16. CASE Execute("history", history(Head(tasks)))
  BY <1>1, <1>16, HistoryServes DEF Execute, Then, Serves
<1>17. CASE Execute("login", login(Head(tasks)))
  BY <1>1, <1>17, LoginIdentifies DEF Execute, Then, Identifies
<1> QED
  BY <1>2, <1>3, <1>4, <1>5, <1>6, <1>7, <1>8, <1>9, <1>10, <1>11, <1>12, <1>13, <1>14, <1>15, <1>16, <1>17 DEF ExecuteNext

-----------------------------------------------------------------------------
(* A command is obeyed.                                                    *)

\* What cmd makes of the session s on fd.
Obeyed(cmd, fd, s) ==
  IF cmd.op = "set_user_id" /\ cmd.fd = fd
  THEN [s EXCEPT !.user_id = cmd.user_id, !.rooms = {}]
  ELSE IF \/ cmd.op = "set_joined_rooms" /\ cmd.fd = fd
          \/ cmd.op = "set_joined_rooms_for_user" /\ cmd.user_id = s.user_id
  THEN [s EXCEPT !.rooms = {r \in cmd.room_ids : r > 0}]
  ELSE IF cmd.op = "change_nickname" /\ cmd.fd = fd
  THEN [s EXCEPT !.nickname = cmd.nick]
  ELSE s

NewSession == [user_id |-> Empty, nickname |-> Guest, rooms |-> {}]

\* Whose sessions are left, and what they have become.
SessionsAfter(cmd) ==
  /\ sessions' = [fd \in DOMAIN sessions' |-> sessions'[fd]]
  /\ \A fd \in DOMAIN sessions' :
       \/ /\ fd \in DOMAIN sessions
          /\ sessions'[fd] = Obeyed(cmd, fd, sessions[fd])
       \/ /\ fd \notin DOMAIN sessions
          /\ cmd.op = "register" /\ cmd.fd = fd
          /\ sessions'[fd] = NewSession

\* Who hears what.
HeardOf(cmd) ==
  \A fd \in DOMAIN delivered' :
    /\ fd \in DOMAIN sessions /\ fd \in DOMAIN sessions'
    /\ \/ /\ cmd.op = "send_one" /\ cmd.fd = fd
          /\ delivered'[fd] = Response(cmd.text)
       \/ /\ cmd.op = "send_friend_list"
          /\ delivered'[fd].kind = "friends"
       \/ /\ cmd.op = "room_broadcast"
          /\ cmd.room_id \in sessions[fd].rooms
          /\ delivered'[fd].kind = "room" /\ delivered'[fd].text = cmd.text

LEMMA SendKeepsSessions ==
  ASSUME NEW targets, NEW line, R!Send(targets, line)
  PROVE  /\ DOMAIN sessions' \subseteq DOMAIN sessions
         /\ sessions' = [fd \in DOMAIN sessions' |-> sessions[fd]]
         /\ \A fd \in DOMAIN delivered' : /\ fd \in targets
                                          /\ delivered'[fd] = line
                                          /\ fd \in DOMAIN sessions => fd \in DOMAIN sessions'
<1>1. PICK lost \in SUBSET targets :
        /\ sessions' = [fd \in DOMAIN sessions \ lost |-> sessions[fd]]
        /\ delivered' = [fd \in targets \ lost |-> line]
  BY DEF R!Send, R!Keep
<1> QED
  BY <1>1

LEMMA Unmoved ==
  ASSUME NEW cmd,
         cmd.op \in {"register", "unregister", "send_one", "send_friend_list",
                    "room_broadcast"},
         DOMAIN sessions' \subseteq DOMAIN sessions,
         sessions' = [fd \in DOMAIN sessions' |-> sessions[fd]]
  PROVE  SessionsAfter(cmd)
<1>1. \A fd \in DOMAIN sessions' : sessions'[fd] = sessions[fd]
  OBVIOUS
<1>2. \A fd, s : Obeyed(cmd, fd, s) = s
  BY DEF Obeyed
<1> QED
  BY <1>1, <1>2 DEF SessionsAfter

LEMMA UpdateObeys ==
  ASSUME NEW cmd, NEW fds, NEW moved,
         sessions' = [fd \in DOMAIN sessions |->
                        IF fd \in fds THEN moved[fd] ELSE sessions[fd]],
         \A fd \in DOMAIN sessions :
           Obeyed(cmd, fd, sessions[fd])
             = IF fd \in fds THEN moved[fd] ELSE sessions[fd]
  PROVE  SessionsAfter(cmd)
<1>1. DOMAIN sessions' = DOMAIN sessions
  OBVIOUS
<1>2. \A fd \in DOMAIN sessions' : sessions'[fd] = Obeyed(cmd, fd, sessions[fd])
  OBVIOUS
<1>3. sessions' = [fd \in DOMAIN sessions' |-> sessions'[fd]]
  OBVIOUS
<1> QED
  BY <1>1, <1>2, <1>3 DEF SessionsAfter

LEMMA ObeyEffect ==
  ASSUME TypeOK, R!Obey
  PROVE  /\ queue # <<>> /\ queue' = Tail(queue)
         /\ Head(queue) \in Commands
         /\ SessionsAfter(Head(queue))
         /\ HeardOf(Head(queue))
<1> DEFINE cmd == Head(queue)
<1>1. queue # <<>> /\ queue' = Tail(queue) /\ cmd \in Commands
  BY DEF TypeOK, R!Obey
<1> SUFFICES SessionsAfter(cmd) /\ HeardOf(cmd)
  BY <1>1
<1> HIDE DEF cmd
<1>a. ASSUME delivered' = R!Nothing PROVE HeardOf(cmd)
  <2>1. DOMAIN delivered' = {}
    BY <1>a DEF R!Nothing
  <2> QED
    BY <2>1 DEF HeardOf
<1>2. CASE cmd.op = "register" /\ R!Register(cmd.fd)
  <2>1. delivered' = R!Nothing
    BY <1>2 DEF R!Register
  <2>2. CASE sessions' = sessions
    <3>1. sessions' = [fd \in DOMAIN sessions' |-> sessions[fd]]
      BY <2>2 DEF TypeOK
    <3> QED
      BY <1>2, <1>a, <2>1, <2>2, <3>1, Unmoved
  <2>3. CASE sessions' # sessions
    <3>1. /\ cmd.fd \notin DOMAIN sessions
          /\ sessions' = [f \in DOMAIN sessions \cup {cmd.fd} |->
                            IF f = cmd.fd THEN NewSession ELSE sessions[f]]
      BY <1>2, <2>3 DEF R!Register, NewSession
    <3>2. \A fd, s : Obeyed(cmd, fd, s) = s
      BY <1>2 DEF Obeyed
    <3>3. /\ DOMAIN sessions' = DOMAIN sessions \cup {cmd.fd}
          /\ sessions' = [fd \in DOMAIN sessions' |-> sessions'[fd]]
          /\ sessions'[cmd.fd] = NewSession
          /\ \A fd \in DOMAIN sessions : sessions'[fd] = sessions[fd]
      BY <3>1
    <3>4. SessionsAfter(cmd)
      BY <1>2, <3>1, <3>2, <3>3 DEF SessionsAfter
    <3> QED
      BY <1>a, <2>1, <3>4
  <2> QED
    BY <2>2, <2>3
<1>3. CASE cmd.op = "unregister" /\ R!Unregister(cmd.fd)
  <2>1. /\ sessions' = [fd \in DOMAIN sessions \ {cmd.fd} |-> sessions[fd]]
        /\ delivered' = R!Nothing
    BY <1>3 DEF R!Unregister, R!Keep
  <2>2. /\ DOMAIN sessions' \subseteq DOMAIN sessions
        /\ sessions' = [fd \in DOMAIN sessions' |-> sessions[fd]]
    BY <2>1
  <2> QED
    BY <1>3, <1>a, <2>1, <2>2, Unmoved
<1>4. CASE cmd.op = "send_one" /\ R!SendOne(cmd)
  <2> DEFINE targets == {cmd.fd} \cap DOMAIN sessions
             line == R!Response(cmd.text)
  <2>1. R!Send(targets, line)
    BY <1>4 DEF R!SendOne
  <2>2. \A fd \in targets : fd = cmd.fd /\ fd \in DOMAIN sessions
    OBVIOUS
  <2>3. line = Response(cmd.text)
    BY DEF R!Response, Response
  <2> HIDE DEF targets, line
  <2>4. SessionsAfter(cmd)
    BY <1>4, <2>1, SendKeepsSessions, Unmoved
  <2>5. HeardOf(cmd)
    BY <1>4, <2>1, <2>2, <2>3, SendKeepsSessions DEF HeardOf
  <2> QED
    BY <2>4, <2>5
<1>5. CASE cmd.op = "change_nickname" /\ R!ChangeNickname(cmd)
  <2> DEFINE moved == [fd \in DOMAIN sessions |-> [sessions[fd] EXCEPT !.nickname = cmd.nick]]
  <2>1. /\ delivered' = R!Nothing
        /\ sessions' = [fd \in DOMAIN sessions |->
                          IF fd \in {cmd.fd} THEN moved[fd] ELSE sessions[fd]]
    BY <1>5 DEF R!ChangeNickname, R!Update
  <2>2. \A fd \in DOMAIN sessions :
          Obeyed(cmd, fd, sessions[fd])
            = IF fd \in {cmd.fd} THEN moved[fd] ELSE sessions[fd]
    BY <1>5 DEF Obeyed
  <2> HIDE DEF moved
  <2> QED
    BY <1>a, <2>1, <2>2, UpdateObeys
<1>6. CASE cmd.op = "set_user_id" /\ R!SetUserId(cmd)
  <2> DEFINE moved == [fd \in DOMAIN sessions |->
                         [sessions[fd] EXCEPT !.user_id = cmd.user_id, !.rooms = {}]]
  <2>1. /\ delivered' = R!Nothing
        /\ sessions' = [fd \in DOMAIN sessions |->
                          IF fd \in {cmd.fd} THEN moved[fd] ELSE sessions[fd]]
    BY <1>6 DEF R!SetUserId, R!Update
  <2>2. \A fd \in DOMAIN sessions :
          Obeyed(cmd, fd, sessions[fd])
            = IF fd \in {cmd.fd} THEN moved[fd] ELSE sessions[fd]
    BY <1>6 DEF Obeyed
  <2> HIDE DEF moved
  <2> QED
    BY <1>a, <2>1, <2>2, UpdateObeys
<1>7. CASE cmd.op = "set_joined_rooms" /\ R!SetRooms({cmd.fd}, cmd.room_ids)
  <2> DEFINE moved == [fd \in DOMAIN sessions |->
                         [sessions[fd] EXCEPT !.rooms = {r \in cmd.room_ids : r > 0}]]
  <2>1. /\ delivered' = R!Nothing
        /\ sessions' = [fd \in DOMAIN sessions |->
                          IF fd \in {cmd.fd} THEN moved[fd] ELSE sessions[fd]]
    BY <1>7 DEF R!SetRooms, R!Update
  <2>2. \A fd \in DOMAIN sessions :
          Obeyed(cmd, fd, sessions[fd])
            = IF fd \in {cmd.fd} THEN moved[fd] ELSE sessions[fd]
    BY <1>7 DEF Obeyed
  <2> HIDE DEF moved
  <2> QED
    BY <1>a, <2>1, <2>2, UpdateObeys
<1>8. CASE /\ cmd.op = "set_joined_rooms_for_user"
           /\ R!SetRooms(R!LoggedInAs(cmd.user_id), cmd.room_ids)
  <2> DEFINE moved == [fd \in DOMAIN sessions |->
                         [sessions[fd] EXCEPT !.rooms = {r \in cmd.room_ids : r > 0}]]
             fds == R!LoggedInAs(cmd.user_id)
  <2>1. /\ delivered' = R!Nothing
        /\ sessions' = [fd \in DOMAIN sessions |->
                          IF fd \in fds THEN moved[fd] ELSE sessions[fd]]
    BY <1>8 DEF R!SetRooms, R!Update
  <2>2. \A fd \in DOMAIN sessions :
          Obeyed(cmd, fd, sessions[fd])
            = IF fd \in fds THEN moved[fd] ELSE sessions[fd]
    BY <1>8 DEF Obeyed, R!LoggedInAs
  <2> HIDE DEF moved, fds
  <2> QED
    BY <1>a, <2>1, <2>2, UpdateObeys
<1>9. CASE cmd.op = "send_friend_list" /\ R!SendFriendList(cmd)
  <2> DEFINE targets == {cmd.fd} \cap DOMAIN sessions
             line == R!FriendList(cmd.friend_ids \cap R!Online)
  <2>1. R!Send(targets, line)
    BY <1>9 DEF R!SendFriendList
  <2>2. targets \subseteq DOMAIN sessions
    OBVIOUS
  <2>3. line.kind = "friends"
    BY DEF R!FriendList
  <2> HIDE DEF targets, line
  <2>4. SessionsAfter(cmd)
    BY <1>9, <2>1, SendKeepsSessions, Unmoved
  <2>5. HeardOf(cmd)
    BY <1>9, <2>1, <2>2, <2>3, SendKeepsSessions DEF HeardOf
  <2> QED
    BY <2>4, <2>5
<1>10. CASE cmd.op = "room_broadcast" /\ R!RoomBroadcast(cmd)
  <2> DEFINE targets == R!InRoom(cmd.room_id)
             line == R!Message(R!NameOf(cmd.fd), cmd.text)
  <2>1. R!Send(targets, line)
    BY <1>10 DEF R!RoomBroadcast
  <2>2. \A fd \in targets : fd \in DOMAIN sessions /\ cmd.room_id \in sessions[fd].rooms
    BY DEF R!InRoom
  <2>3. line.kind = "room" /\ line.text = cmd.text
    BY DEF R!Message
  <2> HIDE DEF targets, line
  <2>4. SessionsAfter(cmd)
    BY <1>10, <2>1, SendKeepsSessions, Unmoved
  <2>5. HeardOf(cmd)
    BY <1>10, <2>1, <2>2, <2>3, SendKeepsSessions DEF HeardOf
  <2> QED
    BY <2>4, <2>5
<1>11. \/ cmd.op = "register" /\ R!Register(cmd.fd)
       \/ cmd.op = "unregister" /\ R!Unregister(cmd.fd)
       \/ cmd.op = "send_one" /\ R!SendOne(cmd)
       \/ cmd.op = "change_nickname" /\ R!ChangeNickname(cmd)
       \/ cmd.op = "set_user_id" /\ R!SetUserId(cmd)
       \/ cmd.op = "set_joined_rooms" /\ R!SetRooms({cmd.fd}, cmd.room_ids)
       \/ /\ cmd.op = "set_joined_rooms_for_user"
          /\ R!SetRooms(R!LoggedInAs(cmd.user_id), cmd.room_ids)
       \/ cmd.op = "send_friend_list" /\ R!SendFriendList(cmd)
       \/ cmd.op = "room_broadcast" /\ R!RoomBroadcast(cmd)
  BY DEF R!Obey, cmd
<1> QED
  BY <1>1, <1>2, <1>3, <1>4, <1>5, <1>6, <1>7, <1>8, <1>9, <1>10, <1>11 DEF cmd

-----------------------------------------------------------------------------
(* Types.                                                                  *)

\* There are ids for the rooms that the tasks, and the commands left to be
\* read, can create.
RoomIdsLeft == 1..(db.next_room - 1 + Len(tasks) + MaxReads - reads) \subseteq Rooms

\* Sessions, and register commands, are of connections.
OfConnections ==
  /\ \A fd \in DOMAIN sessions : conn[fd] > 0
  /\ \A i \in DOMAIN queue : queue[i].op = "register" => conn[queue[i].fd] > 0

Typed == TypeOK /\ Tables(db) /\ RoomIdsLeft /\ OfConnections

\* What the fields of tasks and commands are.
LEMMA TaskFields ==
  ASSUME NEW t \in Tasks
  PROVE  /\ t.fd \in Fds
         /\ t.user_id \in Users \cup {Empty}
         /\ t.conn \in 1..MaxConns
         /\ t.number \in 1..MaxReads
         /\ t.cmd.op = "login" => t.cmd.id \in Users
  BY DEF Tasks, ClientCommands

LEMMA CommandFields ==
  ASSUME NEW cmd \in Commands
  PROVE  /\ cmd.op # "set_joined_rooms_for_user" => cmd.fd \in Fds
         /\ cmd.op = "change_nickname" => cmd.nick \in Nicks
         /\ cmd.op = "set_user_id" => cmd.user_id \in Users \cup {Empty}
         /\ cmd.op \in {"set_joined_rooms", "set_joined_rooms_for_user"}
              => cmd.room_ids \in SUBSET Rooms
         /\ cmd.op = "set_joined_rooms_for_user" => cmd.user_id \in Users
         /\ cmd.op \in {"register", "unregister"}
              => cmd = [op |-> cmd.op, fd |-> cmd.fd]
  BY DEF Commands, WorkerCommands

LEMMA InitTyped == Init => Typed
<1> SUFFICES ASSUME Init PROVE Typed
  OBVIOUS
<1>1. PICK start \in Starts : /\ db = start.db /\ sessions = start.sessions
                              /\ conn = start.conn /\ reads = start.reads
                              /\ outages = start.outages
  BY DEF Init
<1>2. Quiet(start)
  BY StartsAssumption
<1>3. /\ tasks = <<>> /\ todo = <<>> /\ queue = <<>>
      /\ failing = FALSE /\ calm = Fds
  BY DEF Init
<1>4. /\ queue \in Seq(Commands) /\ todo \in Seq(WorkerCommands)
      /\ tasks \in Seq(Tasks) /\ Len(tasks) = 0
      /\ DOMAIN tasks = {} /\ DOMAIN queue = {}
  BY <1>3
<1>5. TypeOK
  BY <1>1, <1>2, <1>3, <1>4 DEF Quiet, TypeOK
<1>6. RoomIdsLeft
  <2>1. /\ 1..(db.next_room - 1 + MaxReads - reads) \subseteq Rooms
        /\ db.next_room \in Nat
    BY <1>1, <1>2 DEF Quiet, Tables
  <2> QED
    BY <1>4, <1>5, <2>1, BoundsAssumption DEF RoomIdsLeft, TypeOK
<1> QED
  BY <1>1, <1>2, <1>4, <1>5, <1>6 DEF Quiet, Typed, OfConnections

\* A task of the connection on fd.
LEMMA NewTask ==
  ASSUME Typed, NEW fd, Open(fd), reads < MaxReads,
         NEW cmd \in ClientCommands \cup [op : {"response"}]
  PROVE  Task(cmd, fd, sessions[fd].user_id, conn[fd], reads + 1) \in Tasks
<1>1. fd \in Fds /\ fd \in DOMAIN sessions /\ sessions[fd] \in SessionStates
  BY DEF Typed, TypeOK, Open
<1>2. sessions[fd].user_id \in Users \cup {Empty}
  BY <1>1 DEF SessionStates
<1>3. conn[fd] \in 1..MaxConns
  BY <1>1, BoundsAssumption DEF Typed, TypeOK, OfConnections
<1>4. reads + 1 \in 1..MaxReads
  BY BoundsAssumption DEF Typed, TypeOK
<1> QED
  BY <1>1, <1>2, <1>3, <1>4 DEF Task, Tasks

\* A command is pushed that is no more than a reply or about a connection.
LEMMA PushTyped ==
  ASSUME Typed, NEW cmd \in Commands, Push(cmd),
         cmd.op = "register" => conn[cmd.fd]' > 0,
         \A fd \in Fds : conn'[fd] \in 0..MaxConns /\ conn'[fd] >= conn[fd],
         DOMAIN conn' = Fds, conn' = [fd \in Fds |-> conn'[fd]],
         reads' \in 0..MaxReads, reads' >= reads, calm' \subseteq Fds,
         UNCHANGED <<db, failing, tasks, todo, sessions, outages>>
  PROVE  Typed'
<1>1. /\ queue' \in Seq(Commands)
      /\ DOMAIN queue = 1..Len(queue) /\ Len(queue) \in Nat
      /\ DOMAIN queue' = 1..(Len(queue) + 1)
      /\ \A i \in 1..Len(queue) : queue'[i] = queue[i]
      /\ queue'[Len(queue) + 1] = cmd
  <2>1. queue \in Seq(Commands) /\ queue' = Append(queue, cmd)
    BY DEF Push, Typed, TypeOK
  <2> QED
    BY <2>1, AppendProperties, LenProperties
<1>2. \A fd \in Fds : conn[fd] \in Nat /\ conn'[fd] \in Nat
  BY BoundsAssumption DEF Typed, TypeOK
<1>3. TypeOK'
  <2>1. conn' \in [Fds -> 0..MaxConns]
    OBVIOUS
  <2>2. ASSUME NEW i \in DOMAIN tasks
        PROVE  tasks[i].conn <= conn'[tasks[i].fd] /\ tasks[i].number <= reads'
    <3>1. /\ tasks[i] \in Tasks
          /\ tasks[i].conn <= conn[tasks[i].fd] /\ tasks[i].number <= reads
      BY DEF Typed, TypeOK
    <3> QED
      BY <1>2, <3>1, TaskFields, BoundsAssumption DEF Typed, TypeOK
  <2> QED
    BY <1>1, <2>1, <2>2 DEF Typed, TypeOK
<1>4. OfConnections'
  <2>1. \A fd \in DOMAIN sessions : conn'[fd] > 0
    BY <1>2 DEF Typed, TypeOK, OfConnections
  <2>2. ASSUME NEW i \in DOMAIN queue', queue'[i].op = "register"
        PROVE  conn'[queue'[i].fd] > 0
    <3>1. CASE i = Len(queue) + 1
      BY <1>1, <2>2, <3>1
    <3>2. CASE i # Len(queue) + 1
      <4>1. i \in DOMAIN queue /\ queue'[i] = queue[i] /\ queue[i] \in Commands
        BY <1>1, <3>2 DEF Typed, TypeOK
      <4>2. queue[i].fd \in Fds /\ conn[queue[i].fd] > 0
        BY <2>2, <4>1, CommandFields DEF Typed, OfConnections
      <4> QED
        BY <1>2, <4>1, <4>2
    <3> QED
      BY <3>1, <3>2
  <2> QED
    BY <2>1, <2>2 DEF OfConnections
<1>5. RoomIdsLeft'
  <2>1. db.next_room \in Nat /\ Len(tasks) \in Nat
    BY DEF Typed, TypeOK, Tables
  <2> QED
    BY <2>1, BoundsAssumption, SMTT(30) DEF Typed, TypeOK, RoomIdsLeft
<1> QED
  BY <1>3, <1>4, <1>5 DEF Typed

\* Executing a task leaves tables with room for what is left.
LEMMA Supply ==
  ASSUME Typed, tasks # <<>>
  PROVE  Supplied
<1>1. Len(tasks) \in Nat \ {0} /\ db.next_room \in Nat
  BY EmptySeq DEF Typed, TypeOK, Tables
<1> QED
  BY <1>1, BoundsAssumption DEF Typed, TypeOK, RoomIdsLeft, Supplied

\* What is executed leaves tables that can follow, and commands to push.
LEMMA ExecuteFollows ==
  ASSUME Typed, ExecuteNext
  PROVE  /\ tasks # <<>> /\ tasks' = Tail(tasks) /\ Head(tasks) \in Tasks
         /\ Follows(db, db')
         /\ todo' \in Seq(WorkerCommands)
<1>1. tasks # <<>>
  BY DEF ExecuteNext, Execute
<1>2. Supplied
  BY <1>1, Supply
<1>3. /\ tasks' = Tail(tasks) /\ Head(tasks) \in Tasks
      /\ \/ Serves(Head(tasks), Then(db', todo'))
         \/ /\ Head(tasks).cmd.op = "login"
            /\ Identifies(Head(tasks), Then(db', todo'))
  BY <1>2, TaskServes DEF Typed, TypeOK
<1>4. CASE Serves(Head(tasks), Then(db', todo'))
  BY <1>1, <1>3, <1>4 DEF Serves, AllFitting, Then
<1>5. CASE /\ Head(tasks).cmd.op = "login"
           /\ Identifies(Head(tasks), Then(db', todo'))
  <2> DEFINE t == Head(tasks)
  <2>1. Follows(db, db')
    BY <1>5, KeepsItself DEF Typed, Identifies, Then, Keeps
  <2>2. t.fd \in Fds /\ t.cmd.id \in Users
    BY <1>3, <1>5, TaskFields
  <2>3. JoinedRooms(db, t.cmd.id) \in SUBSET Rooms
    BY <1>2 DEF JoinedRooms, Supplied, Tables
  <2>4. \A n \in Nicks :
          /\ SetUserId(t.fd, t.cmd.id) \in WorkerCommands
          /\ SetUserId(t.fd, Empty) \in WorkerCommands
          /\ SetJoinedRooms(t.fd, JoinedRooms(db, t.cmd.id)) \in WorkerCommands
          /\ SetJoinedRooms(t.fd, {}) \in WorkerCommands
          /\ ChangeNickname(t.fd, n) \in WorkerCommands
    BY <2>2, <2>3 DEF WorkerCommands, SetUserId, SetJoinedRooms, ChangeNickname
  <2>5. /\ Reply(t, "login success") \in WorkerCommands
        /\ Reply(t, "login failed") \in WorkerCommands
    <3>1. Says(t, "login success") \in Texts /\ Says(t, "login failed") \in Texts
      BY <1>3, TextsAssumption DEF TaskTexts, Says, Sayings
    <3> QED
      BY <2>2, <3>1 DEF Reply, WorkerCommands
  <2>6. \A a, b, c, x \in WorkerCommands : <<a, b, c, x>> \in Seq(WorkerCommands)
    OBVIOUS
  <2>7. /\ \A n \in Nicks : Admission(t, n) \in Seq(WorkerCommands)
        /\ Rejection(t) \in Seq(WorkerCommands)
        /\ Breakdown(t) \in Seq(WorkerCommands)
    BY <2>4, <2>5, <2>6, NamesAssumption DEF Admission, Rejection, Breakdown
  <2>8. todo' \in Seq(WorkerCommands)
    BY <1>5, <2>7 DEF Identifies, Then
  <2> QED
    BY <1>1, <1>3, <2>1, <2>8
<1> QED
  BY <1>3, <1>4, <1>5

LEMMA ExecuteTyped == Typed /\ ExecuteTask => Typed'
<1> SUFFICES ASSUME Typed, ExecuteTask PROVE Typed'
  OBVIOUS
<1>1. /\ tasks # <<>> /\ tasks' = Tail(tasks) /\ Head(tasks) \in Tasks
      /\ Follows(db, db') /\ todo' \in Seq(WorkerCommands)
  BY ExecuteFollows DEF ExecuteTask
<1>2. UNCHANGED <<failing, sessions, queue, conn, reads, outages, calm>>
  BY DEF ExecuteTask
<1>3. /\ tasks' \in Seq(Tasks) /\ Len(tasks') = Len(tasks) - 1
      /\ Len(tasks) \in Nat /\ Len(tasks') \in Nat
      /\ DOMAIN tasks' = 1..Len(tasks') /\ DOMAIN tasks = 1..Len(tasks)
      /\ \A i \in 1..Len(tasks') : tasks'[i] = tasks[i + 1]
  <2>1. tasks \in Seq(Tasks)
    BY DEF Typed, TypeOK
  <2> QED
    BY <1>1, <2>1, HeadTailProperties, LenProperties
<1>4. TypeOK'
  <2>1. \A i \in DOMAIN tasks' : i + 1 \in DOMAIN tasks /\ tasks'[i] = tasks[i + 1]
    BY <1>3
  <2> QED
    BY <1>1, <1>2, <1>3, <2>1 DEF Typed, TypeOK
<1>5. RoomIdsLeft'
  <2>1. db'.next_room \in {db.next_room, db.next_room + 1} /\ db.next_room \in Nat
    BY <1>1 DEF Follows, Typed, Tables
  <2>2. MaxReads \in Int /\ reads \in Int
    BY BoundsAssumption DEF Typed, TypeOK
  <2> DEFINE m == db'.next_room - 1 + Len(tasks') + MaxReads - reads
             n == db.next_room - 1 + Len(tasks) + MaxReads - reads
  <2>3. m \in Int /\ n \in Int /\ m <= n
    <3> DEFINE next == db'.next_room
               prev == db.next_room
               left == Len(tasks')
               before == Len(tasks)
    <3>1. /\ next \in {prev, prev + 1} /\ prev \in Nat
          /\ before \in Nat /\ left \in Nat /\ left = before - 1
      BY <1>3, <2>1
    <3> HIDE DEF next, prev, left, before
    <3>2. LET x == next - 1 + left + MaxReads - reads
              y == prev - 1 + before + MaxReads - reads
          IN  x \in Int /\ y \in Int /\ x <= y
      BY <2>2, <3>1
    <3> QED
      BY <3>2 DEF next, prev, left, before
  <2>4. 1..n \subseteq Rooms
    BY DEF Typed, RoomIdsLeft
  <2>5. RoomIdsLeft' <=> 1..m \subseteq Rooms
    BY <1>2 DEF RoomIdsLeft
  <2> HIDE DEF m, n
  <2> QED
    BY <2>3, <2>4, <2>5
<1> QED
  BY <1>1, <1>2, <1>4, <1>5 DEF Typed, Follows, OfConnections

LEMMA PushNextTyped == Typed /\ PushNext => Typed'
<1> SUFFICES ASSUME Typed, PushNext PROVE Typed'
  OBVIOUS
<1>1. /\ Head(todo) \in WorkerCommands /\ todo' \in Seq(WorkerCommands)
  BY HeadTailProperties DEF Typed, TypeOK, PushNext
<1>2. Head(todo).op # "register" /\ Head(todo) \in Commands
  BY <1>1 DEF WorkerCommands, Commands
<1>3. /\ queue' \in Seq(Commands)
      /\ DOMAIN queue = 1..Len(queue) /\ Len(queue) \in Nat
      /\ DOMAIN queue' = 1..(Len(queue) + 1)
      /\ \A i \in 1..Len(queue) : queue'[i] = queue[i]
      /\ queue'[Len(queue) + 1] = Head(todo)
  <2>1. queue \in Seq(Commands) /\ queue' = Append(queue, Head(todo))
    BY DEF Push, PushNext, Typed, TypeOK
  <2> QED
    BY <1>2, <2>1, AppendProperties, LenProperties
<1>4. OfConnections'
  <2>1. UNCHANGED <<conn, sessions>>
    BY DEF PushNext
  <2>2. ASSUME NEW i \in DOMAIN queue', queue'[i].op = "register"
        PROVE  conn[queue'[i].fd] > 0
    <3>1. i \in DOMAIN queue /\ queue'[i] = queue[i]
      BY <1>2, <1>3, <2>2
    <3> QED
      BY <2>2, <3>1 DEF Typed, OfConnections
  <2> QED
    BY <2>1, <2>2 DEF Typed, OfConnections
<1> QED
  BY <1>1, <1>3, <1>4 DEF PushNext, Typed, TypeOK, RoomIdsLeft

LEMMA ObeyTyped == Typed /\ Obey => Typed'
<1> SUFFICES ASSUME Typed, Obey PROVE Typed'
  OBVIOUS
<1> DEFINE cmd == Head(queue)
<1>1. /\ queue # <<>> /\ queue' = Tail(queue) /\ cmd \in Commands
      /\ SessionsAfter(cmd)
  BY ObeyEffect DEF Obey, Typed
<1>2. UNCHANGED <<db, failing, tasks, todo, conn, reads, outages, calm>>
  BY DEF Obey
<1>3. /\ queue' \in Seq(Commands) /\ Len(queue) \in Nat \ {0}
      /\ DOMAIN queue' = 1..(Len(queue) - 1) /\ DOMAIN queue = 1..Len(queue)
      /\ \A i \in DOMAIN queue' : queue'[i] = queue[i + 1]
      /\ cmd = queue[1]
  <2>1. queue \in Seq(Commands)
    BY DEF Typed, TypeOK
  <2> QED
    BY <1>1, <2>1, HeadTailProperties, LenProperties, EmptySeq
<1> HIDE DEF cmd
<1>4. ASSUME NEW fd \in DOMAIN sessions'
      PROVE  fd \in Fds /\ conn[fd] > 0 /\ sessions'[fd] \in SessionStates
  <2>1. CASE fd \in DOMAIN sessions
    <3>1. sessions[fd] \in SessionStates /\ fd \in Fds /\ conn[fd] > 0
      BY <2>1 DEF Typed, TypeOK, OfConnections
    <3>2. sessions'[fd] = Obeyed(cmd, fd, sessions[fd])
      BY <1>1, <2>1 DEF SessionsAfter
    <3>3. /\ cmd.op = "change_nickname" => cmd.nick \in Nicks
          /\ cmd.op = "set_user_id" => cmd.user_id \in Users \cup {Empty}
          /\ cmd.op \in {"set_joined_rooms", "set_joined_rooms_for_user"}
               => {r \in cmd.room_ids : r > 0} \in SUBSET Rooms
      BY <1>1, CommandFields
    <3> QED
      BY <3>1, <3>2, <3>3 DEF Obeyed, SessionStates
  <2>2. CASE fd \notin DOMAIN sessions
    <3>1. cmd.op = "register" /\ cmd.fd = fd /\ sessions'[fd] = NewSession
      BY <1>1, <2>2 DEF SessionsAfter
    <3>2. fd \in Fds
      BY <1>1, <3>1, CommandFields
    <3>3. conn[fd] > 0
      BY <1>3, <3>1 DEF Typed, OfConnections
    <3> QED
      BY <3>1, <3>2, <3>3, NamesAssumption DEF NewSession, SessionStates
  <2> QED
    BY <2>1, <2>2
<1>5. sessions' \in [DOMAIN sessions' -> SessionStates] /\ DOMAIN sessions' \subseteq Fds
  <2>1. sessions' = [fd \in DOMAIN sessions' |-> sessions'[fd]]
    BY <1>1 DEF SessionsAfter
  <2> QED
    BY <1>4, <2>1
<1>6. TypeOK'
  BY <1>2, <1>3, <1>5 DEF Typed, TypeOK
<1>7. OfConnections'
  BY <1>2, <1>3, <1>4 DEF Typed, OfConnections
<1> QED
  BY <1>2, <1>6, <1>7 DEF Typed, RoomIdsLeft

LEMMA ReadCommandTyped ==
  ASSUME Typed, NEW fd \in Fds, NEW cmd \in Script \cap ClientCommands,
         ReadCommand(fd, cmd)
  PROVE  Typed'
<1> DEFINE t == Task(cmd, fd, sessions[fd].user_id, conn[fd], reads + 1)
<1>1. t \in Tasks
  BY NewTask DEF ReadCommand
<1>2. tasks' = Append(tasks, t) /\ reads' = reads + 1 /\ reads < MaxReads
  BY DEF ReadCommand, Enqueue
<1>3. UNCHANGED <<db, failing, todo, sessions, queue, conn, outages>> /\ calm' \subseteq Fds
  BY DEF ReadCommand, Typed, TypeOK
<1>4. t.fd = fd /\ t.conn = conn[fd] /\ t.number = reads + 1
  BY DEF Task
<1>5. reads \in Nat /\ reads + 1 \in 0..MaxReads /\ reads' \in 0..MaxReads
  BY <1>2, BoundsAssumption DEF Typed, TypeOK
<1> HIDE DEF t
<1>6. /\ tasks' \in Seq(Tasks) /\ Len(tasks) \in Nat
      /\ Len(tasks') = Len(tasks) + 1
      /\ DOMAIN tasks = 1..Len(tasks) /\ DOMAIN tasks' = 1..(Len(tasks) + 1)
      /\ \A i \in 1..Len(tasks) : tasks'[i] = tasks[i]
      /\ tasks'[Len(tasks) + 1] = t
  <2>1. tasks \in Seq(Tasks)
    BY DEF Typed, TypeOK
  <2> QED
    BY <1>1, <1>2, <2>1, AppendProperties, LenProperties
<1>7. ASSUME NEW i \in DOMAIN tasks'
      PROVE  tasks'[i].conn <= conn[tasks'[i].fd] /\ tasks'[i].number <= reads'
  <2>1. CASE i = Len(tasks) + 1
    <3>1. conn[fd] \in Nat
      BY BoundsAssumption DEF Typed, TypeOK
    <3> QED
      BY <1>2, <1>4, <1>5, <1>6, <2>1, <3>1
  <2>2. CASE i # Len(tasks) + 1
    <3>1. i \in DOMAIN tasks /\ tasks'[i] = tasks[i] /\ tasks[i] \in Tasks
      BY <1>6, <2>2 DEF Typed, TypeOK
    <3>2. tasks[i].conn <= conn[tasks[i].fd] /\ tasks[i].number <= reads
      BY <3>1 DEF Typed, TypeOK
    <3>3. tasks[i].number \in Nat
      BY <3>1, TaskFields, BoundsAssumption
    <3> QED
      BY <1>2, <1>5, <3>1, <3>2, <3>3
  <2> QED
    BY <2>1, <2>2
<1>8. TypeOK'
  BY <1>3, <1>5, <1>6, <1>7 DEF Typed, TypeOK
<1>9. RoomIdsLeft'
  <2>1. db.next_room \in Nat
    BY DEF Typed, Tables
  <2> DEFINE n == db.next_room
             l == Len(tasks)
  <2>2. n - 1 + (l + 1) + MaxReads - (reads + 1) = n - 1 + l + MaxReads - reads
    <3>1. n \in Int /\ l \in Int /\ reads \in Int /\ MaxReads \in Int
      BY <1>5, <1>6, <2>1, BoundsAssumption
    <3> HIDE DEF n, l
    <3> QED
      BY <3>1
  <2> QED
    BY <1>2, <1>3, <1>6, <2>2 DEF Typed, RoomIdsLeft
<1> QED
  BY <1>3, <1>8, <1>9 DEF Typed, OfConnections

LEMMA NextTyped == Typed /\ [Next]_vars => Typed'
<1> SUFFICES ASSUME Typed, [Next]_vars PROVE Typed'
  OBVIOUS
<1>1. conn \in [Fds -> 0..MaxConns] /\ reads \in 0..MaxReads
  BY DEF Typed, TypeOK
<1>2. ASSUME NEW fd \in Fds, Connect(fd) PROVE Typed'
  <2> DEFINE cmd == [op |-> "register", fd |-> fd]
  <2>1. cmd \in Commands /\ Push(cmd) /\ cmd.fd = fd
    BY <1>2 DEF Connect, Commands
  <2>2. /\ conn' = [conn EXCEPT ![fd] = @ + 1] /\ conn[fd] < MaxConns
        /\ UNCHANGED <<db, failing, tasks, todo, sessions, reads, outages>>
        /\ calm' \subseteq Fds
    BY <1>2 DEF Connect, Typed, TypeOK
  <2>3. /\ \A f \in Fds : conn'[f] \in 0..MaxConns /\ conn'[f] >= conn[f]
        /\ DOMAIN conn' = Fds /\ conn' = [f \in Fds |-> conn'[f]]
        /\ conn'[fd] > 0
    <3>1. /\ \A f \in Fds : conn'[f] = IF f = fd THEN conn[fd] + 1 ELSE conn[f]
          /\ DOMAIN conn' = Fds /\ conn' = [f \in Fds |-> conn'[f]]
          /\ \A f \in Fds : conn[f] \in 0..MaxConns
      BY <1>1, <2>2
    <3> QED
      BY <2>2, <3>1, BoundsAssumption
  <2>4. reads' \in 0..MaxReads /\ reads' >= reads
    BY <1>1, <2>2, BoundsAssumption
  <2> HIDE DEF cmd
  <2> QED
    BY <2>1, <2>2, <2>3, <2>4, PushTyped
<1>3. ASSUME NEW fd \in Fds, Hangup(fd) PROVE Typed'
  <2> DEFINE cmd == [op |-> "unregister", fd |-> fd]
  <2>1. cmd \in Commands /\ Push(cmd) /\ cmd.op # "register"
    BY <1>3 DEF Hangup, Commands
  <2>2. /\ UNCHANGED <<db, failing, tasks, todo, sessions, conn, reads, outages>>
        /\ calm' \subseteq Fds
    BY <1>3 DEF Hangup, Typed, TypeOK
  <2>3. /\ \A f \in Fds : conn'[f] \in 0..MaxConns /\ conn'[f] >= conn[f]
        /\ DOMAIN conn' = Fds /\ conn' = [f \in Fds |-> conn'[f]]
        /\ reads' \in 0..MaxReads /\ reads' >= reads
    BY <1>1, <2>2, BoundsAssumption
  <2> HIDE DEF cmd
  <2> QED
    BY <2>1, <2>2, <2>3, PushTyped
<1>4. ASSUME NEW fd \in Fds, NEW cmd \in Script \cap ClientCommands,
             ReadCommand(fd, cmd)
      PROVE  Typed'
  BY <1>4, ReadCommandTyped
<1>5. ASSUME NEW fd \in Fds, Echo(fd) PROVE Typed'
  <2> DEFINE t == Task([op |-> "response"], fd, sessions[fd].user_id, conn[fd], reads + 1)
             cmd == Reply(t, "echo")
  <2>1. t \in Tasks
    BY <1>5, NewTask DEF Echo
  <2>2. Push(cmd) /\ reads' = reads + 1 /\ reads < MaxReads
    BY <1>5 DEF Echo
  <2>3. cmd \in Commands /\ cmd.op # "register"
    <3>1. "echo" \in Sayings /\ "echo" # "login success"
      BY DEF Sayings
    <3> HIDE DEF t
    <3>2. Fitting(t, db, Reply(t, "echo"))
      BY <2>1, <3>1, ReplyFits
    <3> QED
      BY <3>2 DEF Fitting, Commands, Reply
  <2>4. /\ UNCHANGED <<db, failing, tasks, todo, sessions, conn, outages>>
        /\ calm' \subseteq Fds
    BY <1>5 DEF Echo, Typed, TypeOK
  <2>5. /\ \A f \in Fds : conn'[f] \in 0..MaxConns /\ conn'[f] >= conn[f]
        /\ DOMAIN conn' = Fds /\ conn' = [f \in Fds |-> conn'[f]]
        /\ reads' \in 0..MaxReads /\ reads' >= reads
    BY <1>1, <2>2, <2>4, BoundsAssumption
  <2> HIDE DEF t, cmd
  <2> QED
    BY <2>2, <2>3, <2>4, <2>5, PushTyped
<1>6. CASE DatabaseFails
  <2>1. outages' \in 0..MaxOutages /\ failing' \in BOOLEAN /\ calm' \subseteq Fds
    BY <1>6, BoundsAssumption DEF DatabaseFails, Typed, TypeOK
  <2> QED
    BY <1>6, <2>1 DEF DatabaseFails, Typed, TypeOK, RoomIdsLeft, OfConnections
<1>7. CASE DatabaseRecovers
  BY <1>7 DEF DatabaseRecovers, Typed, TypeOK, RoomIdsLeft, OfConnections
<1>8. CASE UNCHANGED vars
  BY <1>8 DEF vars, Typed, TypeOK, RoomIdsLeft, OfConnections
<1> QED
  BY <1>2, <1>3, <1>4, <1>5, <1>6, <1>7, <1>8, ExecuteTyped, PushNextTyped, ObeyTyped DEF Next

\* Commands, tasks and sessions have their types in every state, for any
\* script and any quiet states to start from (TypeOK).
THEOREM TypeCorrect == Spec => []TypeOK
<1>1. Init => Typed
  BY InitTyped
<1>2. Typed /\ [Next]_vars => Typed'
  BY NextTyped
<1>3. Typed => TypeOK
  BY DEF Typed
<1> QED
  BY <1>1, <1>2, <1>3, PTL DEF Spec

-----------------------------------------------------------------------------
(* What is ahead: the commands pushed, and then those to be pushed.        *)

Ahead == queue \o todo

\* What a step does to it.
Slipped(cmd) ==
  /\ DOMAIN Ahead' = 1..(Len(Ahead) + 1)
  /\ Len(Ahead') = Len(Ahead) + 1
  /\ \A i \in 1..Len(queue) : Ahead'[i] = Ahead[i]
  /\ Ahead'[Len(queue) + 1] = cmd
  /\ \A i \in (Len(queue) + 2)..(Len(Ahead) + 1) : Ahead'[i] = Ahead[i - 1]

Grown(pushes) ==
  /\ DOMAIN Ahead' = 1..(Len(Ahead) + Len(pushes))
  /\ Len(Ahead') = Len(Ahead) + Len(pushes)
  /\ \A i \in 1..Len(Ahead) : Ahead'[i] = Ahead[i]
  /\ \A i \in 1..Len(pushes) : Ahead'[Len(Ahead) + i] = pushes[i]

Taken ==
  /\ Ahead # <<>> /\ Ahead[1] = Head(queue)
  /\ Len(Ahead) \in Nat \ {0}
  /\ Len(Ahead') = Len(Ahead) - 1
  /\ DOMAIN Ahead' = 1..(Len(Ahead) - 1)
  /\ \A i \in DOMAIN Ahead' : i + 1 \in DOMAIN Ahead /\ Ahead'[i] = Ahead[i + 1]

\* Two sequences one after the other.
LEMMA ConcatFacts ==
  ASSUME NEW p \in Seq(Commands), NEW r \in Seq(Commands)
  PROVE  /\ p \o r \in Seq(Commands)
         /\ Len(p \o r) = Len(p) + Len(r) /\ DOMAIN (p \o r) = 1..Len(p \o r)
         /\ \A i \in 1..Len(p) : (p \o r)[i] = p[i]
         /\ \A i \in 1..Len(r) : (p \o r)[Len(p) + i] = r[i]
<1>1. /\ p \o r \in Seq(Commands)
      /\ Len(p \o r) = Len(p) + Len(r)
      /\ \A i \in 1..(Len(p) + Len(r)) :
           (p \o r)[i] = IF i <= Len(p) THEN p[i] ELSE r[i - Len(p)]
  BY ConcatProperties
<1>2. Len(p) \in Nat /\ Len(r) \in Nat /\ DOMAIN (p \o r) = 1..Len(p \o r)
  BY <1>1, LenProperties
<1>3. \A i \in 1..Len(p) : (p \o r)[i] = p[i]
  BY <1>1, <1>2
<1>4. \A i \in 1..Len(r) : (p \o r)[Len(p) + i] = r[i]
  BY <1>1, <1>2
<1> QED
  BY <1>1, <1>2, <1>3, <1>4

LEMMA QueuesType ==
  ASSUME TypeOK
  PROVE  queue \in Seq(Commands) /\ todo \in Seq(Commands)
<1>1. WorkerCommands \subseteq Commands
  BY DEF Commands
<1> QED
  BY <1>1, SeqMonotonic DEF TypeOK

LEMMA AheadFacts ==
  ASSUME Typed
  PROVE  /\ Ahead \in Seq(Commands)
         /\ queue \in Seq(Commands) /\ todo \in Seq(Commands)
         /\ Len(queue) \in Nat /\ Len(todo) \in Nat /\ Len(Ahead) \in Nat
         /\ Len(Ahead) = Len(queue) + Len(todo)
         /\ DOMAIN Ahead = 1..Len(Ahead)
         /\ DOMAIN queue = 1..Len(queue) /\ DOMAIN todo = 1..Len(todo)
         /\ \A i \in 1..Len(queue) : Ahead[i] = queue[i]
         /\ \A i \in 1..Len(todo) : Ahead[Len(queue) + i] = todo[i]
         /\ \A i \in DOMAIN Ahead : Ahead[i] \in Commands
<1>1. queue \in Seq(Commands) /\ todo \in Seq(Commands)
  BY QueuesType DEF Typed
<1>2. /\ Ahead \in Seq(Commands)
      /\ Len(Ahead) = Len(queue) + Len(todo) /\ DOMAIN Ahead = 1..Len(Ahead)
      /\ \A i \in 1..Len(queue) : Ahead[i] = queue[i]
      /\ \A i \in 1..Len(todo) : Ahead[Len(queue) + i] = todo[i]
  BY <1>1, ConcatFacts DEF Ahead
<1>3. /\ Len(queue) \in Nat /\ Len(todo) \in Nat /\ Len(Ahead) \in Nat
      /\ DOMAIN queue = 1..Len(queue) /\ DOMAIN todo = 1..Len(todo)
  BY <1>1, <1>2, LenProperties
<1>4. \A i \in DOMAIN Ahead : Ahead[i] \in Commands
  BY <1>2, <1>3, ElementOfSeq
<1> QED
  BY <1>1, <1>2, <1>3, <1>4

\* The same, a step later.
LEMMA AheadFactsThen ==
  ASSUME Typed'
  PROVE  /\ Ahead' \in Seq(Commands)
         /\ Len(Ahead') = Len(queue') + Len(todo') /\ DOMAIN Ahead' = 1..Len(Ahead')
         /\ \A i \in 1..Len(queue') : Ahead'[i] = queue'[i]
         /\ \A i \in 1..Len(todo') : Ahead'[Len(queue') + i] = todo'[i]
<1>1. todo' \in Seq(WorkerCommands) /\ queue' \in Seq(Commands)
  BY DEF Typed, TypeOK
<1>2. todo' \in Seq(Commands)
  <2>1. WorkerCommands \subseteq Commands
    BY DEF Commands
  <2> QED
    BY <1>1, <2>1, SeqMonotonic
<1>3. Ahead' = queue' \o todo'
  BY DEF Ahead
<1> DEFINE p == queue'
           r == todo'
<1> HIDE DEF p, r
<1>4. p \in Seq(Commands) /\ r \in Seq(Commands)
  BY <1>1, <1>2 DEF p, r
<1>5. /\ p \o r \in Seq(Commands)
      /\ Len(p \o r) = Len(p) + Len(r) /\ DOMAIN (p \o r) = 1..Len(p \o r)
      /\ \A i \in 1..Len(p) : (p \o r)[i] = p[i]
      /\ \A i \in 1..Len(r) : (p \o r)[Len(p) + i] = r[i]
  BY <1>4, ConcatFacts
<1> QED
  BY <1>3, <1>5 DEF p, r

LEMMA PushSlips ==
  ASSUME Typed, Typed', NEW cmd, Push(cmd), todo' = todo
  PROVE  Slipped(cmd)
<1>1. /\ Len(queue') = Len(queue) + 1
      /\ \A i \in 1..Len(queue) : queue'[i] = queue[i]
      /\ queue'[Len(queue) + 1] = cmd
  <2>1. queue' = Append(queue, cmd) /\ queue \in Seq(Commands)
    BY AheadFacts DEF Push
  <2> QED
    BY <2>1
<1> DEFINE q == Len(queue)
           n == Len(Ahead)
           s == Ahead
           z == Ahead'
<1>2. /\ q \in Nat /\ n \in Nat /\ Len(todo) \in Nat /\ n = q + Len(todo)
      /\ \A i \in 1..q : s[i] = queue[i]
      /\ \A i \in 1..Len(todo) : s[q + i] = todo[i]
  BY AheadFacts
<1>3. /\ Len(z) = q + 1 + Len(todo) /\ DOMAIN z = 1..Len(z)
      /\ \A i \in 1..(q + 1) : z[i] = queue'[i]
      /\ \A i \in 1..Len(todo) : z[q + 1 + i] = todo[i]
  <2>1. /\ Len(Ahead') = Len(queue') + Len(todo') /\ DOMAIN Ahead' = 1..Len(Ahead')
        /\ \A i \in 1..Len(queue') : Ahead'[i] = queue'[i]
        /\ \A i \in 1..Len(todo') : Ahead'[Len(queue') + i] = todo'[i]
    BY AheadFactsThen
  <2> QED
    BY <1>1, <2>1
<1> HIDE DEF q, n, s, z
<1>4. ASSUME NEW i \in (q + 2)..(n + 1) PROVE z[i] = s[i - 1]
  <2>1. i - (q + 1) \in 1..Len(todo)
    BY <1>2
  <2>2. z[q + 1 + (i - (q + 1))] = todo[i - (q + 1)]
        /\ s[q + (i - (q + 1))] = todo[i - (q + 1)]
    BY <1>2, <1>3, <2>1
  <2> QED
    BY <1>2, <2>2
<1>5. Len(z) = n + 1
  BY <1>2, <1>3
<1>6. /\ \A i \in 1..q : z[i] = s[i]
      /\ z[q + 1] = cmd
  BY <1>1, <1>2, <1>3 DEF q
<1> QED
  BY <1>3, <1>4, <1>5, <1>6 DEF q, n, s, z, Slipped

\* Where a command was before another one slipped in.
Was(i) == IF i <= Len(queue) THEN i ELSE i - 1

LEMMA SlippedParts ==
  ASSUME Typed, NEW cmd, Slipped(cmd)
  PROVE  /\ Len(queue) + 1 \in DOMAIN Ahead' /\ Ahead'[Len(queue) + 1] = cmd
         /\ \A i \in DOMAIN Ahead' :
              i # Len(queue) + 1 => Was(i) \in DOMAIN Ahead /\ Ahead'[i] = Ahead[Was(i)]
         /\ \A i, j \in DOMAIN Ahead' :
              i # Len(queue) + 1 /\ j # Len(queue) + 1 /\ i < j => Was(i) < Was(j)
<1> DEFINE q == Len(queue)
           n == Len(Ahead)
           s == Ahead
           z == Ahead'
<1>1. q \in Nat /\ n \in Nat /\ q <= n /\ DOMAIN s = 1..n
  BY AheadFacts
<1>2. /\ DOMAIN z = 1..(n + 1)
      /\ \A i \in 1..q : z[i] = s[i]
      /\ z[q + 1] = cmd
      /\ \A i \in (q + 2)..(n + 1) : z[i] = s[i - 1]
  BY DEF Slipped
<1>3. \A i : Was(i) = IF i <= q THEN i ELSE i - 1
  BY DEF Was
<1> HIDE DEF q, n, s, z
<1>4. q + 1 \in DOMAIN z
  BY <1>1, <1>2
<1>5. ASSUME NEW i \in DOMAIN z, i # q + 1
      PROVE  Was(i) \in DOMAIN s /\ z[i] = s[Was(i)]
  <2>1. CASE i <= q
    BY <1>1, <1>2, <1>3, <2>1
  <2>2. CASE ~(i <= q)
    <3>1. i \in (q + 2)..(n + 1)
      BY <1>1, <1>2, <1>5, <2>2
    <3> QED
      BY <1>1, <1>2, <1>3, <2>2, <3>1
  <2> QED
    BY <2>1, <2>2
<1>6. \A i, j \in DOMAIN z : i # q + 1 /\ j # q + 1 /\ i < j => Was(i) < Was(j)
  BY <1>1, <1>2, <1>3
<1> QED
  BY <1>2, <1>4, <1>5, <1>6 DEF q, s, z

\* What has been there, and what has been added.
LEMMA GrownParts ==
  ASSUME Typed, NEW pushes, Len(pushes) \in Nat, DOMAIN pushes = 1..Len(pushes),
         Grown(pushes)
  PROVE  /\ DOMAIN Ahead \subseteq DOMAIN Ahead'
         /\ DOMAIN Ahead' \subseteq Nat
         /\ \A i \in DOMAIN Ahead : Ahead'[i] = Ahead[i]
         /\ \A i \in DOMAIN Ahead' \ DOMAIN Ahead :
              /\ i > Len(Ahead) /\ i - Len(Ahead) \in DOMAIN pushes
              /\ Ahead'[i] = pushes[i - Len(Ahead)]
              /\ \A j \in DOMAIN Ahead : j < i
<1> DEFINE n == Len(Ahead)
           m == Len(pushes)
           s == Ahead
           z == Ahead'
<1>1. n \in Nat /\ m \in Nat /\ DOMAIN s = 1..n /\ DOMAIN pushes = 1..m
  BY AheadFacts
<1>2. /\ DOMAIN z = 1..(n + m)
      /\ \A i \in 1..n : z[i] = s[i]
      /\ \A i \in 1..m : z[n + i] = pushes[i]
  BY DEF Grown
<1> HIDE DEF n, m, s, z
<1>3. ASSUME NEW i \in DOMAIN z \ DOMAIN s
      PROVE  /\ i > n /\ i - n \in DOMAIN pushes
             /\ z[i] = pushes[i - n]
             /\ \A j \in DOMAIN s : j < i
  <2>1. i \in Int /\ i > n /\ i - n \in 1..m
    BY <1>1, <1>2
  <2>2. z[n + (i - n)] = pushes[i - n]
    BY <1>2, <2>1
  <2>3. n + (i - n) = i
    BY <1>1, <2>1
  <2> QED
    BY <1>1, <2>1, <2>2, <2>3
<1> QED
  BY <1>1, <1>2, <1>3 DEF n, m, s, z

LEMMA PushNextSlides ==
  ASSUME Typed, PushNext
  PROVE  Ahead' = Ahead
<1>1. queue \in Seq(Commands) /\ todo \in Seq(Commands) /\ todo # <<>>
  BY AheadFacts DEF PushNext
<1> DEFINE x == Head(todo)
           rest == Tail(todo)
<1>2. x \in Commands /\ rest \in Seq(Commands) /\ todo = <<x>> \o rest
  BY <1>1
<1>3. queue' = queue \o <<x>> /\ todo' = rest
  BY <1>1, <1>2, AppendIsConcat DEF PushNext, Push
<1>4. <<x>> \in Seq(Commands)
  BY <1>2
<1> HIDE DEF x, rest
<1>5. (queue \o <<x>>) \o rest = queue \o (<<x>> \o rest)
  BY <1>1, <1>2, <1>4, ConcatAssociative
<1> QED
  BY <1>2, <1>3, <1>5 DEF Ahead

LEMMA ExecuteGrows ==
  ASSUME Typed, Typed', ExecuteTask
  PROVE  Grown(todo')
<1>1. todo = <<>> /\ queue' = queue
  BY DEF ExecuteTask, ExecuteNext, Execute
<1>2. Ahead = queue
  BY <1>1, AheadFacts, ConcatEmptySeq DEF Ahead
<1>3. /\ Len(Ahead') = Len(queue') + Len(todo') /\ DOMAIN Ahead' = 1..Len(Ahead')
      /\ \A i \in 1..Len(queue') : Ahead'[i] = queue'[i]
      /\ \A i \in 1..Len(todo') : Ahead'[Len(queue') + i] = todo'[i]
  BY AheadFactsThen
<1> QED
  BY <1>1, <1>2, <1>3 DEF Grown

LEMMA ObeyTakes ==
  ASSUME Typed, Obey
  PROVE  Taken
<1>1. queue # <<>> /\ queue' = Tail(queue) /\ todo' = todo
  BY DEF Obey, R!Obey
<1>2. queue \in Seq(Commands) /\ todo \in Seq(Commands) /\ Ahead \in Seq(Commands)
  BY AheadFacts
<1>3. /\ Len(queue) \in Nat \ {0} /\ Len(todo) \in Nat /\ Len(Ahead) \in Nat
      /\ Len(Ahead) = Len(queue) + Len(todo)
  BY <1>1, <1>2, AheadFacts, EmptySeq
<1>4. Ahead # <<>> /\ Ahead[1] = Head(queue) /\ Len(Ahead) \in Nat \ {0}
  <2>1. Ahead[1] = queue[1] /\ Head(queue) = queue[1]
    BY <1>1, <1>2, <1>3, AheadFacts
  <2> QED
    BY <1>2, <1>3, <2>1
<1>5. Ahead' = Tail(Ahead)
  <2>1. Tail(queue) \o todo = Tail(queue \o todo)
    BY <1>1, <1>2
  <2> QED
    BY <1>1, <2>1 DEF Ahead
<1>6. /\ Len(Ahead') = Len(Ahead) - 1 /\ Ahead' \in Seq(Commands)
      /\ \A i \in 1..Len(Ahead') : Ahead'[i] = Ahead[i + 1]
  BY <1>2, <1>4, <1>5, HeadTailProperties
<1>7. DOMAIN Ahead' = 1..Len(Ahead') /\ DOMAIN Ahead = 1..Len(Ahead)
  BY <1>2, <1>6, LenProperties
<1> QED
  BY <1>4, <1>6, <1>7 DEF Taken

-----------------------------------------------------------------------------
(* Replies.                                                                *)

\* A reply goes to the session that asked.
Genuine ==
  \A i \in DOMAIN Ahead :
    Ahead[i].op = "send_one" =>
      LET t == Ahead[i].text.task IN
      /\ t \in Tasks /\ t.fd = Ahead[i].fd
      /\ t.conn <= conn[t.fd] /\ t.number <= reads
      /\ Ahead[i].text.says = "login success" => t.cmd.op = "login"

\* Tasks are in the order they were read,
Numbered ==
  \A i, j \in DOMAIN tasks : i < j => tasks[i].number < tasks[j].number

\* replies to one asker are in the order he asked,
Ordered ==
  \A i, j \in DOMAIN Ahead :
    /\ i < j /\ IsReply(Ahead[i]) /\ IsReply(Ahead[j])
    /\ SameAsker(Ahead[i].text.task, Ahead[j].text.task)
    => Ahead[i].text.task.number <= Ahead[j].text.task.number

\* and what is not executed yet was read later.
Older ==
  \A i \in DOMAIN Ahead, j \in DOMAIN tasks :
    IsReply(Ahead[i]) /\ SameAsker(Ahead[i].text.task, tasks[j])
      => Ahead[i].text.task.number < tasks[j].number

Orderly == Genuine /\ Numbered /\ Ordered /\ Older

LEMMA FourElements ==
  ASSUME NEW a, NEW b, NEW c, NEW x, NEW s, s = <<a, b, c, x>>
  PROVE  /\ DOMAIN s = 1..4 /\ Len(s) = 4
         /\ s[1] = a /\ s[2] = b /\ s[3] = c /\ s[4] = x
  OBVIOUS

\* What a login pushes, one command after the other.
LEMMA LoginPushes ==
  ASSUME NEW t, NEW result, Identifies(t, result)
  PROVE  /\ Len(result.pushes) = 4 /\ DOMAIN result.pushes = 1..4
         /\ \/ \E n \in Nicks :
                 /\ result.pushes[1] = SetUserId(t.fd, t.cmd.id)
                 /\ result.pushes[2] = SetJoinedRooms(t.fd, JoinedRooms(db, t.cmd.id))
                 /\ result.pushes[3] = ChangeNickname(t.fd, n)
                 /\ result.pushes[4] = Reply(t, "login success")
            \/ /\ result.pushes[1] = SetUserId(t.fd, Empty)
               /\ result.pushes[2] = SetJoinedRooms(t.fd, {})
               /\ result.pushes[3] = ChangeNickname(t.fd, Guest)
               /\ result.pushes[4] = Reply(t, "login failed")
            \/ /\ failing
               /\ result.pushes[1] = Reply(t, "login failed")
               /\ result.pushes[2] = SetUserId(t.fd, Empty)
               /\ result.pushes[3] = SetJoinedRooms(t.fd, {})
               /\ result.pushes[4] = ChangeNickname(t.fd, Guest)
<1> DEFINE s == result.pushes
           a == SetUserId(t.fd, t.cmd.id)
           b == SetJoinedRooms(t.fd, JoinedRooms(db, t.cmd.id))
           c(n) == ChangeNickname(t.fd, n)
           x == Reply(t, "login success")
           out == SetUserId(t.fd, Empty)
           nowhere == SetJoinedRooms(t.fd, {})
           nameless == ChangeNickname(t.fd, Guest)
           failed == Reply(t, "login failed")
<1>1. \/ \E n \in Nicks : s = <<a, b, c(n), x>>
      \/ s = <<out, nowhere, nameless, failed>>
      \/ failing /\ s = <<failed, out, nowhere, nameless>>
  BY DEF Identifies, Admission, Rejection, Breakdown
<1> HIDE DEF s, a, b, c, x, out, nowhere, nameless, failed
<1>2. /\ Len(s) = 4 /\ DOMAIN s = 1..4
      /\ \/ \E n \in Nicks : s[1] = a /\ s[2] = b /\ s[3] = c(n) /\ s[4] = x
         \/ s[1] = out /\ s[2] = nowhere /\ s[3] = nameless /\ s[4] = failed
         \/ /\ failing
            /\ s[1] = failed /\ s[2] = out /\ s[3] = nowhere /\ s[4] = nameless
  <2>1. CASE \E n \in Nicks : s = <<a, b, c(n), x>>
    <3>1. PICK n \in Nicks : s = <<a, b, c(n), x>>
      BY <2>1
    <3> QED
      BY <3>1, FourElements
  <2>2. CASE s = <<out, nowhere, nameless, failed>>
    BY <2>2, FourElements
  <2>3. CASE failing /\ s = <<failed, out, nowhere, nameless>>
    BY <2>3, FourElements
  <2> QED
    BY <1>1, <2>1, <2>2, <2>3
<1> QED
  BY <1>2 DEF s, a, b, c, x, out, nowhere, nameless, failed

\* The same, by what the commands have in their fields.
SetsIdentity(cmd, fd, id) == cmd.op = "set_user_id" /\ cmd.fd = fd /\ cmd.user_id = id
GivesRooms(cmd, fd, room_ids) ==
  cmd.op = "set_joined_rooms" /\ cmd.fd = fd /\ cmd.room_ids = room_ids
Renames(cmd, fd) == cmd.op = "change_nickname" /\ cmd.fd = fd
Answers(cmd, t, says) ==
  /\ cmd.op = "send_one" /\ cmd.fd = t.fd
  /\ cmd.text.task = t /\ cmd.text.says = says

AdmissionKind(s, t) ==
  /\ SetsIdentity(s[1], t.fd, t.cmd.id)
  /\ GivesRooms(s[2], t.fd, JoinedRooms(db, t.cmd.id))
  /\ Renames(s[3], t.fd) /\ Answers(s[4], t, "login success")

RejectionKind(s, t) ==
  /\ SetsIdentity(s[1], t.fd, Empty) /\ GivesRooms(s[2], t.fd, {})
  /\ Renames(s[3], t.fd) /\ Answers(s[4], t, "login failed")

BreakdownKind(s, t) ==
  /\ Answers(s[1], t, "login failed") /\ SetsIdentity(s[2], t.fd, Empty)
  /\ GivesRooms(s[3], t.fd, {}) /\ Renames(s[4], t.fd)

LEMMA LoginKinds ==
  ASSUME NEW t, NEW d, NEW s, Identifies(t, Then(d, s))
  PROVE  /\ d = db /\ Len(s) = 4 /\ DOMAIN s = 1..4
         /\ \/ AdmissionKind(s, t)
            \/ RejectionKind(s, t)
            \/ failing /\ BreakdownKind(s, t)
<1>1. /\ \A u, v : SetsIdentity(SetUserId(u, v), u, v)
      /\ \A u, v : GivesRooms(SetJoinedRooms(u, v), u, v)
      /\ \A u, v : Renames(ChangeNickname(u, v), u)
      /\ \A v : Answers(Reply(t, v), t, v)
  BY DEF SetsIdentity, GivesRooms, Renames, Answers, SetUserId, SetJoinedRooms,
         ChangeNickname, Reply, Says
<1>2. Then(d, s).db = d /\ Then(d, s).pushes = s
  BY DEF Then
<1>3. /\ d = db /\ Len(s) = 4 /\ DOMAIN s = 1..4
      /\ \/ \E n \in Nicks :
              /\ s[1] = SetUserId(t.fd, t.cmd.id)
              /\ s[2] = SetJoinedRooms(t.fd, JoinedRooms(db, t.cmd.id))
              /\ s[3] = ChangeNickname(t.fd, n)
              /\ s[4] = Reply(t, "login success")
         \/ /\ s[1] = SetUserId(t.fd, Empty)
            /\ s[2] = SetJoinedRooms(t.fd, {})
            /\ s[3] = ChangeNickname(t.fd, Guest)
            /\ s[4] = Reply(t, "login failed")
         \/ /\ failing
            /\ s[1] = Reply(t, "login failed")
            /\ s[2] = SetUserId(t.fd, Empty)
            /\ s[3] = SetJoinedRooms(t.fd, {})
            /\ s[4] = ChangeNickname(t.fd, Guest)
  <2> DEFINE result == Then(d, s)
  <2>1. result.db = d /\ result.pushes = s
    BY <1>2
  <2>2. Identifies(t, result)
    BY DEF result
  <2> HIDE DEF result
  <2>3. result.db = db
    BY <2>2 DEF Identifies
  <2> QED
    BY <2>1, <2>2, <2>3, LoginPushes
<1>4. CASE \E n \in Nicks :
             /\ s[1] = SetUserId(t.fd, t.cmd.id)
             /\ s[2] = SetJoinedRooms(t.fd, JoinedRooms(db, t.cmd.id))
             /\ s[3] = ChangeNickname(t.fd, n)
             /\ s[4] = Reply(t, "login success")
  <2>1. AdmissionKind(s, t)
    BY <1>1, <1>4 DEF AdmissionKind
  <2> QED
    BY <1>3, <2>1
<1>5. CASE /\ s[1] = SetUserId(t.fd, Empty)
           /\ s[2] = SetJoinedRooms(t.fd, {})
           /\ s[3] = ChangeNickname(t.fd, Guest)
           /\ s[4] = Reply(t, "login failed")
  <2>1. RejectionKind(s, t)
    BY <1>1, <1>5 DEF RejectionKind
  <2> QED
    BY <1>3, <2>1
<1>6. CASE /\ failing
           /\ s[1] = Reply(t, "login failed")
           /\ s[2] = SetUserId(t.fd, Empty)
           /\ s[3] = SetJoinedRooms(t.fd, {})
           /\ s[4] = ChangeNickname(t.fd, Guest)
  <2>1. BreakdownKind(s, t)
    BY <1>1, <1>6 DEF BreakdownKind
  <2> QED
    BY <1>3, <1>6, <2>1
<1> QED
  BY <1>3, <1>4, <1>5, <1>6

\* Where the commands of one kind are among the four.
LEMMA LoginReplies ==
  ASSUME NEW t, NEW s, DOMAIN s = 1..4, NEW i \in DOMAIN s, s[i].op = "send_one",
         \/ AdmissionKind(s, t)
         \/ RejectionKind(s, t)
         \/ BreakdownKind(s, t)
  PROVE  /\ s[i].fd = t.fd /\ s[i].text.task = t
         /\ s[i].text.says = "login success" => i = 4 /\ AdmissionKind(s, t)
<1>1. i = 1 \/ i = 2 \/ i = 3 \/ i = 4
  <2>1. i \in 1..4
    OBVIOUS
  <2> QED
    BY <2>1
<1>2. CASE AdmissionKind(s, t)
  <2>1. /\ s[1].op = "set_user_id" /\ s[2].op = "set_joined_rooms"
        /\ s[3].op = "change_nickname" /\ Answers(s[4], t, "login success")
    BY <1>2 DEF AdmissionKind, SetsIdentity, GivesRooms, Renames
  <2>2. i = 4
    BY <1>1, <2>1
  <2> QED
    BY <1>2, <2>1, <2>2 DEF Answers
<1>3. CASE RejectionKind(s, t)
  <2>1. /\ s[1].op = "set_user_id" /\ s[2].op = "set_joined_rooms"
        /\ s[3].op = "change_nickname" /\ Answers(s[4], t, "login failed")
    BY <1>3 DEF RejectionKind, SetsIdentity, GivesRooms, Renames
  <2>2. i = 4
    BY <1>1, <2>1
  <2> QED
    BY <2>1, <2>2 DEF Answers
<1>4. CASE BreakdownKind(s, t)
  <2>1. /\ s[2].op = "set_user_id" /\ s[3].op = "set_joined_rooms"
        /\ s[4].op = "change_nickname" /\ Answers(s[1], t, "login failed")
    BY <1>4 DEF BreakdownKind, SetsIdentity, GivesRooms, Renames
  <2>2. i = 1
    BY <1>1, <2>1
  <2> QED
    BY <2>1, <2>2 DEF Answers
<1> QED
  BY <1>2, <1>3, <1>4

LEMMA PushedReplies ==
  ASSUME Typed, ExecuteTask, NEW i \in DOMAIN todo', todo'[i].op = "send_one"
  PROVE  /\ todo'[i].fd = Head(tasks).fd
         /\ todo'[i].text.task = Head(tasks)
         /\ todo'[i].text.says = "login success" => Head(tasks).cmd.op = "login"
<1> DEFINE t == Head(tasks)
<1>1. \/ Serves(t, Then(db', todo'))
      \/ t.cmd.op = "login" /\ Identifies(t, Then(db', todo'))
  <2>1. Supplied
    BY Supply DEF ExecuteTask, ExecuteNext, Execute
  <2> QED
    BY <2>1, TaskServes DEF ExecuteTask, Typed, TypeOK
<1> HIDE DEF t
<1>2. CASE Serves(t, Then(db', todo'))
  BY <1>2 DEF Serves, AllFitting, Fitting, Then, t
<1>3. CASE t.cmd.op = "login" /\ Identifies(t, Then(db', todo'))
  <2> DEFINE s == todo'
  <2>1. Identifies(t, Then(db', s)) /\ t.cmd.op = "login"
    BY <1>3
  <2>2. i \in DOMAIN s /\ s[i].op = "send_one"
    OBVIOUS
  <2> HIDE DEF s
  <2>3. /\ DOMAIN s = 1..4
        /\ \/ AdmissionKind(s, t)
           \/ RejectionKind(s, t)
           \/ BreakdownKind(s, t)
    BY <2>1, LoginKinds
  <2>4. /\ s[i].fd = t.fd /\ s[i].text.task = t
        /\ s[i].text.says = "login success" => i = 4 /\ AdmissionKind(s, t)
    BY <2>2, <2>3, LoginReplies
  <2> QED
    BY <2>1, <2>4 DEF s, t
<1> QED
  BY <1>1, <1>2, <1>3

LEMMA InitOrderly == Init => Orderly
<1> SUFFICES ASSUME Init PROVE Orderly
  OBVIOUS
<1>1. Typed
  BY InitTyped
<1>2. DOMAIN Ahead = {} /\ DOMAIN tasks = {}
  <2>1. Len(queue) = 0 /\ Len(todo) = 0 /\ tasks = <<>>
    BY DEF Init
  <2> QED
    BY <1>1, <2>1, AheadFacts
<1> QED
  BY <1>2 DEF Orderly, Genuine, Numbered, Ordered, Older

\* A command slips in that is no reply of the worker's.
LEMMA SlipOrderly ==
  ASSUME Typed, Orderly, NEW cmd, Slipped(cmd), ~IsReply(cmd),
         cmd.op = "send_one" =>
           /\ cmd.text.task \in Tasks /\ cmd.text.task.fd = cmd.fd
           /\ cmd.text.task.conn <= conn'[cmd.fd] /\ cmd.text.task.number <= reads'
           /\ cmd.text.says = "echo",
         tasks' = tasks, reads \in Int, reads' \in Int, reads' >= reads,
         \A fd \in Fds : conn[fd] \in Int /\ conn'[fd] \in Int /\ conn'[fd] >= conn[fd]
  PROVE  Orderly'
<1> DEFINE k == Len(queue) + 1
<1>1. \A i \in DOMAIN Ahead' : i # k => Was(i) \in DOMAIN Ahead /\ Ahead'[i] = Ahead[Was(i)]
  BY SlippedParts
<1>2. \A i, j \in DOMAIN Ahead' : i # k /\ j # k /\ i < j => Was(i) < Was(j)
  BY SlippedParts
<1>3. Ahead'[k] = cmd
  BY SlippedParts
<1> HIDE DEF k
<1>4. Genuine'
  <2> SUFFICES ASSUME NEW i \in DOMAIN Ahead', Ahead'[i].op = "send_one"
               PROVE  LET t == Ahead'[i].text.task IN
                      /\ t \in Tasks /\ t.fd = Ahead'[i].fd
                      /\ t.conn <= conn'[t.fd] /\ t.number <= reads'
                      /\ Ahead'[i].text.says = "login success" => t.cmd.op = "login"
    BY DEF Genuine
  <2>1. CASE i = k
    BY <1>3, <2>1
  <2>2. CASE i # k
    <3> DEFINE x == Ahead[Was(i)]
               t == x.text.task
    <3>1. Ahead'[i] = x /\ Was(i) \in DOMAIN Ahead
      BY <1>1, <2>2
    <3>2. /\ t \in Tasks /\ t.fd = x.fd
          /\ t.conn <= conn[t.fd] /\ t.number <= reads
          /\ x.text.says = "login success" => t.cmd.op = "login"
      BY <3>1 DEF Orderly, Genuine
    <3> HIDE DEF x
    <3>3. t.fd \in Fds /\ t.conn \in 1..MaxConns /\ t.number \in 1..MaxReads
      BY <3>2, TaskFields
    <3> HIDE DEF t
    <3>4. t.conn <= conn'[t.fd] /\ t.number <= reads'
      <4>1. /\ conn[t.fd] \in Int /\ conn'[t.fd] \in Int
            /\ conn[t.fd] <= conn'[t.fd] /\ reads <= reads'
            /\ t.conn \in Int /\ t.number \in Int
        BY <3>3, BoundsAssumption
      <4>2. t.conn <= conn[t.fd] /\ t.number <= reads
        BY <3>2
      <4>3. t.conn <= conn'[t.fd]
        BY <4>1, <4>2
      <4>4. t.number <= reads'
        BY <4>1, <4>2
      <4> QED
        BY <4>3, <4>4
    <3> QED
      BY <3>1, <3>2, <3>4 DEF t
  <2> QED
    BY <2>1, <2>2
<1>5. \A i \in DOMAIN Ahead' : IsReply(Ahead'[i]) => i # k
  BY <1>3
<1>6. Ordered'
  BY <1>1, <1>2, <1>5 DEF Orderly, Ordered
<1>7. Older'
  BY <1>1, <1>5 DEF Orderly, Older
<1> QED
  BY <1>4, <1>6, <1>7 DEF Orderly, Numbered

LEMMA ReadOrderly ==
  ASSUME Typed, Orderly, NEW fd \in Fds, NEW cmd \in Script \cap ClientCommands,
         ReadCommand(fd, cmd)
  PROVE  Orderly'
<1> DEFINE t == Task(cmd, fd, sessions[fd].user_id, conn[fd], reads + 1)
<1>1. /\ tasks' = Append(tasks, t) /\ reads' = reads + 1
      /\ Ahead' = Ahead /\ conn' = conn
  BY DEF ReadCommand, Enqueue, Ahead
<1>2. t.number = reads + 1 /\ t \in Tasks
  <2>1. t \in Tasks
    BY NewTask DEF ReadCommand
  <2> QED
    BY <2>1 DEF Task
<1>3. reads \in Int
  BY BoundsAssumption DEF Typed, TypeOK
<1> HIDE DEF t
<1>4. /\ DOMAIN tasks' = 1..(Len(tasks) + 1) /\ Len(tasks) \in Nat
      /\ \A i \in 1..Len(tasks) : tasks'[i] = tasks[i] /\ i \in DOMAIN tasks
      /\ tasks'[Len(tasks) + 1] = t
  <2>1. tasks \in Seq(Tasks)
    BY DEF Typed, TypeOK
  <2> QED
    BY <1>1, <1>2, <2>1, AppendProperties, LenProperties
<1>5. \A i \in 1..Len(tasks) : tasks[i].number \in Int /\ tasks[i].number <= reads
  BY <1>4, TaskFields DEF Typed, TypeOK
<1>6. Genuine'
  <2>1. ASSUME NEW i \in DOMAIN Ahead, Ahead[i].op = "send_one"
        PROVE  Ahead[i].text.task.number <= reads + 1
    <3>1. Ahead[i].text.task \in Tasks /\ Ahead[i].text.task.number <= reads
      BY <2>1 DEF Orderly, Genuine
    <3> QED
      BY <1>3, <3>1, TaskFields
  <2> QED
    BY <1>1, <2>1 DEF Orderly, Genuine
<1>7. Numbered'
  <2> SUFFICES ASSUME NEW i \in DOMAIN tasks', NEW j \in DOMAIN tasks', i < j
               PROVE  tasks'[i].number < tasks'[j].number
    BY DEF Numbered
  <2>1. i \in 1..Len(tasks) /\ tasks'[i] = tasks[i]
    BY <1>4
  <2>2. CASE j = Len(tasks) + 1
    <3>1. tasks[i].number \in Int /\ tasks[i].number <= reads
      BY <1>5, <2>1
    <3> QED
      BY <1>2, <1>3, <1>4, <2>1, <2>2, <3>1
  <2>3. CASE j # Len(tasks) + 1
    BY <1>4, <2>1, <2>3 DEF Orderly, Numbered
  <2> QED
    BY <2>2, <2>3
<1>8. Older'
  <2> SUFFICES ASSUME NEW i \in DOMAIN Ahead, NEW j \in DOMAIN tasks',
                      IsReply(Ahead[i]), SameAsker(Ahead[i].text.task, tasks'[j])
               PROVE  Ahead[i].text.task.number < tasks'[j].number
    BY <1>1 DEF Older
  <2>1. CASE j = Len(tasks) + 1
    <3>1. Ahead[i].text.task \in Tasks /\ Ahead[i].text.task.number <= reads
      BY DEF Orderly, Genuine, IsReply
    <3> QED
      BY <1>2, <1>3, <1>4, <2>1, <3>1, TaskFields
  <2>2. CASE j # Len(tasks) + 1
    BY <1>4, <2>2 DEF Orderly, Older
  <2> QED
    BY <2>1, <2>2
<1> QED
  BY <1>1, <1>6, <1>7, <1>8 DEF Orderly, Ordered

LEMMA ExecuteOrderly == Typed /\ Typed' /\ Orderly /\ ExecuteTask => Orderly'
<1> SUFFICES ASSUME Typed, Typed', Orderly, ExecuteTask PROVE Orderly'
  OBVIOUS
<1> DEFINE t == Head(tasks)
           n == Len(Ahead)
<1>1. Grown(todo') /\ conn' = conn /\ reads' = reads
  BY ExecuteGrows DEF ExecuteTask
<1>2. tasks # <<>> /\ tasks' = Tail(tasks) /\ t \in Tasks
  BY ExecuteFollows DEF ExecuteTask
<1>3. /\ Len(tasks) \in Nat \ {0} /\ t = tasks[1] /\ 1 \in DOMAIN tasks
      /\ \A j \in DOMAIN tasks' : /\ j + 1 \in DOMAIN tasks /\ 1 < j + 1
                                  /\ tasks'[j] = tasks[j + 1]
  <2>1. tasks \in Seq(Tasks)
    BY DEF Typed, TypeOK
  <2>2. /\ tasks' \in Seq(Tasks) /\ Len(tasks') = Len(tasks) - 1
        /\ \A j \in 1..Len(tasks') : tasks'[j] = tasks[j + 1]
    BY <1>2, <2>1, HeadTailProperties
  <2>3. /\ DOMAIN tasks = 1..Len(tasks) /\ DOMAIN tasks' = 1..Len(tasks')
        /\ Len(tasks) \in Nat \ {0}
    BY <1>2, <2>1, <2>2, LenProperties, EmptySeq
  <2> QED
    BY <2>1, <2>2, <2>3
<1>4. \A j \in DOMAIN tasks' : t.number < tasks'[j].number
  BY <1>3 DEF Orderly, Numbered
<1>5. t.conn <= conn[t.fd] /\ t.number <= reads
  BY <1>3 DEF Typed, TypeOK
<1>6. /\ n \in Nat /\ DOMAIN Ahead = 1..n
      /\ DOMAIN todo' = 1..Len(todo') /\ Len(todo') \in Nat
  <2>1. todo' \in Seq(WorkerCommands)
    BY DEF Typed, TypeOK
  <2> QED
    BY <2>1, AheadFacts, LenProperties
<1>7. /\ DOMAIN Ahead' \subseteq Nat /\ DOMAIN Ahead \subseteq Nat
      /\ \A i \in DOMAIN Ahead : Ahead'[i] = Ahead[i]
      /\ \A i \in DOMAIN Ahead' \ DOMAIN Ahead :
           /\ i - n \in DOMAIN todo' /\ Ahead'[i] = todo'[i - n]
           /\ \A j \in DOMAIN Ahead : j < i
  BY <1>1, <1>6, GrownParts
<1>8. \A i \in DOMAIN todo' : todo'[i].op = "send_one" =>
        /\ todo'[i].fd = t.fd /\ todo'[i].text.task = t
        /\ todo'[i].text.says = "login success" => t.cmd.op = "login"
  BY PushedReplies
<1> HIDE DEF t, n
<1>9. Genuine'
  <2> SUFFICES ASSUME NEW i \in DOMAIN Ahead', Ahead'[i].op = "send_one"
               PROVE  LET u == Ahead'[i].text.task IN
                      /\ u \in Tasks /\ u.fd = Ahead'[i].fd
                      /\ u.conn <= conn[u.fd] /\ u.number <= reads
                      /\ Ahead'[i].text.says = "login success" => u.cmd.op = "login"
    BY <1>1 DEF Genuine
  <2>1. CASE i \in DOMAIN Ahead
    BY <1>7, <2>1 DEF Orderly, Genuine
  <2>2. CASE i \notin DOMAIN Ahead
    BY <1>2, <1>5, <1>7, <1>8, <2>2
  <2> QED
    BY <2>1, <2>2
<1>10. Numbered'
  <2> SUFFICES ASSUME NEW i \in DOMAIN tasks', NEW j \in DOMAIN tasks', i < j
               PROVE  tasks'[i].number < tasks'[j].number
    BY DEF Numbered
  <2>1. i + 1 < j + 1
    <3>1. tasks' \in Seq(Tasks)
      BY DEF Typed, TypeOK
    <3>2. DOMAIN tasks' = 1..Len(tasks')
      BY <3>1
    <3> QED
      BY <3>2
  <2> QED
    BY <1>3, <2>1 DEF Orderly, Numbered
<1>11. Ordered'
  <2> SUFFICES ASSUME NEW i \in DOMAIN Ahead', NEW j \in DOMAIN Ahead', i < j,
                      IsReply(Ahead'[i]), IsReply(Ahead'[j]),
                      SameAsker(Ahead'[i].text.task, Ahead'[j].text.task)
               PROVE  Ahead'[i].text.task.number <= Ahead'[j].text.task.number
    BY DEF Ordered
  <2>1. i \in Nat /\ j \in Nat
    BY <1>7
  <2>2. CASE j \in DOMAIN Ahead
    <3>1. i \in DOMAIN Ahead
      BY <1>6, <2>1, <2>2
    <3> QED
      BY <1>7, <2>2, <3>1 DEF Orderly, Ordered
  <2>3. CASE i \in DOMAIN Ahead /\ j \notin DOMAIN Ahead
    <3>1. Ahead'[j].text.task = t
      BY <1>7, <1>8, <2>3, ZenonT(60) DEF IsReply
    <3>2. /\ i \in DOMAIN Ahead /\ Ahead'[i] = Ahead[i]
          /\ Ahead[i].text.task.number < t.number
      BY <1>3, <1>7, <2>3, <3>1 DEF Orderly, Older
    <3>3. Ahead[i].text.task \in Tasks
      BY <3>2 DEF Orderly, Genuine, IsReply
    <3> QED
      BY <1>2, <3>1, <3>2, <3>3, TaskFields
  <2>4. CASE i \notin DOMAIN Ahead /\ j \notin DOMAIN Ahead
    <3>1. Ahead'[i].text.task = t /\ Ahead'[j].text.task = t
      BY <1>7, <1>8, <2>4, ZenonT(60) DEF IsReply
    <3> QED
      BY <1>2, <3>1, TaskFields
  <2> QED
    BY <2>2, <2>3, <2>4
<1>12. Older'
  <2> SUFFICES ASSUME NEW i \in DOMAIN Ahead', NEW j \in DOMAIN tasks',
                      IsReply(Ahead'[i]), SameAsker(Ahead'[i].text.task, tasks'[j])
               PROVE  Ahead'[i].text.task.number < tasks'[j].number
    BY DEF Older
  <2>1. CASE i \in DOMAIN Ahead
    BY <1>3, <1>7, <2>1 DEF Orderly, Older
  <2>2. CASE i \notin DOMAIN Ahead
    <3>1. Ahead'[i].text.task = t
      <4>1. i - n \in DOMAIN todo' /\ Ahead'[i] = todo'[i - n]
        BY <1>7, <2>2
      <4> QED
        BY <1>8, <4>1 DEF IsReply
    <3> QED
      BY <1>4, <3>1
  <2> QED
    BY <2>1, <2>2
<1> QED
  BY <1>9, <1>10, <1>11, <1>12 DEF Orderly

LEMMA ObeyOrderly == Typed /\ Orderly /\ Obey => Orderly'
<1> SUFFICES ASSUME Typed, Orderly, Obey PROVE Orderly'
  OBVIOUS
<1>1. /\ DOMAIN Ahead' \subseteq Int
      /\ \A i \in DOMAIN Ahead' : i + 1 \in DOMAIN Ahead /\ Ahead'[i] = Ahead[i + 1]
  BY ObeyTakes DEF Taken
<1>2. tasks' = tasks /\ conn' = conn /\ reads' = reads
  BY DEF Obey
<1>3. Genuine'
  BY <1>1, <1>2 DEF Orderly, Genuine
<1>4. Ordered'
  <2> SUFFICES ASSUME NEW i \in DOMAIN Ahead', NEW j \in DOMAIN Ahead', i < j,
                      IsReply(Ahead'[i]), IsReply(Ahead'[j]),
                      SameAsker(Ahead'[i].text.task, Ahead'[j].text.task)
               PROVE  Ahead'[i].text.task.number <= Ahead'[j].text.task.number
    BY DEF Ordered
  <2>1. i + 1 < j + 1
    BY <1>1
  <2> QED
    BY <1>1, <2>1 DEF Orderly, Ordered
<1>5. Older'
  BY <1>1, <1>2 DEF Orderly, Older
<1> QED
  BY <1>2, <1>3, <1>4, <1>5 DEF Orderly, Numbered

LEMMA NextOrderly == Typed /\ Typed' /\ Orderly /\ [Next]_vars => Orderly'
<1> SUFFICES ASSUME Typed, Typed', Orderly, [Next]_vars PROVE Orderly'
  OBVIOUS
<1>1. /\ conn \in [Fds -> 0..MaxConns] /\ reads \in 0..MaxReads
      /\ conn' \in [Fds -> 0..MaxConns] /\ reads' \in 0..MaxReads
  BY DEF Typed, TypeOK
<1>2. /\ reads \in Int /\ reads' \in Int
      /\ \A fd \in Fds : conn[fd] \in Int /\ conn'[fd] \in Int
  BY <1>1, BoundsAssumption
<1>3. ASSUME NEW fd \in Fds, Connect(fd) PROVE Orderly'
  <2> DEFINE cmd == [op |-> "register", fd |-> fd]
  <2>1. cmd.op # "send_one" /\ ~IsReply(cmd) /\ Slipped(cmd)
    BY <1>3, PushSlips DEF Connect, IsReply
  <2>2. tasks' = tasks /\ reads' = reads /\ conn' = [conn EXCEPT ![fd] = @ + 1]
    BY <1>3 DEF Connect
  <2>3. \A f \in Fds : conn'[f] >= conn[f]
    BY <1>1, <1>2, <2>2
  <2>4. reads' >= reads
    BY <1>2, <2>2
  <2> HIDE DEF cmd
  <2> QED
    BY <1>2, <2>1, <2>2, <2>3, <2>4, SlipOrderly
<1>4. ASSUME NEW fd \in Fds, Hangup(fd) PROVE Orderly'
  <2> DEFINE cmd == [op |-> "unregister", fd |-> fd]
  <2>1. cmd.op # "send_one" /\ ~IsReply(cmd) /\ Slipped(cmd)
    BY <1>4, PushSlips DEF Hangup, IsReply
  <2>2. tasks' = tasks /\ reads' = reads /\ conn' = conn
    BY <1>4 DEF Hangup
  <2>3. reads' >= reads /\ \A f \in Fds : conn'[f] >= conn[f]
    BY <1>2, <2>2
  <2> HIDE DEF cmd
  <2> QED
    BY <1>2, <2>1, <2>2, <2>3, SlipOrderly
<1>5. ASSUME NEW fd \in Fds, NEW cmd \in Script \cap ClientCommands,
             ReadCommand(fd, cmd)
      PROVE  Orderly'
  BY <1>5, ReadOrderly
<1>6. ASSUME NEW fd \in Fds, Echo(fd) PROVE Orderly'
  <2> DEFINE t == Task([op |-> "response"], fd, sessions[fd].user_id, conn[fd], reads + 1)
             cmd == Reply(t, "echo")
  <2>1. t \in Tasks
    BY <1>6, NewTask DEF Echo
  <2>2. t.fd = fd /\ t.conn = conn[fd] /\ t.number = reads + 1
    BY DEF Task
  <2>3. Push(cmd) /\ todo' = todo /\ tasks' = tasks /\ conn' = conn /\ reads' = reads + 1
    BY <1>6 DEF Echo
  <2>4. Slipped(cmd)
    BY <2>3, PushSlips
  <2> HIDE DEF t
  <2>5. /\ cmd.fd = fd /\ cmd.text.task = t /\ cmd.text.says = "echo" /\ ~IsReply(cmd)
    BY <2>2 DEF Reply, Says, IsReply
  <2>6. /\ cmd.text.task \in Tasks /\ cmd.text.task.fd = cmd.fd
        /\ cmd.text.task.conn <= conn'[cmd.fd] /\ cmd.text.task.number <= reads'
    BY <1>2, <2>1, <2>2, <2>3, <2>5
  <2>7. reads' >= reads /\ \A f \in Fds : conn'[f] >= conn[f]
    BY <1>2, <2>3
  <2> HIDE DEF cmd
  <2> QED
    BY <1>2, <2>3, <2>4, <2>5, <2>6, <2>7, SlipOrderly
<1>7. CASE PushNext
  <2>1. Ahead' = Ahead
    BY <1>7, PushNextSlides
  <2>2. tasks' = tasks /\ reads' = reads /\ conn' = conn
    BY <1>7 DEF PushNext
  <2> QED
    BY <2>1, <2>2 DEF Orderly, Genuine, Numbered, Ordered, Older
<1>8. CASE DatabaseFails \/ DatabaseRecovers
  <2>1. Ahead' = Ahead /\ tasks' = tasks /\ reads' = reads /\ conn' = conn
    BY <1>8 DEF DatabaseFails, DatabaseRecovers, Ahead
  <2> QED
    BY <2>1 DEF Orderly, Genuine, Numbered, Ordered, Older
<1>9. CASE UNCHANGED vars
  BY <1>9 DEF vars, Ahead, Orderly, Genuine, Numbered, Ordered, Older
<1> QED
  BY <1>3, <1>4, <1>5, <1>6, <1>7, <1>8, <1>9, ExecuteOrderly, ObeyOrderly DEF Next

\* Replies under way to one connection are in the order of its commands, and
\* older than the commands it still waits to have executed (RepliesInOrder),
\* however connections come and go and whatever their clients send.
THEOREM RepliesAreInOrder == Spec => []RepliesInOrder
<1>1. Init => Typed /\ Orderly
  BY InitTyped, InitOrderly
<1>2. Typed /\ Orderly /\ [Next]_vars => Typed' /\ Orderly'
  BY NextTyped, NextOrderly
<1>3. Orderly => RepliesInOrder
  BY DEF Orderly, Ordered, Older, RepliesInOrder, Ahead
<1> QED
  BY <1>1, <1>2, <1>3, PTL DEF Spec

-----------------------------------------------------------------------------
(* Who is logged in.                                                       *)

\* Where a command goes when another one slips in.
Will(i) == IF i <= Len(queue) THEN i ELSE i + 1

LEMMA SlippedWhole ==
  ASSUME Typed, NEW cmd, Slipped(cmd)
  PROVE  \A i \in DOMAIN Ahead :
           /\ Will(i) \in DOMAIN Ahead' /\ Will(i) # Len(queue) + 1
           /\ Ahead'[Will(i)] = Ahead[i]
           /\ \A j \in DOMAIN Ahead' :
                j # Len(queue) + 1 => /\ i < Was(j) => Will(i) < j
                                      /\ Was(j) < i => j < Will(i)
<1> DEFINE q == Len(queue)
           n == Len(Ahead)
           s == Ahead
           z == Ahead'
<1>1. q \in Nat /\ n \in Nat /\ q <= n /\ DOMAIN s = 1..n
  BY AheadFacts
<1>2. /\ DOMAIN z = 1..(n + 1)
      /\ \A i \in 1..q : z[i] = s[i]
      /\ \A i \in (q + 2)..(n + 1) : z[i] = s[i - 1]
  BY DEF Slipped
<1>3. /\ \A i : Was(i) = IF i <= q THEN i ELSE i - 1
      /\ \A i : Will(i) = IF i <= q THEN i ELSE i + 1
  BY DEF Was, Will
<1> HIDE DEF q, n, s, z
<1>4. ASSUME NEW i \in DOMAIN s
      PROVE  /\ Will(i) \in DOMAIN z /\ Will(i) # q + 1
             /\ z[Will(i)] = s[i]
             /\ \A j \in DOMAIN z :
                  j # q + 1 => /\ i < Was(j) => Will(i) < j
                               /\ Was(j) < i => j < Will(i)
  <2>1. Will(i) \in DOMAIN z /\ Will(i) # q + 1
    BY <1>1, <1>2, <1>3
  <2>2. z[Will(i)] = s[i]
    <3>1. CASE i <= q
      BY <1>1, <1>2, <1>3, <3>1
    <3>2. CASE ~(i <= q)
      <4>1. i + 1 \in (q + 2)..(n + 1) /\ (i + 1) - 1 = i
        BY <1>1, <3>2
      <4> QED
        BY <1>2, <1>3, <3>2, <4>1
    <3> QED
      BY <3>1, <3>2
  <2>3. \A j \in DOMAIN z :
          j # q + 1 => /\ i < Was(j) => Will(i) < j
                       /\ Was(j) < i => j < Will(i)
    BY <1>1, <1>2, <1>3
  <2> QED
    BY <2>1, <2>2, <2>3
<1> QED
  BY <1>4 DEF q, s, z

\* A descriptor number is registered once and while no session has it, and
\* what is left of its earlier connections is known to be theirs.
NumberedAnew ==
  \A i \in DOMAIN Ahead :
    Ahead[i].op = "register" =>
      LET fd == Ahead[i].fd IN
      /\ fd \notin DOMAIN sessions
      /\ \A j \in DOMAIN tasks : tasks[j].fd = fd => tasks[j].conn < conn[fd]
      /\ \A j \in DOMAIN Ahead :
           /\ Ahead[j].op = "register" /\ Ahead[j].fd = fd => i = j
           /\ Ahead[j].op = "send_one" /\ Ahead[j].fd = fd
                => Ahead[j].text.task.conn < conn[fd]

Identity(cmd, fd) == cmd.op = "set_user_id" /\ cmd.fd = fd

\* No identity is set on fd between j and i.
NoIdentityAfter(cmds, j, fd, i) ==
  \A k \in DOMAIN cmds : j < k /\ k < i => ~Identity(cmds[k], fd)

Success(cmd, conns) ==
  /\ cmd.op = "send_one"
  /\ cmd.text.says = "login success"
  /\ cmd.text.task.conn = conns[cmd.fd]

\* Who reads "login success" is by then who he said.
Identified ==
  \A i \in DOMAIN Ahead :
    Success(Ahead[i], conn) =>
      LET fd == Ahead[i].fd
          id == Ahead[i].text.task.cmd.id
      IN  /\ \A j \in DOMAIN Ahead :
               j < i /\ Identity(Ahead[j], fd) /\ NoIdentityAfter(Ahead, j, fd, i)
                 => Ahead[j].user_id = id
          /\ NoIdentityAfter(Ahead, 0, fd, i) /\ fd \in DOMAIN sessions
               => sessions[fd].user_id = id

KnownSessions == NumberedAnew /\ Identified

LEMMA InitKnown == Init => KnownSessions
<1> SUFFICES ASSUME Init PROVE KnownSessions
  OBVIOUS
<1>1. Typed
  BY InitTyped
<1>2. DOMAIN Ahead = {}
  <2>1. Len(queue) = 0 /\ Len(todo) = 0
    BY DEF Init
  <2> QED
    BY <1>1, <2>1, AheadFacts
<1> QED
  BY <1>2 DEF KnownSessions, NumberedAnew, Identified

\* A command slips in that sets no identity and is no login's reply.
LEMMA SlipIdentified ==
  ASSUME Typed, Orderly, Identified, NEW cmd, Slipped(cmd),
         cmd.op # "set_user_id",
         cmd.op = "send_one" => cmd.text.says = "echo",
         sessions' = sessions,
         \A fd \in Fds : conn[fd] \in Int /\ conn'[fd] \in Int /\ conn'[fd] >= conn[fd]
  PROVE  Identified'
<1> SUFFICES ASSUME NEW i \in DOMAIN Ahead', Success(Ahead'[i], conn')
             PROVE  LET fd == Ahead'[i].fd
                        id == Ahead'[i].text.task.cmd.id
                    IN  /\ \A j \in DOMAIN Ahead' :
                             j < i /\ Identity(Ahead'[j], fd) /\ NoIdentityAfter(Ahead', j, fd, i)
                               => Ahead'[j].user_id = id
                        /\ NoIdentityAfter(Ahead', 0, fd, i) /\ fd \in DOMAIN sessions
                             => sessions[fd].user_id = id
  BY DEF Identified
<1> DEFINE p == Len(queue) + 1
           fd == Ahead'[i].fd
           id == Ahead'[i].text.task.cmd.id
<1>1. i # p /\ Was(i) \in DOMAIN Ahead /\ Ahead'[i] = Ahead[Was(i)]
  BY SlippedParts DEF Success
<1>2. Success(Ahead[Was(i)], conn)
  <2> DEFINE x == Ahead[Was(i)]
             t == x.text.task
  <2>1. /\ x.op = "send_one" /\ x.text.says = "login success"
        /\ t.conn = conn'[x.fd]
    BY <1>1 DEF Success
  <2>2. t \in Tasks /\ t.fd = x.fd /\ t.conn <= conn[t.fd]
    BY <1>1, <2>1 DEF Orderly, Genuine
  <2> HIDE DEF x, t
  <2>3. x.fd \in Fds
    BY <2>2, TaskFields
  <2>4. /\ conn[x.fd] \in Int /\ conn'[x.fd] \in Int
        /\ conn'[x.fd] >= conn[x.fd] /\ conn'[x.fd] <= conn[x.fd]
    BY <2>1, <2>2, <2>3
  <2>5. conn'[x.fd] = conn[x.fd]
    BY <2>4
  <2> QED
    BY <2>1, <2>5 DEF Success, x, t
<1>3. ASSUME NEW j, NoIdentityAfter(Ahead', j, fd, i), NEW k \in DOMAIN Ahead, k < Was(i),
             j < Will(k)
      PROVE  ~Identity(Ahead[k], fd)
  <2>1. Will(k) \in DOMAIN Ahead' /\ Ahead'[Will(k)] = Ahead[k] /\ Will(k) < i
    BY <1>1, <1>3, SlippedWhole
  <2> QED
    BY <1>3, <2>1 DEF NoIdentityAfter
<1>4. ASSUME NEW j \in DOMAIN Ahead', j < i, Identity(Ahead'[j], fd),
             NoIdentityAfter(Ahead', j, fd, i)
      PROVE  Ahead'[j].user_id = id
  <2>1. j # p
    BY <1>4, SlippedParts DEF Identity
  <2>2. Was(j) \in DOMAIN Ahead /\ Ahead'[j] = Ahead[Was(j)] /\ Was(j) < Was(i)
    BY <1>1, <1>4, <2>1, SlippedParts
  <2>3. NoIdentityAfter(Ahead, Was(j), fd, Was(i))
    <3> SUFFICES ASSUME NEW k \in DOMAIN Ahead, Was(j) < k, k < Was(i)
                 PROVE  ~Identity(Ahead[k], fd)
      BY DEF NoIdentityAfter
    <3>1. j < Will(k)
      BY <2>1, SlippedWhole
    <3> QED
      BY <1>3, <1>4, <3>1
  <2> QED
    BY <1>1, <1>2, <1>4, <2>2, <2>3 DEF Identified
<1>5. ASSUME NoIdentityAfter(Ahead', 0, fd, i), fd \in DOMAIN sessions
      PROVE  sessions[fd].user_id = id
  <2>1. NoIdentityAfter(Ahead, 0, fd, Was(i))
    <3> SUFFICES ASSUME NEW k \in DOMAIN Ahead, k < Was(i)
                 PROVE  ~Identity(Ahead[k], fd)
      BY DEF NoIdentityAfter
    <3>1. 0 < Will(k)
      <4>1. Will(k) \in DOMAIN Ahead' /\ DOMAIN Ahead' = 1..(Len(Ahead) + 1)
        BY SlippedWhole DEF Slipped
      <4> QED
        BY <4>1
    <3> QED
      BY <1>3, <1>5, <3>1
  <2> QED
    BY <1>1, <1>2, <1>5, <2>1 DEF Identified
<1> QED
  BY <1>4, <1>5

LEMMA ExecuteIdentified ==
  Typed /\ Typed' /\ Identified /\ ExecuteTask => Identified'
<1> SUFFICES ASSUME Typed, Typed', Identified, ExecuteTask,
                    NEW i \in DOMAIN Ahead', Success(Ahead'[i], conn')
             PROVE  LET fd == Ahead'[i].fd
                        id == Ahead'[i].text.task.cmd.id
                    IN  /\ \A j \in DOMAIN Ahead' :
                             j < i /\ Identity(Ahead'[j], fd) /\ NoIdentityAfter(Ahead', j, fd, i)
                               => Ahead'[j].user_id = id
                        /\ NoIdentityAfter(Ahead', 0, fd, i) /\ fd \in DOMAIN sessions
                             => sessions[fd].user_id = id
  BY DEF Identified, ExecuteTask
<1> DEFINE fd == Ahead'[i].fd
           id == Ahead'[i].text.task.cmd.id
           n == Len(Ahead)
           t == Head(tasks)
<1>1. /\ n \in Nat /\ DOMAIN Ahead = 1..n
      /\ DOMAIN todo' = 1..Len(todo') /\ Len(todo') \in Nat
  <2>1. todo' \in Seq(WorkerCommands)
    BY DEF Typed, TypeOK
  <2> QED
    BY <2>1, AheadFacts, LenProperties
<1>2. /\ DOMAIN Ahead \subseteq DOMAIN Ahead'
      /\ DOMAIN Ahead' \subseteq Nat
      /\ \A j \in DOMAIN Ahead : Ahead'[j] = Ahead[j]
      /\ \A j \in DOMAIN Ahead' \ DOMAIN Ahead :
           /\ j > n /\ j - n \in DOMAIN todo' /\ Ahead'[j] = todo'[j - n]
  BY <1>1, ExecuteGrows, GrownParts
<1>3. CASE i \in DOMAIN Ahead
  <2>1. Success(Ahead[i], conn) /\ Ahead'[i] = Ahead[i]
    BY <1>2, <1>3 DEF Success, ExecuteTask
  <2>2. \A j : NoIdentityAfter(Ahead', j, fd, i) => NoIdentityAfter(Ahead, j, fd, i)
    BY <1>2 DEF NoIdentityAfter
  <2>3. \A j \in DOMAIN Ahead' : j < i => j \in DOMAIN Ahead
    <3>1. DOMAIN Ahead' = 1..(n + Len(todo'))
      BY ExecuteGrows DEF Grown
    <3> QED
      BY <1>1, <1>3, <3>1
  <2>4. \A j \in DOMAIN Ahead' :
          j < i /\ Identity(Ahead'[j], fd) /\ NoIdentityAfter(Ahead', j, fd, i)
            => Ahead'[j].user_id = id
    BY <1>2, <1>3, <2>1, <2>2, <2>3 DEF Identified
  <2>5. NoIdentityAfter(Ahead', 0, fd, i) /\ fd \in DOMAIN sessions => sessions[fd].user_id = id
    BY <1>3, <2>1, <2>2 DEF Identified
  <2> QED
    BY <2>4, <2>5
<1>4. CASE i \notin DOMAIN Ahead
  <2> DEFINE m == i - n
  <2>1. m \in DOMAIN todo' /\ Ahead'[i] = todo'[m] /\ m \in Nat
    BY <1>1, <1>2, <1>4
  <2>2. /\ todo'[m].op = "send_one" /\ todo'[m].text.says = "login success"
    BY <2>1 DEF Success
  <2>3. todo'[m].fd = t.fd /\ todo'[m].text.task = t /\ t.cmd.op = "login"
    BY <2>1, <2>2, PushedReplies
  <2>4. Identifies(t, Then(db', todo'))
    <3>1. Supplied
      BY Supply DEF ExecuteTask, ExecuteNext, Execute
    <3> QED
      BY <2>3, <3>1, TaskServes DEF ExecuteTask, Typed, TypeOK
  <2>5. /\ m = 4 /\ DOMAIN todo' = 1..4
        /\ SetsIdentity(todo'[1], t.fd, t.cmd.id)
        /\ todo'[2].op # "set_user_id" /\ todo'[3].op # "set_user_id"
    <3> DEFINE s == todo'
    <3> HIDE DEF s, m, t
    <3>1. /\ DOMAIN s = 1..4
          /\ \/ AdmissionKind(s, t)
             \/ RejectionKind(s, t)
             \/ BreakdownKind(s, t)
      BY <2>4, LoginKinds DEF s
    <3>2. m = 4 /\ AdmissionKind(s, t)
      <4>1. m \in DOMAIN s /\ s[m].op = "send_one" /\ s[m].text.says = "login success"
        BY <2>1, <2>2 DEF s
      <4>2. s[m].text.says = "login success" => m = 4 /\ AdmissionKind(s, t)
        BY <3>1, <4>1, LoginReplies
      <4> QED
        BY <4>1, <4>2
    <3> QED
      BY <3>1, <3>2 DEF s, AdmissionKind, GivesRooms, Renames
  <2>6. i = n + 4 /\ fd = t.fd /\ id = t.cmd.id
    BY <1>1, <1>2, <2>1, <2>3, <2>5
  <2>7. Identity(Ahead'[n + 1], fd) /\ Ahead'[n + 1].user_id = id
    <3>1. Ahead'[n + 1] = todo'[1]
      BY <1>1, <2>5, ExecuteGrows DEF Grown
    <3> QED
      BY <2>5, <2>6, <3>1 DEF Identity, SetsIdentity
  <2>8. n + 1 \in DOMAIN Ahead'
    BY <1>1, <2>5, ExecuteGrows DEF Grown
  <2>9. \A j : NoIdentityAfter(Ahead', j, fd, i) => ~(j < n + 1)
    BY <1>1, <2>6, <2>7, <2>8 DEF NoIdentityAfter
  <2>10. ASSUME NEW j \in DOMAIN Ahead', j < i, Identity(Ahead'[j], fd), ~(j < n + 1)
         PROVE  Ahead'[j].user_id = id
    <3>1. j = n + 1 \/ j = n + 2 \/ j = n + 3
      BY <1>1, <1>2, <2>6, <2>10
    <3>2. Ahead'[n + 2] = todo'[2] /\ Ahead'[n + 3] = todo'[3]
      BY <1>1, <2>5, ExecuteGrows DEF Grown
    <3> QED
      BY <2>5, <2>7, <2>10, <3>1, <3>2 DEF Identity
  <2>11. ~NoIdentityAfter(Ahead', 0, fd, i)
    BY <1>1, <2>9
  <2> QED
    BY <2>9, <2>10, <2>11
<1> QED
  BY <1>3, <1>4

\* The command obeyed is the first of those ahead.
LEMMA ObeysFirst ==
  ASSUME Typed, Obey
  PROVE  /\ 1 \in DOMAIN Ahead /\ \A k \in DOMAIN Ahead : ~(0 < k /\ k < 1)
         /\ Ahead[1] \in Commands
         /\ SessionsAfter(Ahead[1]) /\ HeardOf(Ahead[1])
<1>1. Len(Ahead) \in Nat \ {0} /\ DOMAIN Ahead = 1..Len(Ahead)
  BY ObeyTakes, AheadFacts DEF Taken
<1>2. 1 \in DOMAIN Ahead /\ \A k \in DOMAIN Ahead : ~(0 < k /\ k < 1)
  BY <1>1
<1> QED
  BY <1>2, ObeyEffect, ObeyTakes DEF Obey, Typed, Taken

LEMMA ObeyIdentified ==
  ASSUME Typed, NumberedAnew, Identified, Obey
  PROVE  Identified'
<1> SUFFICES ASSUME NEW i \in DOMAIN Ahead', Success(Ahead'[i], conn')
             PROVE  LET fd == Ahead'[i].fd
                        id == Ahead'[i].text.task.cmd.id
                    IN  /\ \A j \in DOMAIN Ahead' :
                             j < i /\ Identity(Ahead'[j], fd) /\ NoIdentityAfter(Ahead', j, fd, i)
                               => Ahead'[j].user_id = id
                        /\ NoIdentityAfter(Ahead', 0, fd, i) /\ fd \in DOMAIN sessions'
                             => sessions'[fd].user_id = id
  BY DEF Identified
<1> DEFINE fd == Ahead'[i].fd
           id == Ahead'[i].text.task.cmd.id
           cmd == Ahead[1]
<1>1. /\ Len(Ahead) \in Nat \ {0} /\ DOMAIN Ahead = 1..Len(Ahead)
      /\ DOMAIN Ahead' = 1..(Len(Ahead) - 1)
      /\ \A j \in DOMAIN Ahead' : j + 1 \in DOMAIN Ahead /\ Ahead'[j] = Ahead[j + 1]
  BY ObeyTakes, AheadFacts DEF Taken
<1>2. Ahead'[i] = Ahead[i + 1] /\ i + 1 \in DOMAIN Ahead /\ Success(Ahead[i + 1], conn)
  BY <1>1 DEF Success, Obey
<1>3. ASSUME NEW j \in Nat, NoIdentityAfter(Ahead', j, fd, i)
      PROVE  NoIdentityAfter(Ahead, j + 1, fd, i + 1)
  <2> SUFFICES ASSUME NEW k \in DOMAIN Ahead, j + 1 < k, k < i + 1
               PROVE  ~Identity(Ahead[k], fd)
    BY DEF NoIdentityAfter
  <2>1. k - 1 \in DOMAIN Ahead' /\ j < k - 1 /\ k - 1 < i /\ (k - 1) + 1 = k
    BY <1>1
  <2> QED
    BY <1>1, <1>3, <2>1 DEF NoIdentityAfter
<1>4. ASSUME NEW j \in DOMAIN Ahead', j < i, Identity(Ahead'[j], fd),
             NoIdentityAfter(Ahead', j, fd, i)
      PROVE  Ahead'[j].user_id = id
  <2>1. j \in Nat /\ j + 1 < i + 1
    BY <1>1, <1>4
  <2>2. NoIdentityAfter(Ahead, j + 1, fd, i + 1)
    BY <1>3, <1>4, <2>1
  <2> QED
    BY <1>1, <1>2, <1>4, <2>1, <2>2 DEF Identified
<1>5. ASSUME NoIdentityAfter(Ahead', 0, fd, i), fd \in DOMAIN sessions'
      PROVE  sessions'[fd].user_id = id
  <2>1. NoIdentityAfter(Ahead, 1, fd, i + 1)
    <3>1. 0 \in Nat /\ 0 + 1 = 1
      OBVIOUS
    <3> QED
      BY <1>3, <1>5, <3>1
  <2>2. 1 \in DOMAIN Ahead /\ 1 < i + 1
    BY <1>1
  <2>3. SessionsAfter(cmd)
    BY ObeyEffect, ObeyTakes DEF Obey, Typed, Taken
  <2> HIDE DEF cmd
  <2>4. fd \in DOMAIN sessions /\ sessions'[fd] = Obeyed(cmd, fd, sessions[fd])
    <3> SUFFICES ASSUME cmd.op = "register", cmd.fd = fd PROVE FALSE
      BY <1>5, <2>3 DEF SessionsAfter
    <3>1. Ahead[i + 1].op = "send_one" /\ Ahead[i + 1].fd = fd
          /\ Ahead[i + 1].text.task.conn = conn[fd]
      BY <1>2 DEF Success
    <3>2. Ahead[i + 1].text.task.conn < conn[fd]
      BY <1>2, <2>2, <3>1 DEF NumberedAnew, cmd
    <3>3. conn[fd] \in Int
      <4>1. cmd \in Commands
        BY <2>2, AheadFacts, ElementOfSeq DEF cmd
      <4>2. fd \in Fds
        BY <4>1, CommandFields
      <4> QED
        BY <4>2, BoundsAssumption DEF Typed, TypeOK
    <3> QED
      BY <3>1, <3>2, <3>3
  <2>5. sessions[fd] \in SessionStates
    BY <2>4 DEF Typed, TypeOK
  <2>6. CASE Identity(cmd, fd)
    <3>1. cmd.user_id = id
      BY <1>2, <2>1, <2>2, <2>6 DEF Identified, cmd
    <3>2. sessions'[fd].user_id = cmd.user_id
      BY <2>4, <2>5, <2>6 DEF Obeyed, Identity, SessionStates
    <3> QED
      BY <3>1, <3>2
  <2>7. CASE ~Identity(cmd, fd)
    <3>1. NoIdentityAfter(Ahead, 0, fd, i + 1)
      <4> SUFFICES ASSUME NEW k \in DOMAIN Ahead, 0 < k, k < i + 1
                   PROVE  ~Identity(Ahead[k], fd)
        BY DEF NoIdentityAfter
      <4>1. k = 1 \/ 1 < k
        BY <1>1
      <4> QED
        BY <2>1, <2>7, <4>1 DEF NoIdentityAfter, cmd
    <3>2. sessions[fd].user_id = id
      BY <1>2, <2>4, <3>1 DEF Identified
    <3>3. sessions'[fd].user_id = sessions[fd].user_id
      BY <2>4, <2>5, <2>7 DEF Obeyed, Identity, SessionStates
    <3> QED
      BY <3>2, <3>3
  <2> QED
    BY <2>6, <2>7
<1> QED
  BY <1>4, <1>5

\* The loop obeys "login success" only when the session is who it was told.
LEMMA ObeyLogsIn ==
  ASSUME Typed, Identified, Obey
  PROVE  LoginSuccess'
<1> SUFFICES ASSUME NEW fd \in DOMAIN delivered',
                    delivered'[fd].kind = "response",
                    delivered'[fd].text.says = "login success",
                    delivered'[fd].text.task.conn = conn'[fd]
             PROVE  sessions'[fd].user_id = delivered'[fd].text.task.cmd.id
  BY DEF LoginSuccess
<1> DEFINE cmd == Ahead[1]
<1>1. SessionsAfter(cmd) /\ HeardOf(cmd) /\ conn' = conn /\ 1 \in DOMAIN Ahead
  BY ObeysFirst DEF Obey
<1> HIDE DEF cmd
<1>2. /\ cmd.op = "send_one" /\ cmd.fd = fd /\ delivered'[fd] = Response(cmd.text)
      /\ fd \in DOMAIN sessions /\ fd \in DOMAIN sessions'
  BY <1>1 DEF HeardOf
<1>3. Response(cmd.text).text = cmd.text
  BY DEF Response
<1>4. Success(cmd, conn)
  BY <1>1, <1>2, <1>3 DEF Success
<1>5. NoIdentityAfter(Ahead, 0, fd, 1)
  BY ObeysFirst DEF NoIdentityAfter
<1>6. sessions[fd].user_id = cmd.text.task.cmd.id
  BY <1>1, <1>2, <1>4, <1>5 DEF Identified, cmd
<1>7. sessions'[fd] = sessions[fd]
  BY <1>1, <1>2 DEF SessionsAfter, Obeyed
<1> QED
  BY <1>2, <1>3, <1>6, <1>7

\* What the worker leaves of the tasks.
LEMMA TaskTaken ==
  ASSUME Typed, ExecuteTask
  PROVE  /\ Head(tasks) \in Tasks /\ 1 \in DOMAIN tasks /\ Head(tasks) = tasks[1]
         /\ \A j \in DOMAIN tasks' : j + 1 \in DOMAIN tasks /\ tasks'[j] = tasks[j + 1]
<1>1. tasks # <<>> /\ tasks' = Tail(tasks) /\ Head(tasks) \in Tasks
  BY ExecuteFollows DEF ExecuteTask
<1>2. tasks \in Seq(Tasks)
  BY DEF Typed, TypeOK
<1>3. /\ tasks' \in Seq(Tasks) /\ Len(tasks') = Len(tasks) - 1
      /\ \A j \in 1..Len(tasks') : tasks'[j] = tasks[j + 1]
  BY <1>1, <1>2, HeadTailProperties
<1>4. /\ DOMAIN tasks = 1..Len(tasks) /\ DOMAIN tasks' = 1..Len(tasks')
      /\ Len(tasks) \in Nat \ {0} /\ Head(tasks) = tasks[1]
  BY <1>1, <1>2, <1>3, LenProperties, EmptySeq
<1> QED
  BY <1>1, <1>3, <1>4

\* Only connections waiting to be registered are in the queue.
LEMMA RegistersQueued ==
  ASSUME Typed, NEW i \in DOMAIN Ahead, Ahead[i].op = "register"
  PROVE  Queued("register", Ahead[i].fd)
<1>1. CASE i <= Len(queue)
  <2>1. i \in DOMAIN queue /\ Ahead[i] = queue[i] /\ queue[i] \in Commands
    BY <1>1, AheadFacts, ElementOfSeq
  <2>2. queue[i] = [op |-> "register", fd |-> Ahead[i].fd]
    BY <2>1, CommandFields
  <2> QED
    BY <2>1, <2>2 DEF Queued
<1>2. CASE ~(i <= Len(queue))
  <2>1. i - Len(queue) \in DOMAIN todo /\ Ahead[i] = todo[i - Len(queue)]
    BY <1>2, AheadFacts
  <2>2. Ahead[i] \in WorkerCommands
    BY <2>1 DEF Typed, TypeOK
  <2> QED
    BY <2>2 DEF WorkerCommands
<1> QED
  BY <1>1, <1>2

LEMMA ConnectNumbersAnew ==
  ASSUME Typed, Typed', Orderly, NumberedAnew, NEW fd \in Fds, Connect(fd)
  PROVE  NumberedAnew'
<1> DEFINE p == Len(queue) + 1
           cmd == [op |-> "register", fd |-> fd]
<1>1. Slipped(cmd) /\ cmd.op = "register" /\ cmd.fd = fd
  <2>1. Push(cmd) /\ todo' = todo
    BY DEF Connect
  <2>2. Slipped(cmd)
    BY <2>1, PushSlips
  <2> QED
    BY <2>2
<1> HIDE DEF cmd
<1>2. /\ Ahead'[p] = cmd
      /\ \A i \in DOMAIN Ahead' : i # p => Was(i) \in DOMAIN Ahead /\ Ahead'[i] = Ahead[Was(i)]
      /\ \A i, j \in DOMAIN Ahead' : i # p /\ j # p /\ i < j => Was(i) < Was(j)
  BY <1>1, SlippedParts
<1>3. DOMAIN Ahead' \subseteq Int /\ DOMAIN Ahead \subseteq Int
  <2>1. Len(Ahead) \in Nat /\ DOMAIN Ahead = 1..Len(Ahead)
    BY AheadFacts
  <2> QED
    BY <1>1, <2>1 DEF Slipped
<1> HIDE DEF p
<1>4. /\ fd \notin DOMAIN sessions /\ ~Queued("register", fd)
      /\ sessions' = sessions /\ tasks' = tasks
      /\ conn' = [conn EXCEPT ![fd] = @ + 1]
  BY DEF Connect
<1>5. /\ \A f \in Fds : conn[f] \in Int
      /\ conn'[fd] = conn[fd] + 1 /\ \A f \in Fds : f # fd => conn'[f] = conn[f]
  BY <1>4, BoundsAssumption DEF Typed, TypeOK
<1>6. \A i \in DOMAIN Ahead : Ahead[i].op = "register" => Ahead[i].fd # fd
  BY <1>4, RegistersQueued
<1> SUFFICES ASSUME NEW i \in DOMAIN Ahead', Ahead'[i].op = "register"
             PROVE  LET f == Ahead'[i].fd IN
                    /\ f \notin DOMAIN sessions'
                    /\ \A j \in DOMAIN tasks' : tasks'[j].fd = f => tasks'[j].conn < conn'[f]
                    /\ \A j \in DOMAIN Ahead' :
                         /\ Ahead'[j].op = "register" /\ Ahead'[j].fd = f => i = j
                         /\ Ahead'[j].op = "send_one" /\ Ahead'[j].fd = f
                              => Ahead'[j].text.task.conn < conn'[f]
  BY DEF NumberedAnew
<1>7. CASE i = p
  <2>1. Ahead'[i].fd = fd
    BY <1>1, <1>2, <1>7
  <2>2. ASSUME NEW j \in DOMAIN tasks', tasks'[j].fd = fd
        PROVE  tasks'[j].conn < conn'[fd]
    <3>1. tasks[j] \in Tasks /\ tasks[j].conn <= conn[fd] /\ tasks'[j] = tasks[j]
      BY <1>4, <2>2 DEF Typed, TypeOK
    <3>2. tasks[j].conn \in Int
      BY <3>1, TaskFields, BoundsAssumption
    <3> QED
      BY <1>5, <3>1, <3>2
  <2>3. ASSUME NEW j \in DOMAIN Ahead', Ahead'[j].op = "register", Ahead'[j].fd = fd
        PROVE  i = j
    BY <1>2, <1>6, <1>7, <2>3
  <2>4. ASSUME NEW j \in DOMAIN Ahead', Ahead'[j].op = "send_one", Ahead'[j].fd = fd
        PROVE  Ahead'[j].text.task.conn < conn'[fd]
    <3> DEFINE x == Ahead[Was(j)]
    <3>1. Was(j) \in DOMAIN Ahead /\ Ahead'[j] = x
      BY <1>1, <1>2, <2>4
    <3>2. x.text.task \in Tasks /\ x.text.task.fd = x.fd /\ x.text.task.conn <= conn[x.text.task.fd]
      BY <2>4, <3>1 DEF Orderly, Genuine
    <3> HIDE DEF x
    <3>3. x.text.task.conn <= conn[fd] /\ x.text.task.conn \in Int
      BY <2>4, <3>1, <3>2, TaskFields, BoundsAssumption
    <3>4. x.text.task.conn < conn'[fd]
      BY <1>5, <3>3
    <3> QED
      BY <3>1, <3>4
  <2> QED
    BY <1>4, <2>1, <2>2, <2>3, <2>4
<1>8. CASE i # p
  <2> DEFINE f == Ahead'[i].fd
  <2>1. Was(i) \in DOMAIN Ahead /\ Ahead'[i] = Ahead[Was(i)]
    BY <1>2, <1>8
  <2>2. f # fd /\ f \in Fds
    <3>1. Ahead[Was(i)] \in Commands
      BY <2>1, AheadFacts, ElementOfSeq
    <3>2. Ahead[Was(i)].fd \in Fds
      BY <1>8, <2>1, <3>1, CommandFields
    <3> QED
      BY <1>6, <2>1, <3>2
  <2>3. conn'[f] = conn[f]
    BY <1>5, <2>2
  <2>4. /\ f \notin DOMAIN sessions
        /\ \A j \in DOMAIN tasks : tasks[j].fd = f => tasks[j].conn < conn[f]
        /\ \A j \in DOMAIN Ahead :
             /\ Ahead[j].op = "register" /\ Ahead[j].fd = f => Was(i) = j
             /\ Ahead[j].op = "send_one" /\ Ahead[j].fd = f => Ahead[j].text.task.conn < conn[f]
    BY <2>1 DEF NumberedAnew
  <2>5. ASSUME NEW j \in DOMAIN Ahead', Ahead'[j].op = "register", Ahead'[j].fd = f
        PROVE  i = j
    <3>1. j # p
      BY <1>1, <1>2, <2>2, <2>5
    <3>2. Was(j) \in DOMAIN Ahead /\ Was(i) = Was(j)
      BY <1>2, <2>4, <2>5, <3>1
    <3> QED
      BY <1>2, <1>3, <1>8, <2>1, <3>1, <3>2
  <2>6. ASSUME NEW j \in DOMAIN Ahead', Ahead'[j].op = "send_one", Ahead'[j].fd = f
        PROVE  Ahead'[j].text.task.conn < conn'[f]
    <3>1. j # p
      BY <1>1, <1>2, <2>6
    <3> QED
      BY <1>2, <2>3, <2>4, <2>6, <3>1
  <2> HIDE DEF f
  <2> QED
    BY <1>4, <2>3, <2>4, <2>5, <2>6 DEF f
<1> QED
  BY <1>7, <1>8

\* A command slips in that registers nothing and answers an open session.
LEMMA SlipNumbersAnew ==
  ASSUME Typed, NumberedAnew, NEW cmd, Slipped(cmd), cmd.op # "register",
         cmd.op = "send_one" => cmd.fd \in DOMAIN sessions,
         sessions' = sessions, tasks' = tasks, conn' = conn
  PROVE  NumberedAnew'
<1> DEFINE p == Len(queue) + 1
<1>1. /\ Ahead'[p] = cmd
      /\ \A i \in DOMAIN Ahead' : i # p => Was(i) \in DOMAIN Ahead /\ Ahead'[i] = Ahead[Was(i)]
      /\ \A i, j \in DOMAIN Ahead' : i # p /\ j # p /\ i < j => Was(i) < Was(j)
  BY SlippedParts
<1>2. DOMAIN Ahead' \subseteq Int /\ DOMAIN Ahead \subseteq Int
  <2>1. Len(Ahead) \in Nat /\ DOMAIN Ahead = 1..Len(Ahead)
    BY AheadFacts
  <2> QED
    BY <2>1 DEF Slipped
<1> HIDE DEF p
<1> SUFFICES ASSUME NEW i \in DOMAIN Ahead', Ahead'[i].op = "register"
             PROVE  LET f == Ahead'[i].fd IN
                    /\ f \notin DOMAIN sessions'
                    /\ \A j \in DOMAIN tasks' : tasks'[j].fd = f => tasks'[j].conn < conn'[f]
                    /\ \A j \in DOMAIN Ahead' :
                         /\ Ahead'[j].op = "register" /\ Ahead'[j].fd = f => i = j
                         /\ Ahead'[j].op = "send_one" /\ Ahead'[j].fd = f
                              => Ahead'[j].text.task.conn < conn'[f]
  BY DEF NumberedAnew
<1> DEFINE f == Ahead'[i].fd
<1>3. i # p /\ Was(i) \in DOMAIN Ahead /\ Ahead'[i] = Ahead[Was(i)]
  BY <1>1
<1>4. /\ f \notin DOMAIN sessions
      /\ \A j \in DOMAIN tasks : tasks[j].fd = f => tasks[j].conn < conn[f]
      /\ \A j \in DOMAIN Ahead :
           /\ Ahead[j].op = "register" /\ Ahead[j].fd = f => Was(i) = j
           /\ Ahead[j].op = "send_one" /\ Ahead[j].fd = f => Ahead[j].text.task.conn < conn[f]
  BY <1>3 DEF NumberedAnew
<1>5. ASSUME NEW j \in DOMAIN Ahead', Ahead'[j].op = "register", Ahead'[j].fd = f
      PROVE  i = j
  <2>1. j # p /\ Was(i) = Was(j)
    BY <1>1, <1>4, <1>5
  <2> QED
    BY <1>1, <1>2, <1>3, <2>1
<1>6. ASSUME NEW j \in DOMAIN Ahead', Ahead'[j].op = "send_one", Ahead'[j].fd = f
      PROVE  Ahead'[j].text.task.conn < conn[f]
  <2>1. j # p
    BY <1>1, <1>4, <1>6
  <2> QED
    BY <1>1, <1>4, <1>6, <2>1
<1> HIDE DEF f
<1> QED
  BY <1>4, <1>5, <1>6 DEF f

LEMMA ExecuteNumbersAnew ==
  ASSUME Typed, Typed', NumberedAnew, ExecuteTask
  PROVE  NumberedAnew'
<1> DEFINE n == Len(Ahead)
<1>1. /\ sessions' = sessions /\ conn' = conn
      /\ Head(tasks) = tasks[1] /\ 1 \in DOMAIN tasks
      /\ \A j \in DOMAIN tasks' : \E k \in DOMAIN tasks : tasks'[j] = tasks[k]
  BY TaskTaken DEF ExecuteTask
<1>2. /\ \A j \in DOMAIN Ahead : j \in DOMAIN Ahead' /\ Ahead'[j] = Ahead[j]
      /\ \A j \in DOMAIN Ahead' \ DOMAIN Ahead :
           /\ Ahead'[j].op # "register"
           /\ Ahead'[j].op = "send_one" => /\ Ahead'[j].fd = tasks[1].fd
                                           /\ Ahead'[j].text.task = tasks[1]
  <2>1. todo' \in Seq(WorkerCommands)
    BY DEF Typed, TypeOK
  <2>2. DOMAIN todo' = 1..Len(todo') /\ Len(todo') \in Nat
    BY <2>1, LenProperties
  <2>3. /\ DOMAIN Ahead \subseteq DOMAIN Ahead'
        /\ \A j \in DOMAIN Ahead : Ahead'[j] = Ahead[j]
        /\ \A j \in DOMAIN Ahead' \ DOMAIN Ahead :
             j - n \in DOMAIN todo' /\ Ahead'[j] = todo'[j - n]
    BY <2>2, ExecuteGrows, GrownParts
  <2>4. \A k \in DOMAIN todo' : todo'[k].op # "register"
    <3>1. \A cmd \in WorkerCommands : cmd.op # "register"
      BY DEF WorkerCommands
    <3> QED
      BY <2>1, <3>1
  <2>5. \A k \in DOMAIN todo' :
          todo'[k].op = "send_one" => todo'[k].fd = tasks[1].fd /\ todo'[k].text.task = tasks[1]
    BY <1>1, PushedReplies
  <2> QED
    BY <2>3, <2>4, <2>5
<1> SUFFICES ASSUME NEW i \in DOMAIN Ahead', Ahead'[i].op = "register"
             PROVE  LET f == Ahead'[i].fd IN
                    /\ f \notin DOMAIN sessions'
                    /\ \A j \in DOMAIN tasks' : tasks'[j].fd = f => tasks'[j].conn < conn'[f]
                    /\ \A j \in DOMAIN Ahead' :
                         /\ Ahead'[j].op = "register" /\ Ahead'[j].fd = f => i = j
                         /\ Ahead'[j].op = "send_one" /\ Ahead'[j].fd = f
                              => Ahead'[j].text.task.conn < conn'[f]
  BY DEF NumberedAnew
<1>3. i \in DOMAIN Ahead /\ Ahead'[i] = Ahead[i]
  BY <1>2
<1> DEFINE f == Ahead'[i].fd
<1>4. /\ f \notin DOMAIN sessions
      /\ \A j \in DOMAIN tasks : tasks[j].fd = f => tasks[j].conn < conn[f]
      /\ \A j \in DOMAIN Ahead :
           /\ Ahead[j].op = "register" /\ Ahead[j].fd = f => i = j
           /\ Ahead[j].op = "send_one" /\ Ahead[j].fd = f => Ahead[j].text.task.conn < conn[f]
  BY <1>3 DEF NumberedAnew
<1> HIDE DEF f
<1>5. \A j \in DOMAIN Ahead' :
        /\ Ahead'[j].op = "register" /\ Ahead'[j].fd = f => i = j
        /\ Ahead'[j].op = "send_one" /\ Ahead'[j].fd = f => Ahead'[j].text.task.conn < conn[f]
  BY <1>1, <1>2, <1>4
<1> QED
  BY <1>1, <1>4, <1>5 DEF f

LEMMA ObeyNumbersAnew ==
  ASSUME Typed, NumberedAnew, Obey
  PROVE  NumberedAnew'
<1>1. /\ tasks' = tasks /\ conn' = conn /\ 1 \in DOMAIN Ahead /\ SessionsAfter(Ahead[1])
      /\ DOMAIN Ahead' \subseteq Int /\ \A i \in DOMAIN Ahead' : i >= 1
      /\ \A i \in DOMAIN Ahead' : i + 1 \in DOMAIN Ahead /\ Ahead'[i] = Ahead[i + 1]
  BY ObeysFirst, ObeyTakes DEF Obey, Taken
<1> SUFFICES ASSUME NEW i \in DOMAIN Ahead', Ahead'[i].op = "register"
             PROVE  LET f == Ahead'[i].fd IN
                    /\ f \notin DOMAIN sessions'
                    /\ \A j \in DOMAIN tasks' : tasks'[j].fd = f => tasks'[j].conn < conn'[f]
                    /\ \A j \in DOMAIN Ahead' :
                         /\ Ahead'[j].op = "register" /\ Ahead'[j].fd = f => i = j
                         /\ Ahead'[j].op = "send_one" /\ Ahead'[j].fd = f
                              => Ahead'[j].text.task.conn < conn'[f]
  BY DEF NumberedAnew
<1> DEFINE f == Ahead'[i].fd
<1>2. /\ f \notin DOMAIN sessions
      /\ \A j \in DOMAIN tasks : tasks[j].fd = f => tasks[j].conn < conn[f]
      /\ \A j \in DOMAIN Ahead :
           /\ Ahead[j].op = "register" /\ Ahead[j].fd = f => i + 1 = j
           /\ Ahead[j].op = "send_one" /\ Ahead[j].fd = f => Ahead[j].text.task.conn < conn[f]
  BY <1>1 DEF NumberedAnew
<1> HIDE DEF f
<1>3. f \notin DOMAIN sessions'
  <2>1. i + 1 # 1
    BY <1>1
  <2> QED
    BY <1>1, <1>2, <2>1 DEF SessionsAfter
<1>4. ASSUME NEW j \in DOMAIN Ahead', Ahead'[j].op = "register", Ahead'[j].fd = f
      PROVE  i = j
  <2>1. i + 1 = j + 1
    BY <1>1, <1>2, <1>4
  <2> QED
    BY <1>1, <2>1
<1>5. \A j \in DOMAIN Ahead' :
        Ahead'[j].op = "send_one" /\ Ahead'[j].fd = f => Ahead'[j].text.task.conn < conn[f]
  BY <1>1, <1>2
<1> QED
  BY <1>1, <1>2, <1>3, <1>4, <1>5 DEF f

LEMMA ReadKnown ==
  ASSUME Typed, KnownSessions, NEW fd \in Fds, NEW cmd \in Script \cap ClientCommands,
         ReadCommand(fd, cmd)
  PROVE  KnownSessions'
<1> DEFINE t == Task(cmd, fd, sessions[fd].user_id, conn[fd], reads + 1)
<1>1. /\ tasks' = Append(tasks, t) /\ t.fd = fd /\ fd \in DOMAIN sessions
      /\ Ahead' = Ahead /\ conn' = conn /\ sessions' = sessions
  BY DEF ReadCommand, Enqueue, Ahead, Open, Task
<1>2. \A j \in DOMAIN tasks' : \/ tasks'[j] = t
                               \/ j \in DOMAIN tasks /\ tasks'[j] = tasks[j]
  <2>1. tasks \in Seq(Tasks) /\ t \in Tasks
    BY NewTask DEF ReadCommand, Typed, TypeOK
  <2> HIDE DEF t
  <2> QED
    BY <1>1, <2>1, AppendProperties, LenProperties
<1> HIDE DEF t
<1>3. NumberedAnew'
  BY <1>1, <1>2 DEF KnownSessions, NumberedAnew
<1> QED
  BY <1>1, <1>3 DEF KnownSessions, Identified

LEMMA NextKnown ==
  Typed /\ Typed' /\ Orderly /\ KnownSessions /\ [Next]_vars => KnownSessions'
<1> SUFFICES ASSUME Typed, Typed', Orderly, KnownSessions, [Next]_vars PROVE KnownSessions'
  OBVIOUS
<1>1. \A fd \in Fds : conn[fd] \in Int /\ conn'[fd] \in Int
  BY BoundsAssumption DEF Typed, TypeOK
<1>2. conn' = conn => \A fd \in Fds : conn'[fd] >= conn[fd]
  BY <1>1
<1>3. ASSUME NEW fd \in Fds, Connect(fd) PROVE KnownSessions'
  <2> DEFINE cmd == [op |-> "register", fd |-> fd]
  <2>1. Slipped(cmd)
    BY <1>3, PushSlips DEF Connect
  <2>2. cmd.op # "set_user_id" /\ cmd.op # "send_one"
    OBVIOUS
  <2>3. sessions' = sessions /\ conn' = [conn EXCEPT ![fd] = @ + 1]
    BY <1>3 DEF Connect
  <2>4. \A f \in Fds : conn'[f] >= conn[f]
    BY <1>1, <2>3 DEF Typed, TypeOK
  <2> HIDE DEF cmd
  <2>5. Identified'
    BY <1>1, <2>1, <2>2, <2>3, <2>4, SlipIdentified DEF KnownSessions
  <2> QED
    BY <1>3, <2>5, ConnectNumbersAnew DEF KnownSessions
<1>4. ASSUME NEW fd \in Fds, Hangup(fd) PROVE KnownSessions'
  <2> DEFINE cmd == [op |-> "unregister", fd |-> fd]
  <2>1. Slipped(cmd)
    BY <1>4, PushSlips DEF Hangup
  <2>2. cmd.op # "set_user_id" /\ cmd.op # "send_one" /\ cmd.op # "register"
    OBVIOUS
  <2>3. sessions' = sessions /\ conn' = conn /\ tasks' = tasks
    BY <1>4 DEF Hangup
  <2> HIDE DEF cmd
  <2>4. Identified'
    BY <1>1, <1>2, <2>1, <2>2, <2>3, SlipIdentified DEF KnownSessions
  <2> QED
    BY <2>1, <2>2, <2>3, <2>4, SlipNumbersAnew DEF KnownSessions
<1>5. ASSUME NEW fd \in Fds, NEW cmd \in Script \cap ClientCommands, ReadCommand(fd, cmd)
      PROVE  KnownSessions'
  BY <1>5, ReadKnown
<1>6. ASSUME NEW fd \in Fds, Echo(fd) PROVE KnownSessions'
  <2> DEFINE t == Task([op |-> "response"], fd, sessions[fd].user_id, conn[fd], reads + 1)
             cmd == Reply(t, "echo")
  <2>1. Push(cmd) /\ todo' = todo /\ tasks' = tasks /\ conn' = conn
        /\ sessions' = sessions /\ fd \in DOMAIN sessions
    BY <1>6 DEF Echo, Open
  <2>2. Slipped(cmd)
    BY <2>1, PushSlips
  <2>3. t.fd = fd
    BY DEF Task
  <2> HIDE DEF t
  <2>4. cmd.op = "send_one" /\ cmd.fd = fd /\ cmd.text.says = "echo"
    BY <2>3 DEF Reply, Says
  <2> HIDE DEF cmd
  <2>5. cmd.op # "set_user_id" /\ cmd.op # "register"
    BY <2>4
  <2>6. Identified'
    BY <1>1, <1>2, <2>1, <2>2, <2>4, <2>5, SlipIdentified DEF KnownSessions
  <2> QED
    BY <2>1, <2>2, <2>4, <2>5, <2>6, SlipNumbersAnew DEF KnownSessions
<1>7. CASE ExecuteTask
  BY <1>7, ExecuteNumbersAnew, ExecuteIdentified DEF KnownSessions
<1>8. CASE PushNext
  <2>1. Ahead' = Ahead
    BY <1>8, PushNextSlides
  <2>2. tasks' = tasks /\ sessions' = sessions /\ conn' = conn
    BY <1>8 DEF PushNext
  <2> QED
    BY <2>1, <2>2 DEF KnownSessions, NumberedAnew, Identified
<1>9. CASE Obey
  BY <1>9, ObeyNumbersAnew, ObeyIdentified DEF KnownSessions
<1>10. CASE DatabaseFails \/ DatabaseRecovers \/ UNCHANGED vars
  <2>1. Ahead' = Ahead /\ tasks' = tasks /\ sessions' = sessions /\ conn' = conn
    BY <1>10 DEF DatabaseFails, DatabaseRecovers, vars, Ahead
  <2> QED
    BY <2>1 DEF KnownSessions, NumberedAnew, Identified
<1> QED
  BY <1>3, <1>4, <1>5, <1>6, <1>7, <1>8, <1>9, <1>10 DEF Next

\* Nothing but obeying a command delivers anything.
LEMMA NothingDelivered ==
  ASSUME Typed, LoginSuccess, [Next]_vars, ~Obey
  PROVE  LoginSuccess'
<1>1. CASE delivered' = Nothing
  <2>1. DOMAIN delivered' = {}
    BY <1>1 DEF Nothing
  <2> QED
    BY <2>1 DEF LoginSuccess
<1>2. CASE UNCHANGED vars
  BY <1>2 DEF vars, LoginSuccess
<1> QED
  BY <1>1, <1>2 DEF Next, Connect, Hangup, ReadCommand, Echo, ExecuteTask, PushNext,
                       DatabaseFails, DatabaseRecovers

\* A client that reads "login success" is logged in under the id it sent
\* (LoginSuccess): the worker pushes the identity before the reply, nothing
\* that is pushed between the two changes it, and what was pushed for an
\* earlier connection on the descriptor cannot be mistaken for it.
THEOREM LoginSucceeds == Spec => []LoginSuccess
<1>1. Init => Typed /\ Orderly /\ KnownSessions /\ LoginSuccess
  <2>1. Init => DOMAIN delivered = {}
    BY DEF Init, Nothing
  <2>2. Init => LoginSuccess
    BY <2>1 DEF LoginSuccess
  <2> QED
    BY <2>2, InitTyped, InitOrderly, InitKnown
<1>2. Typed /\ Orderly /\ KnownSessions /\ LoginSuccess /\ [Next]_vars
        => Typed' /\ Orderly' /\ KnownSessions' /\ LoginSuccess'
  <2> SUFFICES ASSUME Typed, Orderly, KnownSessions, LoginSuccess, [Next]_vars
               PROVE  Typed' /\ Orderly' /\ KnownSessions' /\ LoginSuccess'
    OBVIOUS
  <2>1. Typed' /\ Orderly'
    BY NextTyped, NextOrderly
  <2>2. KnownSessions'
    BY <2>1, NextKnown
  <2>3. LoginSuccess'
    BY ObeyLogsIn, NothingDelivered DEF KnownSessions
  <2> QED
    BY <2>1, <2>2, <2>3
<1> QED
  BY <1>1, <1>2, PTL DEF Spec

-----------------------------------------------------------------------------
(* Who is listed where.  What becomes of a session is foretold: a function *)
(* gives its user and its rooms after each of the commands ahead.          *)

View(s) == [user_id |-> s.user_id, rooms |-> s.rooms]

\* cmd is to give new rooms to the session s on fd.
Refreshing(cmd, fd, s) ==
  \/ cmd.op = "set_joined_rooms" /\ cmd.fd = fd
  \/ cmd.op = "set_joined_rooms_for_user" /\ cmd.user_id = s.user_id

Moved(cmd, fd, s) ==
  IF Identity(cmd, fd) THEN [user_id |-> cmd.user_id, rooms |-> {}]
  ELSE IF Refreshing(cmd, fd, s)
  THEN [user_id |-> s.user_id, rooms |-> {r \in cmd.room_ids : r > 0}]
  ELSE s

Foretold(cmds, s, fd, F) ==
  /\ F[0] = s
  /\ \A i \in DOMAIN cmds : F[i] = Moved(cmds[i], fd, F[i - 1])

LoginReply(cmd, fd) ==
  cmd.op = "send_one" /\ cmd.fd = fd /\ cmd.text.task.cmd.op = "login"

\* The session is who it will be, or the answer to a login is still ahead.
Settled(cmds, n, fd, F) ==
  \A i \in 0..n : \/ F[i].user_id = F[n].user_id
                  \/ \E k \in DOMAIN cmds : k > i /\ LoginReply(cmds[k], fd)

\* Tasks are executed as of who the session will be.
AskedAs(ts, fd, s) == \A j \in DOMAIN ts : ts[j].fd = fd => ts[j].user_id = s.user_id

\* The session will be listed under the rooms of its user.
Belongs(d, s) == ListedRightly(d, s) /\ s.rooms \subseteq 1..(d.next_room - 1)

\* Room messages will find members only.
HeardByMembers(cmds, F) ==
  \A i \in DOMAIN cmds :
    cmds[i].op = "room_broadcast" /\ cmds[i].room_id \in F[i - 1].rooms
      => F[i - 1].user_id \in cmds[i].text.members

Prospect(cmds, n, ts, d, s, fd, F) ==
  /\ Foretold(cmds, s, fd, F)
  /\ Settled(cmds, n, fd, F)
  /\ AskedAs(ts, fd, F[n])
  /\ Belongs(d, F[n])
  /\ HeardByMembers(cmds, F)

Foreseen ==
  \A fd \in DOMAIN sessions \cap calm :
    \E F : Prospect(Ahead, Len(Ahead), tasks, db, View(sessions[fd]), fd, F)

\* Nothing under way is about a session that is still to come.
Fresh ==
  \A fd \in calm :
    (\E i \in DOMAIN Ahead : Ahead[i].op = "register" /\ Ahead[i].fd = fd)
    => /\ \A j \in DOMAIN tasks : tasks[j].fd # fd
       /\ \A k \in DOMAIN Ahead :
            Ahead[k].op \in {"set_user_id", "set_joined_rooms"} => Ahead[k].fd # fd

\* No command was read behind an unanswered login.
LoginsLast ==
  \A i, j \in DOMAIN tasks :
    i < j /\ tasks[i].fd = tasks[j].fd /\ tasks[i].fd \in calm
      => tasks[i].cmd.op # "login"

\* The database has not failed since.
Spared == failing => calm = {}

\* Who is calm in the next state is now, and if a command about him slips in
\* it is not his registration; or nothing about him is under way and he has
\* no session yet.
Calmed(cmd) ==
  \A f \in calm' :
    \/ f \in calm /\ ~(cmd.op = "register" /\ cmd.fd = f)
    \/ f \notin DOMAIN sessions /\ ~UnderWay(f)

Listed == Spared /\ Fresh /\ LoginsLast /\ Foreseen

LEMMA MovedIsObeyed ==
  ASSUME NEW cmd, NEW fd, NEW s \in SessionStates
  PROVE  Moved(cmd, fd, View(s)) = View(Obeyed(cmd, fd, s))
<1>1. View(s).user_id = s.user_id /\ View(s).rooms = s.rooms
  BY DEF View
<1>2. CASE Identity(cmd, fd)
  <2>1. /\ Obeyed(cmd, fd, s).user_id = cmd.user_id /\ Obeyed(cmd, fd, s).rooms = {}
    BY <1>2 DEF Obeyed, Identity, SessionStates
  <2> QED
    BY <1>2, <2>1 DEF Moved, View
<1>3. CASE ~Identity(cmd, fd) /\ Refreshing(cmd, fd, s)
  <2>1. /\ Obeyed(cmd, fd, s).user_id = s.user_id
        /\ Obeyed(cmd, fd, s).rooms = {r \in cmd.room_ids : r > 0}
    BY <1>3 DEF Obeyed, Identity, Refreshing, SessionStates
  <2>2. Refreshing(cmd, fd, View(s))
    BY <1>1, <1>3 DEF Refreshing
  <2> QED
    BY <1>1, <1>3, <2>1, <2>2 DEF Moved, View
<1>4. CASE ~Identity(cmd, fd) /\ ~Refreshing(cmd, fd, s)
  <2>1. /\ Obeyed(cmd, fd, s).user_id = s.user_id
        /\ Obeyed(cmd, fd, s).rooms = s.rooms
    BY <1>4 DEF Obeyed, Identity, Refreshing, SessionStates
  <2>2. ~Refreshing(cmd, fd, View(s))
    BY <1>1, <1>4 DEF Refreshing
  <2> QED
    BY <1>1, <1>4, <2>1, <2>2 DEF Moved, View
<1> QED
  BY <1>2, <1>3, <1>4

\* What is foretold when more is pushed that leaves the session's user.
Extended(F, n, pushes, fd, joined) ==
  [i \in Nat |->
     IF i <= n THEN F[i]
     ELSE IF \E j \in 1..(i - n) : Refreshing(pushes[j], fd, F[n])
     THEN [user_id |-> F[n].user_id, rooms |-> joined]
     ELSE F[n]]

\* more is cmds, of length n, and then pushes, of length m.
Longer(more, cmds, n, pushes, m) ==
  /\ n \in Nat /\ m \in Nat
  /\ DOMAIN cmds = 1..n /\ DOMAIN pushes = 1..m /\ DOMAIN more = 1..(n + m)
  /\ \A i \in 1..n : more[i] = cmds[i]
  /\ \A i \in 1..m : more[n + i] = pushes[i]

\* No push changes the user of the session s on fd, or gives it other rooms.
GivesOnly(pushes, m, fd, s, joined) ==
  \A i \in 1..m :
    /\ ~Identity(pushes[i], fd)
    /\ Refreshing(pushes[i], fd, s) => {r \in pushes[i].room_ids : r > 0} = joined

LEMMA ForetellMore ==
  ASSUME NEW cmds, NEW pushes, NEW more, NEW n, NEW m,
         Longer(more, cmds, n, pushes, m),
         NEW s, NEW fd, NEW F, NEW joined, Foretold(cmds, s, fd, F),
         GivesOnly(pushes, m, fd, F[n], joined),
         NEW G, G = Extended(F, n, pushes, fd, joined)
  PROVE  /\ Foretold(more, s, fd, G)
         /\ \A i \in 0..n : G[i] = F[i]
         /\ \A i \in n..(n + m) : /\ G[i].user_id = F[n].user_id
                                  /\ G[i].rooms = F[n].rooms \/ G[i].rooms = joined
         /\ IF \E j \in 1..m : Refreshing(pushes[j], fd, F[n])
            THEN G[n + m].rooms = joined ELSE G[n + m] = F[n]
<1> DEFINE u == F[n]
           new == [user_id |-> u.user_id, rooms |-> joined]
           Some(k) == \E j \in 1..k : Refreshing(pushes[j], fd, u)
<1>0. /\ n \in Nat /\ m \in Nat
      /\ DOMAIN cmds = 1..n /\ DOMAIN pushes = 1..m /\ DOMAIN more = 1..(n + m)
      /\ \A i \in 1..n : more[i] = cmds[i]
      /\ \A i \in 1..m : more[n + i] = pushes[i]
      /\ \A i \in 1..m :
           /\ ~Identity(pushes[i], fd)
           /\ Refreshing(pushes[i], fd, F[n]) => {r \in pushes[i].room_ids : r > 0} = joined
  BY DEF Longer, GivesOnly
<1>1. \A i \in Nat : G[i] = IF i <= n THEN F[i] ELSE IF Some(i - n) THEN new ELSE u
  BY DEF Extended
<1>2. new.user_id = u.user_id /\ new.rooms = joined
  OBVIOUS
<1>3. \A a \in Nat : \A b \in Nat : a <= b /\ Some(a) => Some(b)
  OBVIOUS
<1>4. ~Some(0)
  OBVIOUS
<1>5. \A k \in 1..m : Some(k) <=> Some(k - 1) \/ Refreshing(pushes[k], fd, u)
  BY <1>0
<1>6. \A i : Refreshing(pushes[i], fd, new) <=> Refreshing(pushes[i], fd, u)
  BY <1>2 DEF Refreshing
<1> HIDE DEF u, new, Some
<1>7. \A i \in 0..n : G[i] = F[i]
  BY <1>0, <1>1
<1>8. \A k \in 0..m : G[n + k] = IF Some(k) THEN new ELSE u
  <2> SUFFICES ASSUME NEW k \in 0..m PROVE G[n + k] = IF Some(k) THEN new ELSE u
    OBVIOUS
  <2>1. CASE k = 0
    <3>1. G[n + k] = F[n]
      BY <1>0, <1>7, <2>1
    <3> QED
      BY <1>4, <2>1, <3>1 DEF u
  <2>2. CASE k # 0
    <3>1. n + k \in Nat /\ ~(n + k <= n) /\ (n + k) - n = k
      BY <1>0, <2>2
    <3> QED
      BY <1>1, <3>1
  <2> QED
    BY <2>1, <2>2
<1>9. ASSUME NEW i \in 1..(n + m)
      PROVE  G[i] = Moved(more[i], fd, G[i - 1])
  <2>1. CASE i <= n
    <3>1. i \in 1..n /\ i \in 0..n /\ i - 1 \in 0..n
      BY <1>0, <2>1
    <3> QED
      BY <1>0, <1>7, <3>1 DEF Foretold
  <2>2. CASE ~(i <= n)
    <3> DEFINE k == i - n
    <3>1. k \in 1..m /\ k \in 0..m /\ k - 1 \in 0..m /\ n + k = i /\ n + (k - 1) = i - 1
      BY <1>0, <2>2
    <3> HIDE DEF k
    <3>2. more[i] = pushes[k]
      BY <1>0, <3>1
    <3>3. /\ G[i] = IF Some(k) THEN new ELSE u
          /\ G[i - 1] = IF Some(k - 1) THEN new ELSE u
      BY <1>8, <3>1
    <3>4. /\ ~Identity(pushes[k], fd)
          /\ Refreshing(pushes[k], fd, u) => {r \in pushes[k].room_ids : r > 0} = joined
      BY <1>0, <3>1 DEF u
    <3>5. Some(k) <=> Some(k - 1) \/ Refreshing(pushes[k], fd, u)
      BY <1>5, <3>1
    <3>6. G[i - 1].user_id = u.user_id
      BY <1>2, <3>3
    <3>7. Refreshing(pushes[k], fd, G[i - 1]) <=> Refreshing(pushes[k], fd, u)
      BY <1>6, <3>3
    <3>8. CASE Refreshing(pushes[k], fd, u)
      <4>1. Moved(pushes[k], fd, G[i - 1]) = [user_id |-> u.user_id, rooms |-> joined]
        BY <3>4, <3>6, <3>7, <3>8 DEF Moved
      <4> QED
        BY <3>2, <3>3, <3>5, <3>8, <4>1 DEF new
    <3>9. CASE ~Refreshing(pushes[k], fd, u)
      <4>1. Moved(pushes[k], fd, G[i - 1]) = G[i - 1]
        BY <3>4, <3>7, <3>9 DEF Moved
      <4> QED
        BY <3>2, <3>3, <3>5, <3>9, <4>1
    <3> QED
      BY <3>8, <3>9
  <2> QED
    BY <2>1, <2>2
<1>10. Foretold(more, s, fd, G)
  <2>1. G[0] = F[0]
    BY <1>0, <1>7
  <2> QED
    BY <1>0, <1>9, <2>1 DEF Foretold
<1>11. ASSUME NEW i \in n..(n + m)
       PROVE  /\ G[i].user_id = u.user_id
              /\ G[i].rooms = u.rooms \/ G[i].rooms = joined
  <2>1. i - n \in 0..m /\ n + (i - n) = i
    BY <1>0
  <2>2. G[i] = new \/ G[i] = u
    BY <1>8, <2>1
  <2> QED
    BY <1>2, <2>2
<1>12. IF Some(m) THEN G[n + m].rooms = joined ELSE G[n + m] = u
  BY <1>0, <1>2, <1>8
<1> QED
  BY <1>7, <1>10, <1>11, <1>12 DEF u, Some

\* What is foretold when a command slips in that moves no session.
Delayed(F, q) == [i \in Nat |-> IF i <= q THEN F[i] ELSE F[i - 1]]

LEMMA ForetellSlip ==
  ASSUME Typed, NEW cmd, Slipped(cmd), NEW fd, NEW s, NEW F,
         cmd.op \notin {"set_user_id", "set_joined_rooms", "set_joined_rooms_for_user",
                        "room_broadcast"},
         Prospect(Ahead, Len(Ahead), tasks, db, s, fd, F)
  PROVE  Prospect(Ahead', Len(Ahead'), tasks, db, s, fd, Delayed(F, Len(queue)))
<1> DEFINE q == Len(queue)
           n == Len(Ahead)
           z == Ahead'
           c == Ahead
           G == Delayed(F, q)
<1>1. q \in Nat /\ n \in Nat /\ q <= n /\ DOMAIN c = 1..n
  BY AheadFacts
<1>2. /\ DOMAIN z = 1..(n + 1) /\ Len(z) = n + 1
      /\ \A i \in 1..q : z[i] = c[i]
      /\ z[q + 1] = cmd
      /\ \A i \in (q + 2)..(n + 1) : z[i] = c[i - 1]
  BY DEF Slipped
<1>3. \A i \in Nat : G[i] = IF i <= q THEN F[i] ELSE F[i - 1]
  BY DEF Delayed
<1>4. /\ Foretold(c, s, fd, F) /\ Settled(c, n, fd, F) /\ AskedAs(tasks, fd, F[n])
      /\ Belongs(db, F[n]) /\ HeardByMembers(c, F)
  BY DEF Prospect
<1> HIDE DEF q, n, z, c, G
<1>5. G[n + 1] = F[n]
  <2>1. n + 1 \in Nat /\ ~(n + 1 <= q) /\ (n + 1) - 1 = n
    BY <1>1
  <2> QED
    BY <1>3, <2>1
<1>6. ASSUME NEW i \in 1..(n + 1), i <= q
      PROVE  i \in 1..n /\ z[i] = c[i] /\ G[i] = F[i] /\ G[i - 1] = F[i - 1]
  <2>1. i \in 1..q /\ i \in 1..n /\ i \in Nat /\ i - 1 \in Nat /\ i - 1 <= q
    BY <1>1, <1>6
  <2> QED
    BY <1>2, <1>3, <1>6, <2>1
<1>7. ASSUME NEW i \in 1..(n + 1), i > q + 1
      PROVE  i - 1 \in 1..n /\ z[i] = c[i - 1] /\ G[i] = F[i - 1] /\ G[i - 1] = F[(i - 1) - 1]
  <2>1. /\ i \in (q + 2)..(n + 1) /\ i - 1 \in 1..n /\ i \in Nat /\ i - 1 \in Nat
        /\ ~(i <= q) /\ ~(i - 1 <= q)
    BY <1>1, <1>7
  <2> QED
    BY <1>2, <1>3, <2>1
<1>8. G[q + 1] = F[q] /\ G[q] = F[q] /\ (q + 1) - 1 = q
  <2>1. q \in Nat /\ q + 1 \in Nat /\ ~(q + 1 <= q) /\ (q + 1) - 1 = q /\ q <= q
    BY <1>1
  <2> QED
    BY <1>3, <2>1
<1>9. Foretold(z, s, fd, G)
  <2>1. G[0] = s
    <3>1. 0 \in Nat /\ 0 <= q
      BY <1>1
    <3> QED
      BY <1>3, <1>4, <3>1 DEF Foretold
  <2>2. ASSUME NEW i \in 1..(n + 1) PROVE G[i] = Moved(z[i], fd, G[i - 1])
    <3>1. CASE i <= q
      BY <1>1, <1>4, <1>6, <3>1 DEF Foretold
    <3>2. CASE i = q + 1
      <4>1. Moved(cmd, fd, F[q]) = F[q]
        BY DEF Moved, Identity, Refreshing
      <4> QED
        BY <1>2, <1>8, <3>2, <4>1
    <3>3. CASE i > q + 1
      BY <1>1, <1>4, <1>7, <3>3 DEF Foretold
    <3> QED
      BY <1>1, <3>1, <3>2, <3>3
  <2> QED
    BY <1>2, <2>1, <2>2 DEF Foretold
<1>10. Settled(z, n + 1, fd, G)
  <2> SUFFICES ASSUME NEW i \in 0..(n + 1), G[i].user_id # F[n].user_id
               PROVE  \E k \in 1..(n + 1) : k > i /\ LoginReply(z[k], fd)
    BY <1>2, <1>5 DEF Settled
  <2>1. CASE i <= q
    <3>1. i \in 0..n /\ G[i] = F[i]
      BY <1>1, <1>3, <2>1
    <3>2. PICK k \in 1..n : k > i /\ LoginReply(c[k], fd)
      BY <1>1, <1>4, <3>1 DEF Settled
    <3>3. CASE k <= q
      <4>1. k \in 1..(n + 1) /\ z[k] = c[k]
        BY <1>1, <1>2, <3>3
      <4> QED
        BY <3>2, <4>1
    <3>4. CASE k > q
      <4>1. k + 1 \in (q + 2)..(n + 1) /\ k + 1 \in 1..(n + 1) /\ k + 1 > i /\ (k + 1) - 1 = k
        BY <1>1, <3>2, <3>4
      <4>2. z[k + 1] = c[k]
        BY <1>2, <4>1
      <4> QED
        BY <3>2, <4>1, <4>2
    <3> QED
      BY <1>1, <3>3, <3>4
  <2>2. CASE i > q
    <3>1. i - 1 \in 0..n /\ i \in Nat /\ ~(i <= q)
      BY <1>1, <2>2
    <3>2. G[i] = F[i - 1]
      BY <1>3, <3>1
    <3>3. PICK k \in 1..n : k > i - 1 /\ LoginReply(c[k], fd)
      BY <1>1, <1>4, <3>1, <3>2 DEF Settled
    <3>4. k + 1 \in (q + 2)..(n + 1) /\ k + 1 \in 1..(n + 1) /\ k + 1 > i /\ (k + 1) - 1 = k
      BY <1>1, <2>2, <3>3
    <3>5. z[k + 1] = c[k]
      BY <1>2, <3>4
    <3> QED
      BY <3>3, <3>4, <3>5
  <2> QED
    BY <1>1, <2>1, <2>2
<1>11. HeardByMembers(z, G)
  <2> SUFFICES ASSUME NEW i \in 1..(n + 1), z[i].op = "room_broadcast",
                      z[i].room_id \in G[i - 1].rooms
               PROVE  G[i - 1].user_id \in z[i].text.members
    BY <1>2 DEF HeardByMembers
  <2>1. CASE i <= q
    BY <1>1, <1>4, <1>6, <2>1 DEF HeardByMembers
  <2>2. CASE i = q + 1
    BY <1>2, <2>2
  <2>3. CASE i > q + 1
    BY <1>1, <1>4, <1>7, <2>3 DEF HeardByMembers
  <2> QED
    BY <1>1, <2>1, <2>2, <2>3
<1> QED
  BY <1>2, <1>4, <1>5, <1>9, <1>10, <1>11 DEF Prospect, c, z, n, q, G

LEMMA SlipForeseen ==
  ASSUME Typed, Foreseen, NEW cmd, Slipped(cmd),
         cmd.op \notin {"set_user_id", "set_joined_rooms", "set_joined_rooms_for_user",
                        "room_broadcast"},
         Calmed(cmd), sessions' = sessions, tasks' = tasks, db' = db
  PROVE  Foreseen'
<1> SUFFICES ASSUME NEW fd \in DOMAIN sessions \cap calm
             PROVE  \E F : Prospect(Ahead', Len(Ahead'), tasks, db, View(sessions[fd]), fd, F)
  BY DEF Foreseen, Calmed
<1>1. PICK F : Prospect(Ahead, Len(Ahead), tasks, db, View(sessions[fd]), fd, F)
  BY DEF Foreseen
<1>2. Prospect(Ahead', Len(Ahead'), tasks, db, View(sessions[fd]), fd, Delayed(F, Len(queue)))
  BY <1>1, ForetellSlip
<1> QED
  BY <1>2

LEMMA JoinedRoomsFacts ==
  ASSUME NEW d, Tables(d), NEW u
  PROVE  /\ {r \in JoinedRooms(d, u) : r > 0} = JoinedRooms(d, u)
         /\ \A r \in DOMAIN d.rooms : r \in JoinedRooms(d, u) <=> Db!Member(d, r, u)
         /\ JoinedRooms(d, u) \subseteq 1..(d.next_room - 1)
         /\ d.next_room \in Nat \ {0}
         /\ \A r : Db!Member(d, r, u) => u \in Users
<1>1. /\ d.next_room \in Nat \ {0} /\ DOMAIN d.rooms \subseteq 1..(d.next_room - 1)
      /\ d.room_members \subseteq (DOMAIN d.rooms) \X Users
  BY DEF Tables
<1>2. \A r \in JoinedRooms(d, u) : r \in DOMAIN d.rooms
  BY DEF JoinedRooms
<1>3. \A r \in DOMAIN d.rooms : r \in Int /\ r > 0
  BY <1>1
<1>4. {r \in JoinedRooms(d, u) : r > 0} = JoinedRooms(d, u)
  BY <1>2, <1>3
<1>5. \A r : Db!Member(d, r, u) => u \in Users
  BY <1>1 DEF Db!Member
<1>6. \A r \in DOMAIN d.rooms : r \in JoinedRooms(d, u) <=> Db!Member(d, r, u)
  BY DEF JoinedRooms
<1> QED
  BY <1>1, <1>2, <1>4, <1>5, <1>6

\* Whoever was listed as he belonged is, when he is refreshed or nothing
\* changed for him.
LEMMA BelongsStill ==
  ASSUME NEW d, NEW d2, Tables(d), Follows(d, d2), NEW s, Belongs(d, s),
         SameFor(d, d2, s.user_id)
  PROVE  Belongs(d2, s)
<1>1. /\ d.next_room \in Nat \ {0} /\ d2.next_room \in {d.next_room, d.next_room + 1}
      /\ s.rooms \subseteq 1..(d.next_room - 1)
  BY DEF Tables, Follows, Belongs
<1>2. s.rooms \subseteq 1..(d2.next_room - 1)
  BY <1>1
<1>3. d.next_room \notin s.rooms
  BY <1>1
<1>4. ASSUME NEW r \in DOMAIN d2.rooms
      PROVE  /\ r \in s.rooms => Db!Member(d2, r, s.user_id)
             /\ Db!Member(d2, r, s.user_id) /\ d2.rooms[r] # s.user_id => r \in s.rooms
  <2>1. CASE /\ r \in DOMAIN d.rooms
             /\ d2.rooms[r] = d.rooms[r]
             /\ Db!Member(d2, r, s.user_id) <=> Db!Member(d, r, s.user_id)
    BY <2>1 DEF Belongs, ListedRightly
  <2>2. CASE /\ r = d.next_room
             /\ Db!Member(d2, r, s.user_id) <=> d2.rooms[r] = s.user_id
    BY <1>3, <2>2
  <2> QED
    BY <2>1, <2>2 DEF SameFor
<1> QED
  BY <1>2, <1>4 DEF Belongs, ListedRightly

LEMMA BelongsAnew ==
  ASSUME NEW d, Tables(d), NEW s, s.rooms = JoinedRooms(d, s.user_id)
  PROVE  Belongs(d, s)
  BY JoinedRoomsFacts DEF Belongs, ListedRightly

\* How the commands ahead and the tasks change when a task is executed.
LEMMA ExecuteParts ==
  ASSUME Typed, Typed', ExecuteTask
  PROVE  /\ Len(Ahead) \in Nat /\ Len(todo') \in Nat
         /\ DOMAIN Ahead = 1..Len(Ahead) /\ DOMAIN todo' = 1..Len(todo')
         /\ DOMAIN Ahead' = 1..(Len(Ahead) + Len(todo'))
         /\ Len(Ahead') = Len(Ahead) + Len(todo')
         /\ \A i \in 1..Len(Ahead) : Ahead'[i] = Ahead[i]
         /\ \A i \in 1..Len(todo') : Ahead'[Len(Ahead) + i] = todo'[i]
         /\ 1 \in DOMAIN tasks /\ Head(tasks) = tasks[1] /\ Head(tasks) \in Tasks
         /\ \A j \in DOMAIN tasks' : j + 1 \in DOMAIN tasks /\ tasks'[j] = tasks[j + 1]
<1>1. todo' \in Seq(WorkerCommands)
  BY DEF Typed, TypeOK
<1>2. DOMAIN todo' = 1..Len(todo') /\ Len(todo') \in Nat
  BY <1>1, LenProperties
<1> QED
  BY <1>2, AheadFacts, ExecuteGrows, TaskTaken DEF Grown

LEMMA ServeForeseen ==
  ASSUME Typed, Typed', ExecuteTask, ~failing,
         NEW fd, NEW s, NEW F, Prospect(Ahead, Len(Ahead), tasks, db, s, fd, F),
         Serves(Head(tasks), Then(db', todo')),
         Head(tasks).cmd.op = "say" => Keeps(db, db')
  PROVE  \E G : Prospect(Ahead', Len(Ahead'), tasks', db', s, fd, G)
<1> DEFINE n == Len(Ahead)
           m == Len(todo')
           c == Ahead
           z == Ahead'
           p == todo'
           d == db'
           t == Head(tasks)
           u == F[n].user_id
           joined == JoinedRooms(d, u)
           G == Extended(F, n, p, fd, joined)
<1>1. /\ n \in Nat /\ m \in Nat /\ DOMAIN c = 1..n /\ DOMAIN p = 1..m
      /\ DOMAIN z = 1..(n + m) /\ Len(z) = n + m
      /\ \A i \in 1..n : z[i] = c[i]
      /\ \A i \in 1..m : z[n + i] = p[i]
  BY ExecuteParts
<1>2. /\ 1 \in DOMAIN tasks /\ t = tasks[1]
      /\ \A j \in DOMAIN tasks' : j + 1 \in DOMAIN tasks /\ tasks'[j] = tasks[j + 1]
  BY ExecuteParts
<1>3. /\ Foretold(c, s, fd, F) /\ Settled(c, n, fd, F) /\ AskedAs(tasks, fd, F[n])
      /\ Belongs(db, F[n]) /\ HeardByMembers(c, F)
  BY DEF Prospect
<1>4. /\ Tables(db) /\ Tables(d) /\ Follows(db, d)
      /\ SameFor(db, d, u) \/ Refreshes(p, u)
      /\ \A i \in DOMAIN p : Fitting(t, d, p[i])
      /\ t.cmd.op = "say" => Keeps(db, d)
  BY DEF Serves, AllFitting, Then, Typed, Follows
<1> HIDE DEF n, m, c, z, p, d, t, u, joined, G
<1>5. t.fd = fd => t.user_id = u
  BY <1>2, <1>3 DEF AskedAs, u
<1>6. \A i \in 1..m :
        /\ ~Identity(p[i], fd)
        /\ Refreshing(p[i], fd, F[n]) => {r \in p[i].room_ids : r > 0} = joined
  <2> SUFFICES ASSUME NEW i \in 1..m
               PROVE  /\ ~Identity(p[i], fd)
                      /\ Refreshing(p[i], fd, F[n]) => {r \in p[i].room_ids : r > 0} = joined
    OBVIOUS
  <2>1. Fitting(t, d, p[i])
    BY <1>1, <1>4
  <2>2. Refreshing(p[i], fd, F[n]) => p[i].room_ids = joined
    BY <1>5, <2>1 DEF Fitting, Refreshing, u, joined
  <2>3. {r \in joined : r > 0} = joined
    BY <1>4, JoinedRoomsFacts DEF joined
  <2> QED
    BY <2>1, <2>2, <2>3 DEF Fitting, Identity
<1>7. /\ Foretold(z, s, fd, G)
      /\ \A i \in 0..n : G[i] = F[i]
      /\ \A i \in n..(n + m) : /\ G[i].user_id = F[n].user_id
                               /\ G[i].rooms = F[n].rooms \/ G[i].rooms = joined
      /\ IF \E j \in 1..m : Refreshing(p[j], fd, F[n])
         THEN G[n + m].rooms = joined ELSE G[n + m] = F[n]
  <2>1. G = Extended(F, n, p, fd, joined)
    BY DEF G
  <2>2. Longer(z, c, n, p, m)
    BY <1>1 DEF Longer
  <2>3. GivesOnly(p, m, fd, F[n], joined)
    BY <1>6 DEF GivesOnly
  <2> QED
    BY <1>3, <2>1, <2>2, <2>3, ForetellMore
<1>8. n \in n..(n + m) /\ n + m \in n..(n + m) /\ G[n + m].user_id = u
  <2>1. n \in n..(n + m) /\ n + m \in n..(n + m)
    BY <1>1
  <2> QED
    BY <1>7, <2>1 DEF u
<1>9. Settled(z, n + m, fd, G)
  <2> SUFFICES ASSUME NEW i \in 0..(n + m), G[i].user_id # u
               PROVE  \E k \in 1..(n + m) : k > i /\ LoginReply(z[k], fd)
    BY <1>1, <1>8 DEF Settled
  <2>1. i \in 0..n \/ i \in n..(n + m)
    BY <1>1
  <2>2. i \in 0..n /\ F[i].user_id # u
    BY <1>7, <2>1 DEF u
  <2>3. PICK k \in 1..n : k > i /\ LoginReply(c[k], fd)
    BY <1>1, <1>3, <2>2 DEF Settled, u
  <2>4. k \in 1..(n + m) /\ z[k] = c[k]
    BY <1>1
  <2> QED
    BY <2>3, <2>4
<1>10. AskedAs(tasks', fd, G[n + m])
  BY <1>2, <1>3, <1>8 DEF AskedAs, u
<1>11. Belongs(d, G[n + m])
  <2>1. CASE \E j \in 1..m : Refreshing(p[j], fd, F[n])
    <3>1. G[n + m].rooms = JoinedRooms(d, G[n + m].user_id)
      BY <1>7, <1>8, <2>1 DEF joined
    <3> QED
      BY <1>4, <3>1, BelongsAnew
  <2>2. CASE ~\E j \in 1..m : Refreshing(p[j], fd, F[n])
    <3>1. G[n + m] = F[n]
      BY <1>7, <2>2
    <3>2. SameFor(db, d, F[n].user_id)
      BY <1>1, <1>4, <2>2 DEF Refreshes, Refreshing, u
    <3>3. Belongs(d, F[n])
      BY <1>3, <1>4, <3>2, BelongsStill
    <3> QED
      BY <3>1, <3>3
  <2> QED
    BY <2>1, <2>2
<1>12. HeardByMembers(z, G)
  <2> SUFFICES ASSUME NEW i \in 1..(n + m), z[i].op = "room_broadcast",
                      z[i].room_id \in G[i - 1].rooms
               PROVE  G[i - 1].user_id \in z[i].text.members
    BY <1>1 DEF HeardByMembers
  <2>1. CASE i <= n
    <3>1. i \in 1..n /\ i \in 0..n /\ i - 1 \in 0..n
      BY <1>1, <2>1
    <3>2. z[i] = c[i] /\ G[i - 1] = F[i - 1]
      BY <1>1, <1>7, <3>1
    <3> QED
      BY <1>1, <1>3, <3>1, <3>2 DEF HeardByMembers
  <2>2. CASE ~(i <= n)
    <3>1. i - n \in 1..m /\ n + (i - n) = i /\ i - 1 \in n..(n + m)
      BY <1>1, <2>2
    <3>2. z[i] = p[i - n]
      BY <1>1, <3>1
    <3>3. Fitting(t, d, z[i])
      BY <1>1, <1>4, <3>1, <3>2
    <3> DEFINE r == z[i].room_id
    <3>4. /\ t.cmd.op = "say" /\ r \in DOMAIN d.rooms
          /\ z[i].text.members = {v \in Users : Db!Member(d, r, v)}
      BY <3>3 DEF Fitting
    <3>5. G[i - 1].user_id = u /\ (G[i - 1].rooms = F[n].rooms \/ G[i - 1].rooms = joined)
      BY <1>7, <3>1 DEF u
    <3> HIDE DEF r
    <3>6. Belongs(d, F[n])
      <4>1. SameFor(db, d, F[n].user_id)
        BY <1>4, <3>4 DEF Keeps
      <4> QED
        BY <1>3, <1>4, <4>1, BelongsStill
    <3>7. Db!Member(d, r, u)
      <4>1. CASE r \in F[n].rooms
        BY <3>4, <3>6, <4>1 DEF Belongs, ListedRightly, u
      <4>2. CASE r \in joined
        BY <1>4, <3>4, <4>2, JoinedRoomsFacts DEF joined
      <4> QED
        BY <3>5, <4>1, <4>2 DEF r
    <3>8. u \in Users
      BY <1>4, <3>7, JoinedRoomsFacts
    <3> QED
      BY <3>4, <3>5, <3>7, <3>8
  <2> QED
    BY <2>1, <2>2
<1>13. Prospect(z, n + m, tasks', d, s, fd, G)
  BY <1>7, <1>9, <1>10, <1>11, <1>12 DEF Prospect
<1> QED
  BY <1>1, <1>13 DEF z, d

\* A login with a database that does not fail: the session's identity, its
\* rooms, its nickname and the answer, in this order.
Entering(p, t, u) ==
  /\ SetsIdentity(p[1], t.fd, u)
  /\ GivesRooms(p[2], t.fd, JoinedRooms(db, u))
  /\ Renames(p[3], t.fd)
  /\ p[4].op = "send_one" /\ p[4].fd = t.fd /\ p[4].text.task = t

LEMMA LoginEnters ==
  ASSUME ~failing, Tables(db), NEW t, NEW d, NEW p, Identifies(t, Then(d, p))
  PROVE  /\ d = db /\ Len(p) = 4 /\ DOMAIN p = 1..4
         /\ \E u : Entering(p, t, u)
<1>1. /\ d = db /\ Len(p) = 4 /\ DOMAIN p = 1..4
      /\ \/ AdmissionKind(p, t)
         \/ RejectionKind(p, t)
         \/ failing /\ BreakdownKind(p, t)
  BY LoginKinds
<1>2. CASE AdmissionKind(p, t)
  <2>1. Entering(p, t, t.cmd.id)
    BY <1>2 DEF AdmissionKind, Answers, Entering
  <2> QED
    BY <1>1, <2>1
<1>3. CASE RejectionKind(p, t)
  <2>1. JoinedRooms(db, Empty) = {}
    <3>1. \A r : ~Db!Member(db, r, Empty)
      BY JoinedRoomsFacts, NamesAssumption
    <3> QED
      BY <3>1 DEF JoinedRooms
  <2>2. Entering(p, t, Empty)
    BY <1>3, <2>1 DEF RejectionKind, Answers, Entering
  <2> QED
    BY <1>1, <2>2
<1> QED
  BY <1>1, <1>2, <1>3

\* The sessions on other descriptors do not notice a login.
LEMMA LoginForeseenElsewhere ==
  ASSUME Typed, Typed', ExecuteTask, ~failing,
         NEW fd, NEW s, NEW F, Prospect(Ahead, Len(Ahead), tasks, db, s, fd, F),
         Identifies(Head(tasks), Then(db', todo')), Head(tasks).fd # fd
  PROVE  \E G : Prospect(Ahead', Len(Ahead'), tasks', db', s, fd, G)
<1> DEFINE n == Len(Ahead)
           c == Ahead
           z == Ahead'
           p == todo'
           t == Head(tasks)
           none == {}
           G == Extended(F, n, p, fd, none)
<1>1. PICK u : /\ db' = db /\ Len(p) = 4 /\ DOMAIN p = 1..4
               /\ Entering(p, t, u)
  BY LoginEnters DEF Typed
<1>2. /\ n \in Nat /\ Len(p) \in Nat /\ DOMAIN c = 1..n /\ DOMAIN p = 1..Len(p)
      /\ DOMAIN z = 1..(n + Len(p)) /\ Len(z) = n + Len(p)
      /\ \A i \in 1..n : z[i] = c[i]
      /\ \A i \in 1..Len(p) : z[n + i] = p[i]
      /\ \A j \in DOMAIN tasks' : j + 1 \in DOMAIN tasks /\ tasks'[j] = tasks[j + 1]
  BY ExecuteParts
<1>3. /\ Foretold(c, s, fd, F) /\ Settled(c, n, fd, F) /\ AskedAs(tasks, fd, F[n])
      /\ Belongs(db, F[n]) /\ HeardByMembers(c, F)
  BY DEF Prospect
<1> HIDE DEF n, c, z, p, t, none, G
<1>4. Longer(z, c, n, p, 4)
  BY <1>1, <1>2 DEF Longer
<1>5. \A i \in 1..4 : /\ ~Identity(p[i], fd) /\ ~Refreshing(p[i], fd, F[n])
                      /\ p[i].op # "room_broadcast"
  <2> SUFFICES ASSUME NEW i \in 1..4
               PROVE  /\ ~Identity(p[i], fd) /\ ~Refreshing(p[i], fd, F[n])
                      /\ p[i].op # "room_broadcast"
    OBVIOUS
  <2>1. i = 1 \/ i = 2 \/ i = 3 \/ i = 4
    OBVIOUS
  <2>2. /\ p[1].op = "set_user_id" /\ p[1].fd # fd
        /\ p[2].op = "set_joined_rooms" /\ p[2].fd # fd
        /\ p[3].op = "change_nickname" /\ p[4].op = "send_one"
    BY <1>1 DEF Entering, SetsIdentity, GivesRooms, Renames, t
  <2> QED
    BY <2>1, <2>2 DEF Identity, Refreshing
<1>6. GivesOnly(p, 4, fd, F[n], none)
  BY <1>5 DEF GivesOnly
<1>7. /\ Foretold(z, s, fd, G)
      /\ \A i \in 0..n : G[i] = F[i]
      /\ \A i \in n..(n + 4) : /\ G[i].user_id = F[n].user_id
                               /\ G[i].rooms = F[n].rooms \/ G[i].rooms = none
      /\ IF \E j \in 1..4 : Refreshing(p[j], fd, F[n])
         THEN G[n + 4].rooms = none ELSE G[n + 4] = F[n]
  <2>1. G = Extended(F, n, p, fd, none)
    BY DEF G
  <2> QED
    BY <1>3, <1>4, <1>6, <2>1, ForetellMore
<1>8. G[n + 4] = F[n]
  BY <1>5, <1>7
<1>9. Settled(z, n + 4, fd, G)
  <2> SUFFICES ASSUME NEW i \in 0..(n + 4), G[i].user_id # F[n].user_id
               PROVE  \E k \in 1..(n + 4) : k > i /\ LoginReply(z[k], fd)
    BY <1>1, <1>2, <1>8 DEF Settled
  <2>1. i \in 0..n \/ i \in n..(n + 4)
    BY <1>2
  <2>2. i \in 0..n /\ F[i].user_id # F[n].user_id
    BY <1>7, <2>1
  <2>3. PICK k \in 1..n : k > i /\ LoginReply(c[k], fd)
    BY <1>2, <1>3, <2>2 DEF Settled
  <2>4. k \in 1..(n + 4) /\ z[k] = c[k]
    BY <1>2
  <2> QED
    BY <2>3, <2>4
<1>10. AskedAs(tasks', fd, G[n + 4])
  BY <1>2, <1>3, <1>8 DEF AskedAs
<1>11. HeardByMembers(z, G)
  <2> SUFFICES ASSUME NEW i \in 1..(n + 4), z[i].op = "room_broadcast",
                      z[i].room_id \in G[i - 1].rooms
               PROVE  G[i - 1].user_id \in z[i].text.members
    BY <1>1, <1>2 DEF HeardByMembers
  <2>1. i <= n
    <3>1. i - n \in 1..4 => n + (i - n) = i
      BY <1>2
    <3>2. i - n \notin 1..4
      BY <1>1, <1>2, <1>5, <3>1
    <3> QED
      BY <1>2, <3>2
  <2>2. i \in 1..n /\ i - 1 \in 0..n
    BY <1>2, <2>1
  <2>3. z[i] = c[i] /\ G[i - 1] = F[i - 1]
    BY <1>2, <1>7, <2>2
  <2> QED
    BY <1>2, <1>3, <2>2, <2>3 DEF HeardByMembers
<1>12. Prospect(z, n + 4, tasks', db, s, fd, G)
  BY <1>3, <1>7, <1>8, <1>9, <1>10, <1>11 DEF Prospect
<1> QED
  BY <1>1, <1>2, <1>12 DEF z

\* The session whose client logs in.
LEMMA LoginForeseenHere ==
  ASSUME Typed, Typed', ExecuteTask, ~failing, LoginsLast,
         NEW fd \in calm, NEW s, NEW F, Prospect(Ahead, Len(Ahead), tasks, db, s, fd, F),
         Identifies(Head(tasks), Then(db', todo')),
         Head(tasks).cmd.op = "login", Head(tasks).fd = fd
  PROVE  \E G : Prospect(Ahead', Len(Ahead'), tasks', db', s, fd, G)
<1> DEFINE n == Len(Ahead)
           c == Ahead
           z == Ahead'
           p == todo'
           t == Head(tasks)
<1>1. PICK u : /\ db' = db /\ Len(p) = 4 /\ DOMAIN p = 1..4
               /\ Entering(p, t, u)
  BY LoginEnters DEF Typed
<1>2. /\ n \in Nat /\ Len(p) \in Nat /\ DOMAIN c = 1..n /\ DOMAIN p = 1..Len(p)
      /\ DOMAIN z = 1..(n + Len(p)) /\ Len(z) = n + Len(p)
      /\ \A i \in 1..n : z[i] = c[i]
      /\ \A i \in 1..Len(p) : z[n + i] = p[i]
      /\ 1 \in DOMAIN tasks /\ t = tasks[1] /\ t.cmd.op = "login" /\ t.fd = fd
      /\ \A j \in DOMAIN tasks' : j + 1 \in DOMAIN tasks /\ tasks'[j] = tasks[j + 1]
  BY ExecuteParts
<1>3. /\ Foretold(c, s, fd, F) /\ HeardByMembers(c, F) /\ Tables(db)
  BY DEF Prospect, Typed
<1>4. \A j \in DOMAIN tasks' : 1 < j + 1
  <2>1. tasks' \in Seq(Tasks)
    BY DEF Typed, TypeOK
  <2>2. DOMAIN tasks' = 1..Len(tasks') /\ Len(tasks') \in Nat
    BY <2>1, LenProperties
  <2> QED
    BY <2>2
<1> DEFINE new == [user_id |-> u, rooms |-> {}]
           entered == [user_id |-> u, rooms |-> JoinedRooms(db, u)]
           G == [i \in Nat |-> IF i <= n THEN F[i] ELSE IF i = n + 1 THEN new ELSE entered]
<1>5. \A i \in Nat : G[i] = IF i <= n THEN F[i] ELSE IF i = n + 1 THEN new ELSE entered
  OBVIOUS
<1>6. /\ new.user_id = u /\ entered.user_id = u
      /\ entered.rooms = JoinedRooms(db, u)
      /\ entered = [user_id |-> u, rooms |-> JoinedRooms(db, u)]
      /\ new = [user_id |-> u, rooms |-> {}]
  OBVIOUS
<1> HIDE DEF n, c, z, p, t, new, entered, G
<1>7. /\ z[n + 1] = p[1] /\ z[n + 2] = p[2] /\ z[n + 3] = p[3] /\ z[n + 4] = p[4]
      /\ DOMAIN z = 1..(n + 4) /\ Len(z) = n + 4
  BY <1>1, <1>2
<1>8. \A i \in 0..n : G[i] = F[i]
  BY <1>2, <1>5
<1>9. G[n + 1] = new /\ G[n + 2] = entered /\ G[n + 3] = entered /\ G[n + 4] = entered
  BY <1>2, <1>5
<1>10. /\ p[1].op = "set_user_id" /\ p[1].fd = fd /\ p[1].user_id = u
       /\ p[2].op = "set_joined_rooms" /\ p[2].fd = fd /\ p[2].room_ids = JoinedRooms(db, u)
       /\ p[3].op = "change_nickname" /\ p[4].op = "send_one"
       /\ p[4].fd = fd /\ p[4].text.task.cmd.op = "login"
  BY <1>1, <1>2 DEF Entering, SetsIdentity, GivesRooms, Renames
<1>11. Moved(p[1], fd, F[n]) = new
  BY <1>6, <1>10 DEF Moved, Identity
<1>12. Moved(p[2], fd, new) = entered
  <2>1. {r \in p[2].room_ids : r > 0} = JoinedRooms(db, u)
    BY <1>3, <1>10, JoinedRoomsFacts
  <2>2. ~Identity(p[2], fd) /\ Refreshing(p[2], fd, new)
    BY <1>10 DEF Identity, Refreshing
  <2> QED
    BY <1>6, <2>1, <2>2 DEF Moved
<1>13. Moved(p[3], fd, entered) = entered /\ Moved(p[4], fd, entered) = entered
  BY <1>10 DEF Moved, Identity, Refreshing
<1>14. \A i \in 1..(n + 4) : i \in 1..n \/ i = n + 1 \/ i = n + 2 \/ i = n + 3 \/ i = n + 4
  <2>1. n \in Nat
    BY <1>2
  <2> QED
    BY ONLY <2>1
<1>15. \A i \in 1..n : i \in 0..n /\ i - 1 \in 0..n
  BY <1>2
<1>16. Foretold(z, s, fd, G)
  <2>1. G[0] = s
    BY <1>2, <1>3, <1>8 DEF Foretold
  <2>2. ASSUME NEW i \in 1..(n + 4) PROVE G[i] = Moved(z[i], fd, G[i - 1])
    <3>1. CASE i \in 1..n
      BY <1>2, <1>3, <1>8, <1>15, <3>1 DEF Foretold
    <3>2. CASE i = n + 1
      <4>1. i - 1 = n /\ n \in 0..n
        BY <1>2, <3>2
      <4> QED
        BY <1>7, <1>8, <1>9, <1>11, <3>2, <4>1
    <3>3. CASE i = n + 2
      <4>1. i - 1 = n + 1
        BY <1>2, <3>3
      <4> QED
        BY <1>7, <1>9, <1>12, <3>3, <4>1
    <3>4. CASE i = n + 3
      <4>1. i - 1 = n + 2
        BY <1>2, <3>4
      <4> QED
        BY <1>7, <1>9, <1>13, <3>4, <4>1
    <3>5. CASE i = n + 4
      <4>1. i - 1 = n + 3
        BY <1>2, <3>5
      <4> QED
        BY <1>7, <1>9, <1>13, <3>5, <4>1
    <3> QED
      BY <1>14, <3>1, <3>2, <3>3, <3>4, <3>5
  <2> QED
    BY <1>7, <2>1, <2>2 DEF Foretold
<1>17. Settled(z, n + 4, fd, G)
  <2>1. n + 4 \in 1..(n + 4) /\ \A i \in 0..(n + 4) : i = n + 4 \/ n + 4 > i
    BY <1>2
  <2>2. LoginReply(z[n + 4], fd)
    BY <1>7, <1>10 DEF LoginReply
  <2> QED
    BY <1>7, <2>1, <2>2 DEF Settled
<1>18. AskedAs(tasks', fd, G[n + 4])
  BY <1>2, <1>4 DEF AskedAs, LoginsLast
<1>19. Belongs(db, G[n + 4])
  BY <1>3, <1>6, <1>9, BelongsAnew
<1>20. HeardByMembers(z, G)
  <2> SUFFICES ASSUME NEW i \in 1..(n + 4), z[i].op = "room_broadcast",
                      z[i].room_id \in G[i - 1].rooms
               PROVE  G[i - 1].user_id \in z[i].text.members
    BY <1>7 DEF HeardByMembers
  <2>1. i \in 1..n
    BY <1>7, <1>10, <1>14
  <2>2. z[i] = c[i] /\ G[i - 1] = F[i - 1]
    BY <1>2, <1>8, <1>15, <2>1
  <2> QED
    BY <1>2, <1>3, <2>1, <2>2 DEF HeardByMembers
<1>21. Prospect(z, n + 4, tasks', db, s, fd, G)
  BY <1>16, <1>17, <1>18, <1>19, <1>20 DEF Prospect
<1> QED
  BY <1>1, <1>7, <1>21 DEF z

LEMMA ExecuteForeseen ==
  ASSUME Typed, Typed', ExecuteTask, Spared, LoginsLast, Foreseen
  PROVE  Foreseen'
<1> SUFFICES ASSUME NEW fd \in DOMAIN sessions \cap calm
             PROVE  \E G : Prospect(Ahead', Len(Ahead'), tasks', db', View(sessions[fd]), fd, G)
  BY DEF Foreseen, ExecuteTask
<1> DEFINE t == Head(tasks)
           s == View(sessions[fd])
<1>0. ~failing
  BY DEF Spared
<1>1. PICK F : Prospect(Ahead, Len(Ahead), tasks, db, s, fd, F)
  BY DEF Foreseen
<1>2. \/ /\ t.cmd.op # "login"
         /\ Serves(t, Then(db', todo'))
         /\ t.cmd.op = "say" => Keeps(db, db')
      \/ /\ t.cmd.op = "login"
         /\ Identifies(t, Then(db', todo'))
  <2>1. Supplied
    BY Supply DEF ExecuteTask, ExecuteNext, Execute
  <2> QED
    BY <2>1, TaskServes DEF ExecuteTask, Typed, TypeOK
<1> HIDE DEF s
<1>3. CASE /\ t.cmd.op # "login"
           /\ Serves(t, Then(db', todo'))
           /\ t.cmd.op = "say" => Keeps(db, db')
  BY <1>0, <1>1, <1>3, ServeForeseen DEF s
<1>4. CASE t.cmd.op = "login" /\ Identifies(t, Then(db', todo')) /\ t.fd = fd
  BY <1>0, <1>1, <1>4, LoginForeseenHere DEF s
<1>5. CASE t.cmd.op = "login" /\ Identifies(t, Then(db', todo')) /\ t.fd # fd
  BY <1>0, <1>1, <1>5, LoginForeseenElsewhere DEF s
<1> QED
  BY <1>2, <1>3, <1>4, <1>5

LEMMA ObeyForeseenFor ==
  ASSUME Typed, Obey, NEW fd \in DOMAIN sessions, fd \in DOMAIN sessions',
         NEW F, Prospect(Ahead, Len(Ahead), tasks, db, View(sessions[fd]), fd, F)
  PROVE  \E G : Prospect(Ahead', Len(Ahead'), tasks, db, View(sessions'[fd]), fd, G)
<1> DEFINE n == Len(Ahead)
           c == Ahead
           z == Ahead'
           s == View(sessions[fd])
           s2 == View(sessions'[fd])
           G == [i \in Nat |-> F[i + 1]]
<1>1. /\ n \in Nat \ {0} /\ DOMAIN c = 1..n
      /\ DOMAIN z = 1..(n - 1) /\ Len(z) = n - 1
      /\ \A i \in 1..(n - 1) : z[i] = c[i + 1]
  BY ObeyTakes, AheadFacts DEF Taken
<1>2. Moved(c[1], fd, s) = s2
  <2>1. sessions'[fd] = Obeyed(c[1], fd, sessions[fd])
    BY ObeysFirst DEF SessionsAfter
  <2>2. sessions[fd] \in SessionStates
    BY DEF Typed, TypeOK
  <2> QED
    BY <2>1, <2>2, MovedIsObeyed
<1>3. /\ Foretold(c, s, fd, F) /\ Settled(c, n, fd, F) /\ AskedAs(tasks, fd, F[n])
      /\ Belongs(db, F[n]) /\ HeardByMembers(c, F)
  BY DEF Prospect
<1>4. \A i \in Nat : G[i] = F[i + 1]
  OBVIOUS
<1> HIDE DEF n, c, z, s, s2, G
<1>5. G[n - 1] = F[n]
  <2>1. n - 1 \in Nat /\ (n - 1) + 1 = n
    BY <1>1
  <2> QED
    BY <1>4, <2>1
<1>6. ASSUME NEW i \in 1..(n - 1)
      PROVE  i + 1 \in 1..n /\ G[i] = F[i + 1] /\ G[i - 1] = F[(i + 1) - 1] /\ z[i] = c[i + 1]
  <2>1. /\ i + 1 \in 1..n /\ i \in Nat /\ i - 1 \in Nat
        /\ (i + 1) - 1 = i /\ (i - 1) + 1 = i
    BY <1>1
  <2> QED
    BY <1>1, <1>4, <2>1
<1>7. Foretold(z, s2, fd, G)
  <2>1. G[0] = s2
    <3>1. 1 \in 1..n /\ 0 \in Nat /\ 0 + 1 = 1 /\ 1 - 1 = 0
      BY <1>1
    <3>2. F[1] = Moved(c[1], fd, F[0]) /\ F[0] = s
      BY <1>1, <1>3, <3>1 DEF Foretold
    <3> QED
      BY <1>2, <1>4, <3>1, <3>2
  <2>2. \A i \in 1..(n - 1) : G[i] = Moved(z[i], fd, G[i - 1])
    BY <1>1, <1>3, <1>6 DEF Foretold
  <2> QED
    BY <1>1, <2>1, <2>2 DEF Foretold
<1>8. Settled(z, n - 1, fd, G)
  <2> SUFFICES ASSUME NEW i \in 0..(n - 1), G[i].user_id # F[n].user_id
               PROVE  \E k \in 1..(n - 1) : k > i /\ LoginReply(z[k], fd)
    BY <1>1, <1>5 DEF Settled
  <2>1. i \in Nat /\ i + 1 \in 0..n
    BY <1>1
  <2>2. PICK k \in 1..n : k > i + 1 /\ LoginReply(c[k], fd)
    BY <1>1, <1>3, <1>4, <2>1 DEF Settled
  <2>3. k - 1 \in 1..(n - 1) /\ k - 1 > i /\ (k - 1) + 1 = k
    BY <1>1, <2>1, <2>2
  <2>4. z[k - 1] = c[k]
    BY <1>1, <2>3
  <2> QED
    BY <2>2, <2>3, <2>4
<1>9. HeardByMembers(z, G)
  <2> SUFFICES ASSUME NEW i \in 1..(n - 1), z[i].op = "room_broadcast",
                      z[i].room_id \in G[i - 1].rooms
               PROVE  G[i - 1].user_id \in z[i].text.members
    BY <1>1 DEF HeardByMembers
  <2>1. i + 1 \in DOMAIN c /\ G[i - 1] = F[(i + 1) - 1] /\ z[i] = c[i + 1]
    BY <1>1, <1>6
  <2> QED
    BY <1>3, <2>1 DEF HeardByMembers
<1>10. Prospect(z, n - 1, tasks, db, s2, fd, G)
  BY <1>3, <1>5, <1>7, <1>8, <1>9 DEF Prospect
<1> QED
  BY <1>1, <1>10 DEF z, s2

\* A connection that was just registered.
LEMMA NewSessionForeseen ==
  ASSUME Typed, Typed', Obey, Fresh,
         NEW fd \in DOMAIN sessions' \cap calm, fd \notin DOMAIN sessions
  PROVE  \E G : Prospect(Ahead', Len(Ahead'), tasks, db, View(sessions'[fd]), fd, G)
<1> DEFINE z == Ahead'
           w == [user_id |-> Empty, rooms |-> {}]
           G == [i \in Nat |-> w]
<1>1. /\ Ahead[1].op = "register" /\ Ahead[1].fd = fd /\ 1 \in DOMAIN Ahead
      /\ View(sessions'[fd]) = w
  <2>1. Ahead[1].op = "register" /\ Ahead[1].fd = fd /\ 1 \in DOMAIN Ahead
        /\ sessions'[fd] = NewSession
    BY ObeysFirst DEF SessionsAfter
  <2> QED
    BY <2>1 DEF NewSession, View
<1>2. fd \in Fds
  BY DEF Typed, TypeOK
<1>3. /\ Len(z) \in Nat /\ DOMAIN z = 1..Len(z)
      /\ \A i \in DOMAIN z : i + 1 \in DOMAIN Ahead /\ z[i] = Ahead[i + 1]
  <2>1. /\ Len(Ahead) \in Nat \ {0} /\ Len(z) = Len(Ahead) - 1 /\ DOMAIN z = 1..(Len(Ahead) - 1)
        /\ \A i \in DOMAIN z : i + 1 \in DOMAIN Ahead /\ z[i] = Ahead[i + 1]
    BY ObeyTakes DEF Taken
  <2> QED
    BY <2>1
<1>4. \A i \in DOMAIN z : Moved(z[i], fd, w) = w
  <2> SUFFICES ASSUME NEW i \in DOMAIN z PROVE Moved(z[i], fd, w) = w
    OBVIOUS
  <2>1. z[i] \in Commands
    BY <1>3, AheadFacts
  <2>2. z[i].op \in {"set_user_id", "set_joined_rooms"} => z[i].fd # fd
    BY <1>1, <1>2, <1>3 DEF Fresh
  <2>3. z[i].op = "set_joined_rooms_for_user" => z[i].user_id # Empty
    BY <2>1, CommandFields, NamesAssumption
  <2>4. w.user_id = Empty
    OBVIOUS
  <2> HIDE DEF z, w
  <2> QED
    BY <2>2, <2>3, <2>4 DEF Moved, Identity, Refreshing
<1>5. \A i \in Nat : G[i] = w
  OBVIOUS
<1>6. w.rooms = {} /\ w.user_id = Empty
  OBVIOUS
<1> HIDE DEF z, w, G
<1>7. Foretold(z, w, fd, G)
  <2>1. 0 \in Nat /\ \A i \in DOMAIN z : i \in Nat /\ i - 1 \in Nat
    BY <1>3
  <2> QED
    BY <1>4, <1>5, <2>1 DEF Foretold
<1>8. Settled(z, Len(z), fd, G)
  <2>1. \A i \in 0..Len(z) : G[i] = w
    BY <1>3, <1>5
  <2>2. Len(z) \in 0..Len(z)
    BY <1>3
  <2> QED
    BY <2>1, <2>2 DEF Settled
<1>9. \A j \in DOMAIN tasks : tasks[j].fd # fd
  BY <1>1 DEF Fresh
<1>10. Belongs(db, w)
  <2>1. \A r : ~Db!Member(db, r, Empty)
    BY JoinedRoomsFacts, NamesAssumption DEF Typed
  <2> QED
    BY <1>6, <2>1 DEF Belongs, ListedRightly
<1>11. HeardByMembers(z, G)
  <2>1. \A i \in DOMAIN z : G[i - 1].rooms = {}
    <3>1. \A i \in DOMAIN z : i - 1 \in Nat
      BY <1>3
    <3> QED
      BY <1>5, <1>6, <3>1
  <2> QED
    BY <2>1 DEF HeardByMembers
<1>12. Prospect(z, Len(z), tasks, db, w, fd, G)
  BY <1>3, <1>5, <1>7, <1>8, <1>9, <1>10, <1>11 DEF Prospect, AskedAs
<1> QED
  BY <1>1, <1>12 DEF z

LEMMA ObeyForeseen ==
  ASSUME Typed, Typed', Obey, Fresh, Foreseen
  PROVE  Foreseen'
<1> SUFFICES ASSUME NEW fd \in DOMAIN sessions' \cap calm
             PROVE  \E G : Prospect(Ahead', Len(Ahead'), tasks, db, View(sessions'[fd]), fd, G)
  BY DEF Foreseen, Obey
<1>1. CASE fd \in DOMAIN sessions
  BY <1>1, ObeyForeseenFor DEF Foreseen
<1>2. CASE fd \notin DOMAIN sessions
  BY <1>2, NewSessionForeseen
<1> QED
  BY <1>1, <1>2

LEMMA ReadListed ==
  ASSUME Typed, NumberedAnew, Listed,
         NEW fd \in Fds, NEW cmd \in Script \cap ClientCommands, ReadCommand(fd, cmd)
  PROVE  Listed'
<1> DEFINE t == Task(cmd, fd, sessions[fd].user_id, conn[fd], reads + 1)
<1>1. /\ tasks' = Append(tasks, t) /\ t.fd = fd /\ t.user_id = sessions[fd].user_id
      /\ fd \in DOMAIN sessions /\ failing' = failing
      /\ Ahead' = Ahead /\ db' = db /\ sessions' = sessions
      /\ calm' \subseteq calm /\ (fd \in calm' => ~AwaitsLogin(fd))
  BY DEF ReadCommand, Enqueue, Ahead, Open, Task
<1>2. /\ Len(tasks) \in Nat /\ DOMAIN tasks = 1..Len(tasks)
      /\ DOMAIN tasks' = 1..(Len(tasks) + 1) /\ tasks'[Len(tasks) + 1] = t
      /\ \A j \in DOMAIN tasks : tasks'[j] = tasks[j]
  <2>1. tasks \in Seq(Tasks) /\ t \in Tasks
    BY NewTask DEF ReadCommand, Typed, TypeOK
  <2> HIDE DEF t
  <2> QED
    BY <1>1, <2>1, AppendProperties, LenProperties
<1> HIDE DEF t
<1>3. \A j \in DOMAIN tasks' : j = Len(tasks) + 1 \/ j \in DOMAIN tasks
  BY <1>2
<1>4. fd \in calm' =>
        /\ \A j \in DOMAIN tasks : tasks[j].fd = fd => tasks[j].cmd.op # "login"
        /\ \A k \in DOMAIN Ahead : ~LoginReply(Ahead[k], fd)
  BY <1>1 DEF AwaitsLogin, LoginReply, Ahead
<1>5. LoginsLast'
  <2> SUFFICES ASSUME NEW i \in DOMAIN tasks', NEW j \in DOMAIN tasks', i < j,
                      tasks'[i].fd = tasks'[j].fd, tasks'[i].fd \in calm'
               PROVE  tasks'[i].cmd.op # "login"
    BY DEF LoginsLast
  <2>1. i \in DOMAIN tasks /\ tasks'[i] = tasks[i]
    BY <1>2
  <2>2. CASE j \in DOMAIN tasks
    BY <1>1, <1>2, <2>1, <2>2 DEF Listed, LoginsLast
  <2>3. CASE j = Len(tasks) + 1
    BY <1>1, <1>2, <1>4, <2>1, <2>3
  <2> QED
    BY <1>3, <2>2, <2>3
<1>6. ASSUME NEW f \in DOMAIN sessions \cap calm'
      PROVE  \E F : Prospect(Ahead, Len(Ahead), tasks', db, View(sessions[f]), f, F)
  <2> DEFINE n == Len(Ahead)
  <2>1. PICK F : Prospect(Ahead, n, tasks, db, View(sessions[f]), f, F)
    BY <1>1, <1>6 DEF Listed, Foreseen
  <2>2. n \in Nat
    BY AheadFacts
  <2> HIDE DEF n
  <2>3. f = fd => F[n].user_id = sessions[fd].user_id
    <3> SUFFICES ASSUME f = fd PROVE F[n].user_id = sessions[fd].user_id
      OBVIOUS
    <3>1. F[0] = View(sessions[fd])
      BY <2>1 DEF Prospect, Foretold
    <3>2. 0 \in 0..n
      BY <2>2
    <3>3. F[0].user_id = F[n].user_id
      BY <1>4, <2>1, <3>2 DEF Prospect, Settled
    <3> QED
      BY <3>1, <3>3 DEF View
  <2>4. AskedAs(tasks', f, F[n])
    <3> SUFFICES ASSUME NEW j \in DOMAIN tasks', tasks'[j].fd = f
                 PROVE  tasks'[j].user_id = F[n].user_id
      BY DEF AskedAs
    <3>1. CASE j \in DOMAIN tasks
      BY <1>2, <2>1, <3>1 DEF Prospect, AskedAs
    <3>2. CASE j = Len(tasks) + 1
      BY <1>1, <1>2, <2>3, <3>2
    <3> QED
      BY <1>3, <3>1, <3>2
  <2>5. Prospect(Ahead, n, tasks', db, View(sessions[f]), f, F)
    BY <2>1, <2>4 DEF Prospect
  <2> QED
    BY <2>5 DEF n
<1>7. Fresh'
  <2> SUFFICES ASSUME NEW f \in calm', NEW i \in DOMAIN Ahead,
                      Ahead[i].op = "register", Ahead[i].fd = f
               PROVE  /\ \A j \in DOMAIN tasks' : tasks'[j].fd # f
                      /\ \A k \in DOMAIN Ahead :
                           Ahead[k].op \in {"set_user_id", "set_joined_rooms"}
                             => Ahead[k].fd # f
    BY <1>1 DEF Fresh
  <2>1. f # fd
    BY <1>1 DEF NumberedAnew
  <2> QED
    BY <1>1, <1>2, <1>3, <2>1 DEF Listed, Fresh
<1> QED
  BY <1>1, <1>5, <1>6, <1>7 DEF Listed, Spared, Foreseen

\* What a task pushes about a session is about the one that asked.
LEMMA PushedFds ==
  ASSUME Typed, ExecuteTask, ~failing, NEW i \in DOMAIN todo',
         todo'[i].op \in {"set_user_id", "set_joined_rooms"}
  PROVE  todo'[i].fd = Head(tasks).fd
<1> DEFINE t == Head(tasks)
           p == todo'
<1>1. \/ Serves(t, Then(db', p))
      \/ Identifies(t, Then(db', p))
  <2>1. Supplied
    BY Supply DEF ExecuteTask, ExecuteNext, Execute
  <2> QED
    BY <2>1, TaskServes DEF ExecuteTask, Typed, TypeOK
<1>2. i \in DOMAIN p /\ p[i].op \in {"set_user_id", "set_joined_rooms"} /\ Tables(db)
  BY DEF Typed
<1> HIDE DEF t, p
<1>3. CASE Serves(t, Then(db', p))
  <2>1. Fitting(t, db', p[i])
    BY <1>2, <1>3 DEF Serves, AllFitting, Then
  <2> QED
    BY <1>2, <2>1 DEF Fitting, t, p
<1>4. CASE Identifies(t, Then(db', p))
  <2>1. PICK u : DOMAIN p = 1..4 /\ Entering(p, t, u)
    BY <1>2, <1>4, LoginEnters
  <2>2. i = 1 \/ i = 2 \/ i = 3 \/ i = 4
    <3>1. i \in 1..4
      BY <1>2, <2>1
    <3> QED
      BY <3>1
  <2>3. /\ p[1].fd = t.fd /\ p[2].fd = t.fd
        /\ p[3].op = "change_nickname" /\ p[4].op = "send_one"
    BY <2>1 DEF Entering, SetsIdentity, GivesRooms, Renames
  <2>4. p[i].fd = t.fd
    BY <1>2, <2>2, <2>3
  <2> QED
    BY <2>4 DEF t, p
<1> QED
  BY <1>1, <1>3, <1>4

LEMMA SlipFresh ==
  ASSUME Typed, Fresh, NEW cmd, Slipped(cmd), Calmed(cmd), tasks' = tasks,
         cmd.op \notin {"set_user_id", "set_joined_rooms"}
  PROVE  Fresh'
<1> DEFINE p == Len(queue) + 1
<1>1. /\ Ahead'[p] = cmd
      /\ \A i \in DOMAIN Ahead' : i # p => Was(i) \in DOMAIN Ahead /\ Ahead'[i] = Ahead[Was(i)]
  BY SlippedParts
<1> HIDE DEF p
<1> SUFFICES ASSUME NEW fd \in calm',
                    NEW i \in DOMAIN Ahead', Ahead'[i].op = "register", Ahead'[i].fd = fd
             PROVE  /\ \A j \in DOMAIN tasks : tasks[j].fd # fd
                    /\ \A k \in DOMAIN Ahead' :
                         Ahead'[k].op \in {"set_user_id", "set_joined_rooms"}
                           => Ahead'[k].fd # fd
  BY DEF Fresh
<1>2. CASE fd \in calm /\ ~(cmd.op = "register" /\ cmd.fd = fd)
  <2>1. Was(i) \in DOMAIN Ahead /\ Ahead[Was(i)].op = "register" /\ Ahead[Was(i)].fd = fd
    BY <1>1, <1>2
  <2>2. /\ \A j \in DOMAIN tasks : tasks[j].fd # fd
        /\ \A k \in DOMAIN Ahead :
             Ahead[k].op \in {"set_user_id", "set_joined_rooms"} => Ahead[k].fd # fd
    BY <1>2, <2>1 DEF Fresh
  <2> QED
    BY <1>1, <2>2
<1>3. CASE ~UnderWay(fd)
  <2>1. /\ \A j \in DOMAIN tasks : tasks[j].fd # fd
        /\ \A k \in DOMAIN Ahead :
             Ahead[k].op \in {"set_user_id", "set_joined_rooms"} => Ahead[k].fd # fd
    BY <1>3 DEF UnderWay, Ahead
  <2> QED
    BY <1>1, <2>1
<1> QED
  BY <1>2, <1>3 DEF Calmed

LEMMA ExecuteFresh ==
  ASSUME Typed, Typed', ExecuteTask, Spared, Fresh
  PROVE  Fresh'
<1> DEFINE n == Len(Ahead)
<1>1. /\ calm' = calm /\ Head(tasks) = tasks[1] /\ 1 \in DOMAIN tasks
      /\ \A j \in DOMAIN tasks' : j + 1 \in DOMAIN tasks /\ tasks'[j] = tasks[j + 1]
  BY TaskTaken DEF ExecuteTask
<1>2. /\ \A j \in DOMAIN Ahead : j \in DOMAIN Ahead' /\ Ahead'[j] = Ahead[j]
      /\ \A j \in DOMAIN Ahead' \ DOMAIN Ahead :
           /\ Ahead'[j].op # "register"
           /\ ~failing /\ Ahead'[j].op \in {"set_user_id", "set_joined_rooms"}
                => Ahead'[j].fd = tasks[1].fd
  <2>1. todo' \in Seq(WorkerCommands)
    BY DEF Typed, TypeOK
  <2>2. DOMAIN todo' = 1..Len(todo') /\ Len(todo') \in Nat
    BY <2>1, LenProperties
  <2>3. /\ DOMAIN Ahead \subseteq DOMAIN Ahead'
        /\ \A j \in DOMAIN Ahead : Ahead'[j] = Ahead[j]
        /\ \A j \in DOMAIN Ahead' \ DOMAIN Ahead :
             j - n \in DOMAIN todo' /\ Ahead'[j] = todo'[j - n]
    BY <2>2, ExecuteGrows, GrownParts
  <2>4. \A k \in DOMAIN todo' : todo'[k].op # "register"
    <3>1. \A cmd \in WorkerCommands : cmd.op # "register"
      BY DEF WorkerCommands
    <3> QED
      BY <2>1, <3>1
  <2>5. \A k \in DOMAIN todo' :
          ~failing /\ todo'[k].op \in {"set_user_id", "set_joined_rooms"}
            => todo'[k].fd = tasks[1].fd
    BY <1>1, PushedFds
  <2> QED
    BY <2>3, <2>4, <2>5
<1> SUFFICES ASSUME NEW fd \in calm,
                    NEW i \in DOMAIN Ahead', Ahead'[i].op = "register", Ahead'[i].fd = fd
             PROVE  /\ \A j \in DOMAIN tasks' : tasks'[j].fd # fd
                    /\ \A k \in DOMAIN Ahead' :
                         Ahead'[k].op \in {"set_user_id", "set_joined_rooms"}
                           => Ahead'[k].fd # fd
  BY <1>1 DEF Fresh
<1>3. i \in DOMAIN Ahead /\ Ahead[i].op = "register" /\ Ahead[i].fd = fd /\ ~failing
  BY <1>2 DEF Spared
<1>4. /\ \A j \in DOMAIN tasks : tasks[j].fd # fd
      /\ \A k \in DOMAIN Ahead :
           Ahead[k].op \in {"set_user_id", "set_joined_rooms"} => Ahead[k].fd # fd
  BY <1>3 DEF Fresh
<1> QED
  BY <1>1, <1>2, <1>3, <1>4

LEMMA InitListed == Init => Listed
<1> SUFFICES ASSUME Init PROVE Listed
  OBVIOUS
<1>1. Typed
  BY InitTyped
<1>2. DOMAIN Ahead = {} /\ DOMAIN tasks = {} /\ Len(Ahead) = 0
  <2>1. Len(queue) = 0 /\ Len(todo) = 0 /\ tasks = <<>>
    BY DEF Init
  <2> QED
    BY <1>1, <2>1, AheadFacts
<1>3. ASSUME NEW fd \in DOMAIN sessions \cap calm
      PROVE  \E F : Prospect(Ahead, Len(Ahead), tasks, db, View(sessions[fd]), fd, F)
  <2> DEFINE s == View(sessions[fd])
             F == [i \in {0} |-> s]
  <2>1. Belongs(db, s)
    <3>1. PICK start \in Starts : db = start.db /\ sessions = start.sessions
      BY DEF Init
    <3>2. Quiet(start)
      BY StartsAssumption
    <3>3. /\ ListedRightly(db, sessions[fd])
          /\ sessions[fd].rooms \subseteq 1..(db.next_room - 1)
      BY <1>3, <3>1, <3>2 DEF Quiet
    <3> QED
      BY <3>3 DEF Belongs, ListedRightly, View
  <2>2. F[0] = s
    OBVIOUS
  <2> HIDE DEF F, s
  <2>3. \A i \in 0..0 : i = 0
    OBVIOUS
  <2>4. Prospect(Ahead, Len(Ahead), tasks, db, s, fd, F)
    BY <1>2, <2>1, <2>2, <2>3 DEF Prospect, Foretold, Settled, AskedAs, HeardByMembers
  <2> QED
    BY <2>4 DEF s
<1> QED
  BY <1>2, <1>3 DEF Init, Listed, Spared, Fresh, LoginsLast, Foreseen

LEMMA ExecuteListed ==
  ASSUME Typed, Typed', ExecuteTask, Listed
  PROVE  Listed'
<1>0. Spared' /\ calm' = calm
  BY DEF ExecuteTask, Listed, Spared
<1>1. Fresh' /\ Foreseen'
  BY ExecuteFresh, ExecuteForeseen DEF Listed
<1>2. /\ DOMAIN tasks' \subseteq Int
      /\ \A j \in DOMAIN tasks' : j + 1 \in DOMAIN tasks /\ tasks'[j] = tasks[j + 1]
  <2>1. tasks' \in Seq(Tasks)
    BY DEF Typed, TypeOK
  <2>2. DOMAIN tasks' = 1..Len(tasks') /\ Len(tasks') \in Nat
    BY <2>1, LenProperties
  <2>3. DOMAIN tasks' \subseteq Int
    BY <2>2
  <2> QED
    BY <2>3, ExecuteParts
<1>3. LoginsLast'
  <2> SUFFICES ASSUME NEW i \in DOMAIN tasks', NEW j \in DOMAIN tasks', i < j,
                      tasks'[i].fd = tasks'[j].fd, tasks'[i].fd \in calm
               PROVE  tasks'[i].cmd.op # "login"
    BY <1>0 DEF LoginsLast
  <2>1. i + 1 < j + 1
    BY <1>2
  <2> QED
    BY <1>2, <2>1 DEF Listed, LoginsLast
<1> QED
  BY <1>0, <1>1, <1>3 DEF Listed

LEMMA ObeyListed ==
  ASSUME Typed, Typed', Obey, Listed
  PROVE  Listed'
<1>1. Foreseen'
  BY ObeyForeseen DEF Listed
<1>2. \A i \in DOMAIN Ahead' : i + 1 \in DOMAIN Ahead /\ Ahead'[i] = Ahead[i + 1]
  BY ObeyTakes DEF Taken
<1>3. tasks' = tasks /\ calm' = calm /\ failing' = failing
  BY DEF Obey
<1>4. Fresh'
  <2> SUFFICES ASSUME NEW fd \in calm,
                      NEW i \in DOMAIN Ahead', Ahead'[i].op = "register", Ahead'[i].fd = fd
               PROVE  /\ \A j \in DOMAIN tasks : tasks[j].fd # fd
                      /\ \A k \in DOMAIN Ahead' :
                           Ahead'[k].op \in {"set_user_id", "set_joined_rooms"}
                             => Ahead'[k].fd # fd
    BY <1>3 DEF Fresh
  <2>1. /\ \A j \in DOMAIN tasks : tasks[j].fd # fd
        /\ \A k \in DOMAIN Ahead :
             Ahead[k].op \in {"set_user_id", "set_joined_rooms"} => Ahead[k].fd # fd
    BY <1>2 DEF Listed, Fresh
  <2> QED
    BY <1>2, <2>1
<1> QED
  BY <1>1, <1>3, <1>4 DEF Listed, Spared, LoginsLast

\* A command slips in that has nothing to do with users or rooms.
LEMMA SlipListed ==
  ASSUME Typed, Listed, NEW cmd, Slipped(cmd),
         cmd.op \notin {"set_user_id", "set_joined_rooms", "set_joined_rooms_for_user",
                        "room_broadcast"},
         Calmed(cmd), Spared', sessions' = sessions, tasks' = tasks, db' = db
  PROVE  Listed'
<1>1. cmd.op \notin {"set_user_id", "set_joined_rooms"}
  OBVIOUS
<1>2. Fresh'
  BY <1>1, SlipFresh DEF Listed
<1>3. Foreseen'
  BY SlipForeseen DEF Listed
<1>4. LoginsLast'
  <2>1. \A f \in calm' : f \in calm \/ \A j \in DOMAIN tasks : tasks[j].fd # f
    BY DEF Calmed, UnderWay
  <2> QED
    BY <2>1 DEF Listed, LoginsLast
<1> QED
  BY <1>2, <1>3, <1>4 DEF Listed

LEMMA NextListed ==
  ASSUME Typed, Typed', NumberedAnew, Listed, [Next]_vars
  PROVE  Listed'
<1>1. ASSUME NEW fd \in Fds, Connect(fd) PROVE Listed'
  <2> DEFINE cmd == [op |-> "register", fd |-> fd]
  <2>1. Slipped(cmd)
    BY <1>1, PushSlips DEF Connect
  <2>2. cmd.op = "register" /\ cmd.fd = fd
    OBVIOUS
  <2> HIDE DEF cmd
  <2>3. /\ sessions' = sessions /\ tasks' = tasks /\ db' = db /\ failing' = failing
        /\ calm' = IF failing \/ UnderWay(fd) THEN calm \ {fd} ELSE calm \cup {fd}
        /\ fd \notin DOMAIN sessions
    BY <1>1 DEF Connect
  <2>4. Calmed(cmd)
    BY <2>2, <2>3 DEF Calmed
  <2>5. Spared'
    BY <2>3 DEF Listed, Spared
  <2>6. cmd.op \notin {"set_user_id", "set_joined_rooms", "set_joined_rooms_for_user",
                       "room_broadcast"}
    BY <2>2
  <2> QED
    BY <2>1, <2>3, <2>4, <2>5, <2>6, SlipListed
<1>2. ASSUME NEW fd \in Fds, Hangup(fd) PROVE Listed'
  <2> DEFINE cmd == [op |-> "unregister", fd |-> fd]
  <2>1. Slipped(cmd)
    BY <1>2, PushSlips DEF Hangup
  <2>2. cmd.op = "unregister"
    OBVIOUS
  <2> HIDE DEF cmd
  <2>3. /\ sessions' = sessions /\ tasks' = tasks /\ db' = db
        /\ calm' = calm /\ failing' = failing
    BY <1>2 DEF Hangup
  <2>4. /\ cmd.op \notin {"set_user_id", "set_joined_rooms", "set_joined_rooms_for_user",
                          "room_broadcast"}
        /\ Calmed(cmd)
    BY <2>2, <2>3 DEF Calmed
  <2>5. Spared'
    BY <2>3 DEF Listed, Spared
  <2> QED
    BY <2>1, <2>3, <2>4, <2>5, SlipListed
<1>3. ASSUME NEW fd \in Fds, NEW cmd \in Script \cap ClientCommands, ReadCommand(fd, cmd)
      PROVE  Listed'
  BY <1>3, ReadListed
<1>4. ASSUME NEW fd \in Fds, Echo(fd) PROVE Listed'
  <2> DEFINE t == Task([op |-> "response"], fd, sessions[fd].user_id, conn[fd], reads + 1)
             cmd == Reply(t, "echo")
  <2>1. /\ Push(cmd) /\ todo' = todo /\ tasks' = tasks
        /\ sessions' = sessions /\ db' = db
        /\ calm' = calm /\ failing' = failing
    BY <1>4 DEF Echo
  <2>2. Slipped(cmd)
    BY <2>1, PushSlips
  <2> HIDE DEF t
  <2>3. cmd.op = "send_one"
    BY DEF Reply
  <2> HIDE DEF cmd
  <2>4. /\ cmd.op \notin {"set_user_id", "set_joined_rooms", "set_joined_rooms_for_user",
                          "room_broadcast"}
        /\ Calmed(cmd)
    BY <2>1, <2>3 DEF Calmed
  <2>5. Spared'
    BY <2>1 DEF Listed, Spared
  <2> QED
    BY <2>1, <2>2, <2>4, <2>5, SlipListed
<1>5. CASE ExecuteTask
  BY <1>5, ExecuteListed
<1>6. CASE PushNext
  <2>1. Ahead' = Ahead
    BY <1>6, PushNextSlides
  <2>2. /\ tasks' = tasks /\ sessions' = sessions /\ db' = db
        /\ calm' = calm /\ failing' = failing
    BY <1>6 DEF PushNext
  <2> QED
    BY <2>1, <2>2 DEF Listed, Spared, Fresh, LoginsLast, Foreseen
<1>7. CASE Obey
  BY <1>7, ObeyListed
<1>8. CASE DatabaseFails
  <2>1. calm' = {}
    BY <1>8 DEF DatabaseFails
  <2> QED
    BY <2>1 DEF Listed, Spared, Fresh, LoginsLast, Foreseen
<1>9. CASE DatabaseRecovers \/ UNCHANGED vars
  <2>1. /\ Ahead' = Ahead /\ tasks' = tasks /\ sessions' = sessions /\ db' = db
        /\ calm' = calm /\ (failing' => failing)
    BY <1>9 DEF DatabaseRecovers, vars, Ahead
  <2> QED
    BY <2>1 DEF Listed, Spared, Fresh, LoginsLast, Foreseen
<1> QED
  BY <1>1, <1>2, <1>3, <1>4, <1>5, <1>6, <1>7, <1>8, <1>9 DEF Next

LEMMA ObeyTellsMembers ==
  ASSUME Typed, Listed, Obey
  PROVE  RoomMessagesStayInRoom'
<1> SUFFICES ASSUME NEW fd \in DOMAIN delivered' \cap calm, delivered'[fd].kind = "room"
             PROVE  sessions'[fd].user_id \in delivered'[fd].text.members
  BY DEF RoomMessagesStayInRoom, Obey
<1> DEFINE cmd == Ahead[1]
<1>1. SessionsAfter(cmd) /\ HeardOf(cmd) /\ 1 \in DOMAIN Ahead
  BY ObeysFirst
<1> HIDE DEF cmd
<1>2. /\ fd \in DOMAIN sessions /\ fd \in DOMAIN sessions'
      /\ cmd.op = "room_broadcast" /\ cmd.room_id \in sessions[fd].rooms
      /\ delivered'[fd].text = cmd.text
  <2>1. \A text : Response(text).kind # "room"
    BY DEF Response
  <2> QED
    BY <1>1, <2>1 DEF HeardOf
<1>3. PICK F : Prospect(Ahead, Len(Ahead), tasks, db, View(sessions[fd]), fd, F)
  BY <1>2 DEF Listed, Foreseen
<1>4. F[1 - 1].user_id = sessions[fd].user_id /\ F[1 - 1].rooms = sessions[fd].rooms
  <2>1. F[0] = View(sessions[fd]) /\ 1 - 1 = 0
    BY <1>3 DEF Prospect, Foretold
  <2> QED
    BY <2>1 DEF View
<1>5. F[1 - 1].user_id \in cmd.text.members
  BY <1>1, <1>2, <1>3, <1>4 DEF Prospect, HeardByMembers, cmd
<1>6. sessions'[fd] = sessions[fd]
  BY <1>1, <1>2 DEF SessionsAfter, Obeyed
<1> QED
  BY <1>2, <1>4, <1>5, <1>6

LEMMA NothingHeard ==
  ASSUME RoomMessagesStayInRoom, [Next]_vars, ~Obey
  PROVE  RoomMessagesStayInRoom'
<1>1. CASE delivered' = Nothing
  <2>1. DOMAIN delivered' = {}
    BY <1>1 DEF Nothing
  <2> QED
    BY <2>1 DEF RoomMessagesStayInRoom
<1>2. CASE UNCHANGED vars
  BY <1>2 DEF vars, RoomMessagesStayInRoom
<1> QED
  BY <1>1, <1>2 DEF Next, Connect, Hangup, ReadCommand, Echo, ExecuteTask, PushNext,
                       DatabaseFails, DatabaseRecovers

LEMMA ListedHear ==
  ASSUME Typed, Listed
  PROVE  MembersHear
<1> SUFFICES ASSUME AtRest, NEW fd \in DOMAIN sessions \cap calm, NEW r \in DOMAIN db.rooms,
                    Db!Member(db, r, sessions[fd].user_id),
                    db.rooms[r] # sessions[fd].user_id
             PROVE  r \in sessions[fd].rooms
  BY DEF MembersHear
<1>1. Len(Ahead) = 0
  BY AheadFacts DEF AtRest
<1>2. PICK F : Prospect(Ahead, 0, tasks, db, View(sessions[fd]), fd, F)
  BY <1>1 DEF Listed, Foreseen
<1>3. F[0] = View(sessions[fd]) /\ ListedRightly(db, F[0])
  BY <1>2 DEF Prospect, Foretold, Belongs
<1> QED
  BY <1>3 DEF ListedRightly, View

\* Descriptors are used again, clients send commands behind a login and the
\* database fails; and still a room message is delivered to no session that
\* none of this touched (calm) but to members of the room, as of the moment it
\* was stored (RoomMessagesStayInRoom): what refreshes those sessions was
\* pushed before.
THEOREM RoomMessagesReachMembersOnly == Spec => []RoomMessagesStayInRoom
<1>1. Init => /\ Typed /\ Orderly /\ KnownSessions /\ Listed /\ RoomMessagesStayInRoom
  <2>1. Init => DOMAIN delivered = {}
    BY DEF Init, Nothing
  <2>2. Init => RoomMessagesStayInRoom
    BY <2>1 DEF RoomMessagesStayInRoom
  <2> QED
    BY <2>2, InitTyped, InitOrderly, InitKnown, InitListed
<1>2. /\ Typed /\ Orderly /\ KnownSessions /\ Listed /\ RoomMessagesStayInRoom
      /\ [Next]_vars
      => /\ Typed' /\ Orderly' /\ KnownSessions' /\ Listed' /\ RoomMessagesStayInRoom'
  <2> SUFFICES ASSUME Typed, Orderly, KnownSessions, Listed, RoomMessagesStayInRoom,
                      [Next]_vars
               PROVE  /\ Typed' /\ Orderly' /\ KnownSessions' /\ Listed'
                      /\ RoomMessagesStayInRoom'
    OBVIOUS
  <2>1. Typed' /\ Orderly'
    BY NextTyped, NextOrderly
  <2>2. KnownSessions'
    BY <2>1, NextKnown
  <2>3. Listed'
    BY <2>1, NextListed DEF KnownSessions
  <2>4. RoomMessagesStayInRoom'
    BY ObeyTellsMembers, NothingHeard
  <2> QED
    BY <2>1, <2>2, <2>3, <2>4
<1> QED
  BY <1>1, <1>2, PTL DEF Spec

\* Whatever sessions joined, left or logged in, and whatever happened to other
\* sessions, whenever nothing is under way every calm session of a member who
\* is not the owner is listed under the room (MembersHear).
THEOREM MembersWillHear == Spec => []MembersHear
<1>1. Init => Typed /\ Orderly /\ KnownSessions /\ Listed
  BY InitTyped, InitOrderly, InitKnown, InitListed
<1>2. Typed /\ Orderly /\ KnownSessions /\ Listed /\ [Next]_vars
        => Typed' /\ Orderly' /\ KnownSessions' /\ Listed'
  <2> SUFFICES ASSUME Typed, Orderly, KnownSessions, Listed, [Next]_vars
               PROVE  Typed' /\ Orderly' /\ KnownSessions' /\ Listed'
    OBVIOUS
  <2>1. Typed' /\ Orderly'
    BY NextTyped, NextOrderly
  <2>2. KnownSessions'
    BY <2>1, NextKnown
  <2>3. Listed'
    BY <2>1, NextListed DEF KnownSessions
  <2> QED
    BY <2>1, <2>2, <2>3
<1>3. Typed /\ Listed => MembersHear
  BY ListedHear
<1> QED
  BY <1>1, <1>2, <1>3, PTL DEF Spec

=============================================================================
