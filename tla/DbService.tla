----------------------------- MODULE DbService -----------------------------
(***************************************************************************)
(* db_service (src/database/db_service.cpp) over the schema of             *)
(* scripts/migrate_db_schema.sh.                                           *)
(*                                                                         *)
(* Every operation takes the mutex of the service and runs one transaction *)
(* on the one connection, so an operation is one step.  It is written as   *)
(* the set of its outcomes: [db |-> the tables afterwards, answer, value]. *)
(* Besides the outcome of a commit the caller may see an error for which   *)
(* nothing happened, and an error although the transaction was committed:  *)
(* commit() throws pqxx::in_doubt_error when the connection breaks before  *)
(* the server's confirmation arrives, and map_exception() turns every      *)
(* exception into an error_code.                                           *)
(*                                                                         *)
(* Roles, names, bodies and time stamps are left out: no operation reads   *)
(* them to decide anything.  Users are never deleted by any operation.     *)
(***************************************************************************)
EXTENDS Integers, FiniteSets

CONSTANTS
  Users,        \* ids that may sign up
  Passwords,
  Nicks,
  Guest,        \* the nickname of a new user
  MaxRooms,     \* bound on the rooms ever created
  MaxMessages   \* bound on the messages ever stored

ASSUME DbAssumption ==
  /\ Guest \in Nicks
  /\ MaxRooms \in Nat
  /\ MaxMessages \in Nat

VARIABLES
  db,          \* the tables
  given_up     \* history: ids of rooms that were deleted

vars == <<db, given_up>>

Error == "error"

Statuses == {"pending", "accepted", "rejected", "canceled"}

\* A friendship is stored as (LEAST, GREATEST): an unordered pair.  next_room
\* and next_message are the sequences of the identity columns, which belong to
\* PostgreSQL: that drawing from one moves it on is taken from there.
NoRows == [k \in {} |-> k]

EmptyTables ==
  [users |-> NoRows, friendships |-> {}, friend_requests |-> NoRows,
   rooms |-> NoRows, room_members |-> {}, messages |-> {},
   next_room |-> 1, next_message |-> 1]

-----------------------------------------------------------------------------
(* Transactions.                                                           *)

Outcome(d, answer, value) == [db |-> d, answer |-> answer, value |-> value]

\* An exception, caught and mapped to an error_code.
Fails(d) == Outcome(d, Error, {})

\* A transaction that takes the tables from d to d2.
Transaction(d, d2, answer, value) ==
  {Outcome(d2, answer, value), Fails(d2), Fails(d)}

\* INSERT or UPDATE of one row in a table with a primary key.
Put(table, key, row) ==
  [k \in DOMAIN table \cup {key} |-> IF k = key THEN row ELSE table[k]]

Friends(d, a, b) == {a, b} \in d.friendships

Member(d, room_id, user_id) == <<room_id, user_id>> \in d.room_members

Status(d, from, to) ==
  IF <<from, to>> \in DOMAIN d.friend_requests
  THEN d.friend_requests[<<from, to>>] ELSE "none"

SetStatus(d, from, to, status) ==
  [d EXCEPT !.friend_requests = Put(@, <<from, to>>, status)]

-----------------------------------------------------------------------------
(* Accounts.                                                               *)

\* value: the nickname
login(d, id, pw) ==
  IF id \in DOMAIN d.users /\ d.users[id].pw = pw
  THEN Transaction(d, d, "found", d.users[id].nickname)
  ELSE Transaction(d, d, "none", {})

signup(d, id, pw) ==
  IF id \in DOMAIN d.users
  THEN Transaction(d, d, "false", {})
  ELSE Transaction(
         d, [d EXCEPT !.users = Put(@, id, [pw |-> pw, nickname |-> Guest])],
         "true", {})

change_nickname(d, id, nickname) ==
  IF id \in DOMAIN d.users
  THEN Transaction(d, [d EXCEPT !.users[id].nickname = nickname], "true", {})
  ELSE Transaction(d, d, "false", {})

-----------------------------------------------------------------------------
(* Friends.                                                                *)

remove_friend(d, user_id, friend_id) ==
  Transaction(d, [d EXCEPT !.friendships = @ \ {{user_id, friend_id}}],
              IF Friends(d, user_id, friend_id) THEN "true" ELSE "false", {})

list_friends(d, user_id) ==
  Transaction(d, d, "list", {f \in Users \ {user_id} : Friends(d, user_id, f)})

\* Fault: the table lacks CHECK (from_user_id <> to_user_id).
request_friend_unchecked(d, from, to) ==
  IF Friends(d, from, to) \/ Status(d, from, to) \in {"pending", "accepted"}
  THEN Transaction(d, d, "false", {})
  ELSE IF ~({from, to} \subseteq DOMAIN d.users)
  THEN {Fails(d)}
  ELSE Transaction(d, SetStatus(d, from, to, "pending"), "true", {})

\* INSERT ... SELECT ... WHERE NOT EXISTS(friendship), upserting a request
\* that was rejected or canceled.  The CHECK against oneself and the foreign
\* keys are only looked at when a row is inserted.
request_friend(d, from, to) ==
  IF Friends(d, from, to) \/ Status(d, from, to) \in {"pending", "accepted"}
  THEN Transaction(d, d, "false", {})
  ELSE IF from = to \/ ~({from, to} \subseteq DOMAIN d.users)
  THEN {Fails(d)}
  ELSE Transaction(d, SetStatus(d, from, to, "pending"), "true", {})

\* UPDATE of the pending request, then INSERT of the friendship, in one
\* transaction.
accept_friend_request(d, from, to) ==
  IF Status(d, from, to) # "pending"
  THEN Transaction(d, d, "false", {})
  ELSE Transaction(
         d, [SetStatus(d, from, to, "accepted")
               EXCEPT !.friendships = @ \cup {{from, to}}],
         "true", {})

\* Fault: the UPDATE does not ask for status = 'pending'.
reject_any_request(d, from, to) ==
  IF Status(d, from, to) = "none"
  THEN Transaction(d, d, "false", {})
  ELSE Transaction(d, SetStatus(d, from, to, "rejected"), "true", {})

reject_friend_request(d, from, to) ==
  IF Status(d, from, to) # "pending"
  THEN Transaction(d, d, "false", {})
  ELSE Transaction(d, SetStatus(d, from, to, "rejected"), "true", {})

list_friend_requests(d, to) ==
  Transaction(d, d, "list", {from \in Users : Status(d, from, to) = "pending"})

-----------------------------------------------------------------------------
(* Rooms.                                                                  *)

\* Fault: the id is counted from the rooms there are.
create_room_counting(d, owner) ==
  IF owner \notin DOMAIN d.users THEN {Fails(d)}
  ELSE LET id == Cardinality(DOMAIN d.rooms) + 1
       IN  Transaction(
             d, [d EXCEPT !.rooms = Put(@, id, owner),
                          !.room_members = @ \cup {<<id, owner>>},
                          !.next_room = @ + 1],
             "created", id)

\* A sequence is not rolled back with the transaction that drew from it.
DrawRoomId(d) == [d EXCEPT !.next_room = @ + 1]
DrawMessageId(d) == [d EXCEPT !.next_message = @ + 1]

\* Two INSERTs: the room and its owner's membership.  value: the room's id
create_room(d, owner) ==
  IF owner \notin DOMAIN d.users THEN {Fails(DrawRoomId(d))}
  ELSE LET id == d.next_room
       IN  {Fails(DrawRoomId(d))} \cup
           Transaction(
             d, [DrawRoomId(d) EXCEPT !.rooms = Put(@, id, owner),
                                      !.room_members = @ \cup {<<id, owner>>}],
             "created", id)

\* Fault: messages.room_id lacks ON DELETE CASCADE.
delete_room_only(d, owner, room_id) ==
  IF room_id \in DOMAIN d.rooms /\ d.rooms[room_id] = owner
  THEN Transaction(
         d, [d EXCEPT
               !.rooms = [r \in DOMAIN @ \ {room_id} |-> @[r]],
               !.room_members = {m \in @ : m[1] # room_id}],
         "true", {})
  ELSE Transaction(d, d, "false", {})

\* Fault: the identity column is set back behind the newest room.
delete_room_rewinding(d, owner, room_id) ==
  IF room_id \in DOMAIN d.rooms /\ d.rooms[room_id] = owner
  THEN Transaction(
         d, [d EXCEPT
               !.rooms = [r \in DOMAIN @ \ {room_id} |-> @[r]],
               !.room_members = {m \in @ : m[1] # room_id},
               !.messages = {m \in @ : m.room_id # room_id},
               !.next_room = IF @ = room_id + 1 THEN room_id ELSE @],
         "true", {})
  ELSE Transaction(d, d, "false", {})

\* ON DELETE CASCADE takes the members and the messages along.
delete_room(d, owner, room_id) ==
  IF room_id \in DOMAIN d.rooms /\ d.rooms[room_id] = owner
  THEN Transaction(
         d, [d EXCEPT
               !.rooms = [r \in DOMAIN @ \ {room_id} |-> @[r]],
               !.room_members = {m \in @ : m[1] # room_id},
               !.messages = {m \in @ : m.room_id # room_id}],
         "true", {})
  ELSE Transaction(d, d, "false", {})

\* Fault: anybody can be invited.
invite_stranger(d, inviter, room_id, friend) ==
  IF ~Member(d, room_id, inviter)
  THEN Transaction(d, d, "room_not_found_or_no_permission", {})
  ELSE IF friend \notin DOMAIN d.users
  THEN {Fails(d)}
  ELSE IF Member(d, room_id, friend)
  THEN Transaction(d, d, "already_member", {})
  ELSE Transaction(d, [d EXCEPT !.room_members = @ \cup {<<room_id, friend>>}],
                   "invited", {})

invite_room(d, inviter, room_id, friend) ==
  IF ~Member(d, room_id, inviter)
  THEN Transaction(d, d, "room_not_found_or_no_permission", {})
  ELSE IF ~Friends(d, inviter, friend)
  THEN Transaction(d, d, "not_friend", {})
  ELSE IF Member(d, room_id, friend)
  THEN Transaction(d, d, "already_member", {})
  ELSE Transaction(d, [d EXCEPT !.room_members = @ \cup {<<room_id, friend>>}],
                   "invited", {})

\* Fault: the owner may leave as well.
leave_room_anyone(d, user_id, room_id) ==
  IF room_id \notin DOMAIN d.rooms
  THEN Transaction(d, d, "not_member_or_room_not_found", {})
  ELSE IF ~Member(d, room_id, user_id)
  THEN Transaction(d, d, "not_member_or_room_not_found", {})
  ELSE Transaction(d, [d EXCEPT !.room_members = @ \ {<<room_id, user_id>>}],
                   "left", {})

leave_room(d, user_id, room_id) ==
  IF room_id \notin DOMAIN d.rooms
  THEN Transaction(d, d, "not_member_or_room_not_found", {})
  ELSE IF d.rooms[room_id] = user_id
  THEN Transaction(d, d, "owner_cannot_leave", {})
  ELSE IF ~Member(d, room_id, user_id)
  THEN Transaction(d, d, "not_member_or_room_not_found", {})
  ELSE Transaction(d, [d EXCEPT !.room_members = @ \ {<<room_id, user_id>>}],
                   "left", {})

list_rooms(d, user_id) ==
  Transaction(d, d, "list", {r \in DOMAIN d.rooms : Member(d, r, user_id)})

\* value: the message's id
create_room_message(d, room_id, sender) ==
  IF ~Member(d, room_id, sender)
  THEN Transaction(d, d, "none", {})
  ELSE LET id == d.next_message
       IN  {Fails(DrawMessageId(d))} \cup
           Transaction(
             d, [DrawMessageId(d) EXCEPT
                   !.messages = @ \cup {[id |-> id, room_id |-> room_id,
                                         sender |-> sender]}],
             "stored", id)

\* Only members read.  value: the newest messages of the room, limit of them.
\* (created_at grows with the id: there is one connection.)
list_room_messages(d, user_id, room_id, limit) ==
  LET all == {m \in d.messages : m.room_id = room_id}
      newest == {m \in all : Cardinality({n \in all : n.id > m.id}) < limit}
  IN  IF Member(d, room_id, user_id)
      THEN Transaction(d, d, "list", newest)
      ELSE Transaction(d, d, "none", {})

-----------------------------------------------------------------------------
(* The service on its own: any caller, any operation, in any order.        *)

Init == db = EmptyTables /\ given_up = {}

Do(outcomes) ==
  /\ \E o \in outcomes : db' = o.db
  /\ given_up' = given_up \cup (DOMAIN db.rooms \ DOMAIN db'.rooms)

Signup == \E u \in Users, pw \in Passwords : Do(signup(db, u, pw))
Login == \E u \in Users, pw \in Passwords : Do(login(db, u, pw))
ChangeNickname == \E u \in Users, n \in Nicks : Do(change_nickname(db, u, n))

RemoveFriend == \E u, v \in Users : Do(remove_friend(db, u, v))
ListFriends == \E u \in Users : Do(list_friends(db, u))
RequestFriend == \E u, v \in Users : Do(request_friend(db, u, v))
AcceptFriendRequest == \E u, v \in Users : Do(accept_friend_request(db, u, v))
RejectFriendRequest == \E u, v \in Users : Do(reject_friend_request(db, u, v))
ListFriendRequests == \E u \in Users : Do(list_friend_requests(db, u))

CreateRoom ==
  /\ db.next_room <= MaxRooms
  /\ \E u \in Users : Do(create_room(db, u))
DeleteRoom == \E u \in Users, r \in 1..MaxRooms : Do(delete_room(db, u, r))
InviteRoom ==
  \E u, v \in Users, r \in 1..MaxRooms : Do(invite_room(db, u, r, v))
LeaveRoom == \E u \in Users, r \in 1..MaxRooms : Do(leave_room(db, u, r))
ListRooms == \E u \in Users : Do(list_rooms(db, u))
CreateRoomMessage ==
  /\ db.next_message <= MaxMessages
  /\ \E u \in Users, r \in 1..MaxRooms : Do(create_room_message(db, r, u))
ListRoomMessages ==
  \E u \in Users, r \in 1..MaxRooms : Do(list_room_messages(db, u, r, 1))

Next ==
  \/ Signup \/ Login \/ ChangeNickname
  \/ RemoveFriend \/ ListFriends \/ RequestFriend
  \/ AcceptFriendRequest \/ RejectFriendRequest \/ ListFriendRequests
  \/ CreateRoom \/ DeleteRoom \/ InviteRoom \/ LeaveRoom \/ ListRooms
  \/ CreateRoomMessage \/ ListRoomMessages

Spec == Init /\ [][Next]_vars

-----------------------------------------------------------------------------
(* Properties.                                                             *)

\* The tables respect the columns' types and the CHECK constraints.
TypeOK ==
  /\ DOMAIN db.users \subseteq Users
  /\ db.users \in [DOMAIN db.users -> [pw : Passwords, nickname : Nicks]]
  /\ \A pair \in db.friendships : \E a, b \in Users : a # b /\ pair = {a, b}
  /\ DOMAIN db.friend_requests \subseteq {k \in Users \X Users : k[1] # k[2]}
  /\ db.friend_requests \in [DOMAIN db.friend_requests -> Statuses]
  /\ db.next_room \in 1..(MaxRooms + 1)
  /\ DOMAIN db.rooms \subseteq 1..(db.next_room - 1)
  /\ db.rooms \in [DOMAIN db.rooms -> Users]
  /\ db.room_members \subseteq (1..MaxRooms) \X Users
  /\ db.next_message \in 1..(MaxMessages + 1)
  /\ db.messages \subseteq [id : 1..MaxMessages, room_id : 1..MaxRooms, sender : Users]
  /\ given_up \subseteq 1..MaxRooms

\* No row refers to a room or a user that does not exist, after any sequence
\* of operations, deletions of rooms with members and messages included.
ReferencesHold ==
  /\ \A pair \in db.friendships : pair \subseteq DOMAIN db.users
  /\ \A k \in DOMAIN db.friend_requests : {k[1], k[2]} \subseteq DOMAIN db.users
  /\ \A m \in db.room_members : m[1] \in DOMAIN db.rooms /\ m[2] \in DOMAIN db.users
  /\ \A m \in db.messages :
       m.room_id \in DOMAIN db.rooms /\ m.sender \in DOMAIN db.users

\* The owner of a room is one of its members, so he can speak, invite and
\* read the history: create_room() makes him one in the same transaction and
\* leave_room() never lets him go.
OwnerIsMember == \A r \in DOMAIN db.rooms : Member(db, r, db.rooms[r])

\* Two users are only friends when one asked and the other accepted.
FriendsByConsent ==
  \A a, b \in Users : Friends(db, a, b)
    => Status(db, a, b) = "accepted" \/ Status(db, b, a) = "accepted"

\* Whoever becomes a member of a room owns it as of this step or is a friend
\* of somebody who already was a member.
MembersAreInvited ==
  [][\A r \in 1..MaxRooms, u \in Users :
       Member(db', r, u) /\ ~Member(db, r, u) =>
         \/ r \notin DOMAIN db.rooms /\ db'.rooms[r] = u
         \/ \E v \in Users : Member(db, r, v) /\ Friends(db, u, v)]_vars

\* The id of a room that was deleted never names a room again, however many
\* are created after it, with transactions that fail or are in doubt, and with
\* the newest room deleted as well as older ones.  Sessions of members other
\* than the owner stay listed under the id in the online index, where
\* delete_room leaves them: they would hear what is said in the new room.
RoomIdsNotReused == given_up \cap DOMAIN db.rooms = {}

=============================================================================
