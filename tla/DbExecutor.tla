----------------------------- MODULE DbExecutor -----------------------------
(***************************************************************************)
(* db_executor (src/database/db_executor.cpp): a queue of tasks and, as    *)
(* epoll_server builds it, one worker.  A task is a decoded command with   *)
(* the descriptor of the session it came from and a copy of the user_id    *)
(* the session had when the command was read.                              *)
(*                                                                         *)
(* execute_command() calls db_service and then gives the registry commands *)
(* through request_*().  The one worker is the only caller of db_service,  *)
(* so nobody sees the tables between two calls of one task: a task is      *)
(* executed in one step, which leaves in todo the registry commands it     *)
(* pushes.  They are pushed one per step, because the loop thread may run  *)
(* work() between any two.                                                 *)
(*                                                                         *)
(* cmd_response is not a database command.  Names, message bodies and the  *)
(* wording of list lines are left out.                                     *)
(***************************************************************************)
EXTENDS RegistryCommands, FiniteSets

CONSTANT Passwords

VARIABLES
  db,      \* the tables
  failing, \* TRUE: the database may fail for reasons of its own
  tasks,   \* tasks, under mtx
  todo     \* what the worker still has to push for the task it took

\* (The bounds and the history are those of DbService's own behaviours, not
\* used here.)
Db == INSTANCE DbService WITH MaxRooms <- 0, MaxMessages <- 0, given_up <- {}

\* What clients can send.  Room id 0 stands for every text that stoll() does
\* not take or that is not positive, limit 0 for every limit not in 1..100.
RoomTexts == Rooms \cup {0}

ClientCommands ==
       [op : {"login", "register"}, id : Users, pw : Passwords]
  \cup [op : {"nick"}, nick : Nicks]
  \cup [op : {"friend_request", "friend_accept", "friend_reject", "friend_remove"},
        user : Users]
  \cup [op : {"list_friend", "list_friend_request", "list_room", "create_room"}]
  \cup [op : {"delete_room", "leave_room", "say"}, room_id : RoomTexts]
  \cup [op : {"invite_room"}, room_id : RoomTexts, user : Users]
  \cup [op : {"history"}, room_id : RoomTexts, limit : 0..1]

\* number and conn are history: which command it is, counted over the whole
\* server, and which connection on fd sent it.
Task(cmd, fd, user_id, conn, number) ==
  [cmd |-> cmd, fd |-> fd, user_id |-> user_id, conn |-> conn, number |-> number]

\* Everything a reply can say.
Sayings ==
  {"login first", "invalid room id", "header", "line", "echo",
   "login failed", "login success",
   "register failed", "register success", "id already exists",
   "send failed", "room not found or no permission",
   "nick change failed", "nick change success",
   "cannot request yourself", "friend request failed", "friend request sent",
   "friend request already exists or already friends",
   "friend request accept failed", "friend request accepted",
   "friend request reject failed", "friend request rejected",
   "no pending friend request", "cannot remove yourself",
   "friend remove failed", "friend removed", "friend not found",
   "friend list failed", "no friends",
   "friend requests list failed", "no pending friend requests",
   "create room failed", "room created", "delete room failed", "room deleted",
   "cannot invite yourself", "invite room failed", "user already in room",
   "can invite friends only", "room invite sent",
   "leave room failed", "room not found or not joined", "left room",
   "room owner cannot leave (delete room instead)",
   "list room failed", "no rooms",
   "invalid limit (1-100)", "history query failed"}

-----------------------------------------------------------------------------
(* What executing a task comes to: tables and commands for the registry.   *)

Then(d, pushes) == [db |-> d, pushes |-> pushes]

\* The text of a reply, with its task as history.
Says(t, says) == [says |-> says, task |-> t]
Reply(t, says) == [op |-> "send_one", fd |-> t.fd, text |-> Says(t, says)]

SetUserId(fd, user_id) == [op |-> "set_user_id", fd |-> fd, user_id |-> user_id]
SetJoinedRooms(fd, room_ids) ==
  [op |-> "set_joined_rooms", fd |-> fd, room_ids |-> room_ids]
SetJoinedRoomsForUser(user_id, room_ids) ==
  [op |-> "set_joined_rooms_for_user", user_id |-> user_id, room_ids |-> room_ids]
ChangeNickname(fd, nick) == [op |-> "change_nickname", fd |-> fd, nick |-> nick]

\* The outcomes of a db_service call.
Call(outcomes) ==
  LET fine == {o \in outcomes : o.answer # Db!Error}
  IN  IF ~failing /\ fine # {} THEN fine ELSE outcomes

Failed(o) == o.answer = Db!Error

\* One reply, chosen by the answer.
Answer(t, outcomes, says) ==
  {Then(o.db, <<Reply(t, says[o.answer])>>) : o \in Call(outcomes)}

Refuse(t, says) == {Then(db, <<Reply(t, says)>>)}

LoggedIn(t, results) ==
  IF t.user_id = Empty THEN Refuse(t, "login first") ELSE results

\* stoll(cmd.room_id), positive
RoomGiven(t, results) ==
  IF t.cmd.room_id = 0 THEN Refuse(t, "invalid room id") ELSE results

load_joined_room_ids(d, user_id) == Call(Db!list_rooms(d, user_id))

\* The command for the registry, when the rooms could be loaded.
RefreshSession(d, t) ==
  {IF Failed(o) THEN <<>> ELSE <<SetJoinedRooms(t.fd, o.value)>> :
     o \in load_joined_room_ids(d, t.user_id)}

RefreshUser(d, user_id) ==
  {IF Failed(o) THEN <<>> ELSE <<SetJoinedRoomsForUser(user_id, o.value)>> :
     o \in load_joined_room_ids(d, user_id)}

\* The same for two users, one after the other.
RefreshUsers(d, u, v) ==
  UNION {{p \o q : q \in RefreshUser(d, v)} : p \in RefreshUser(d, u)}

\* A header and one line for every element of the list.
ListLines(t, list) ==
  <<Reply(t, "header")>> \o [i \in 1..Cardinality(list) |-> Reply(t, "line")]

-----------------------------------------------------------------------------
(* execute_command(), one overload after the other.                        *)

\* Fault: the nickname is cleared instead of reset to "guest".
LogOutNameless(fd) ==
  <<SetUserId(fd, Empty), SetJoinedRooms(fd, {}), ChangeNickname(fd, Empty)>>

LogOut(fd) ==
  <<SetUserId(fd, Empty), SetJoinedRooms(fd, {}), ChangeNickname(fd, Guest)>>

\* Fault: the reply overtakes the session's new identity.
login_replies_first(t) ==
  LET failed == Reply(t, "login failed")
      Entered(o) ==
        {IF Failed(p) THEN Then(p.db, <<failed>> \o LogOut(t.fd))
         ELSE Then(p.db, <<Reply(t, "login success"),
                           SetUserId(t.fd, t.cmd.id),
                           SetJoinedRooms(t.fd, p.value),
                           ChangeNickname(t.fd, o.value)>>) :
           p \in load_joined_room_ids(o.db, t.cmd.id)}
  IN  UNION {IF o.answer = "found" THEN Entered(o)
             ELSE {Then(o.db, IF Failed(o) THEN <<failed>> \o LogOut(t.fd)
                              ELSE LogOut(t.fd) \o <<failed>>)} :
               o \in Call(Db!login(db, t.cmd.id, t.cmd.pw))}

\* The identity of the session is set before it reads "login success", and
\* reset before it reads that id and password do not match, but only after
\* the reply when the database failed.
login(t) ==
  LET failed == Reply(t, "login failed")
      Entered(o) ==
        {IF Failed(p) THEN Then(p.db, <<failed>> \o LogOut(t.fd))
         ELSE Then(p.db, <<SetUserId(t.fd, t.cmd.id),
                           SetJoinedRooms(t.fd, p.value),
                           ChangeNickname(t.fd, o.value),
                           Reply(t, "login success")>>) :
           p \in load_joined_room_ids(o.db, t.cmd.id)}
  IN  UNION {IF o.answer = "found" THEN Entered(o)
             ELSE {Then(o.db, IF Failed(o) THEN <<failed>> \o LogOut(t.fd)
                              ELSE LogOut(t.fd) \o <<failed>>)} :
               o \in Call(Db!login(db, t.cmd.id, t.cmd.pw))}

register(t) ==
  Answer(t, Db!signup(db, t.cmd.id, t.cmd.pw),
         [error |-> "register failed", true |-> "register success",
          false |-> "id already exists"])

\* The text of a message, with the members of the room when it was stored.
MessageText(d, t) ==
  [says |-> "text", task |-> t,
   members |-> {u \in Users : Db!Member(d, t.cmd.room_id, u)}]

\* A stored message is broadcast; its sender gets no reply of his own.
say(t) ==
  LoggedIn(t, RoomGiven(t,
    {Then(o.db,
          IF Failed(o) THEN <<Reply(t, "send failed")>>
          ELSE IF o.answer = "none"
          THEN <<Reply(t, "room not found or no permission")>>
          ELSE <<[op |-> "room_broadcast", fd |-> t.fd,
                  room_id |-> t.cmd.room_id, text |-> MessageText(o.db, t)]>>) :
       o \in Call(Db!create_room_message(db, t.cmd.room_id, t.user_id))}))

nick(t) ==
  LoggedIn(t,
    {Then(o.db,
          IF o.answer # "true" THEN <<Reply(t, "nick change failed")>>
          ELSE <<ChangeNickname(t.fd, t.cmd.nick),
                 Reply(t, "nick change success")>>) :
       o \in Call(Db!change_nickname(db, t.user_id, t.cmd.nick))})

friend_request(t) ==
  LoggedIn(t,
    IF t.user_id = t.cmd.user THEN Refuse(t, "cannot request yourself")
    ELSE Answer(t, Db!request_friend(db, t.user_id, t.cmd.user),
                [error |-> "friend request failed", true |-> "friend request sent",
                 false |-> "friend request already exists or already friends"]))

friend_accept(t) ==
  LoggedIn(t,
    Answer(t, Db!accept_friend_request(db, t.cmd.user, t.user_id),
           [error |-> "friend request accept failed",
            true |-> "friend request accepted",
            false |-> "no pending friend request"]))

friend_reject(t) ==
  LoggedIn(t,
    Answer(t, Db!reject_friend_request(db, t.cmd.user, t.user_id),
           [error |-> "friend request reject failed",
            true |-> "friend request rejected",
            false |-> "no pending friend request"]))

friend_remove(t) ==
  LoggedIn(t,
    IF t.user_id = t.cmd.user THEN Refuse(t, "cannot remove yourself")
    ELSE Answer(t, Db!remove_friend(db, t.user_id, t.cmd.user),
                [error |-> "friend remove failed", true |-> "friend removed",
                 false |-> "friend not found"]))

list_friend(t) ==
  LoggedIn(t,
    {Then(o.db,
          IF Failed(o) THEN <<Reply(t, "friend list failed")>>
          ELSE IF o.value = {} THEN <<Reply(t, "no friends")>>
          ELSE <<[op |-> "send_friend_list", fd |-> t.fd, friend_ids |-> o.value]>>) :
       o \in Call(Db!list_friends(db, t.user_id))})

list_friend_request(t) ==
  LoggedIn(t,
    {Then(o.db,
          IF Failed(o) THEN <<Reply(t, "friend requests list failed")>>
          ELSE IF o.value = {} THEN <<Reply(t, "no pending friend requests")>>
          ELSE ListLines(t, o.value)) :
       o \in Call(Db!list_friend_requests(db, t.user_id))})

\* Only the session that created the room is refreshed, after its reply.
\* (decode() drops empty arguments, so the room name is not empty.)
create_room(t) ==
  LoggedIn(t,
    UNION {IF Failed(o) THEN {Then(o.db, <<Reply(t, "create room failed")>>)}
           ELSE {Then(o.db, <<Reply(t, "room created")>> \o pushes) :
                   pushes \in RefreshSession(o.db, t)} :
             o \in Call(Db!create_room(db, t.user_id))})

\* Fault: a refused deletion is not answered.
delete_room_silent(t) ==
  LoggedIn(t, RoomGiven(t,
    UNION {IF Failed(o) THEN {Then(o.db, <<Reply(t, "delete room failed")>>)}
           ELSE IF o.answer = "false" THEN {Then(o.db, <<>>)}
           ELSE {Then(o.db, pushes \o <<Reply(t, "room deleted")>>) :
                   pushes \in RefreshSession(o.db, t)} :
             o \in Call(Db!delete_room(db, t.user_id, t.cmd.room_id))}))

\* Only the session that deleted the room is refreshed; the other members'
\* sessions stay listed under an id that no room will have again.
delete_room(t) ==
  LoggedIn(t, RoomGiven(t,
    UNION {IF Failed(o) THEN {Then(o.db, <<Reply(t, "delete room failed")>>)}
           ELSE IF o.answer = "false"
           THEN {Then(o.db, <<Reply(t, "room not found or no permission")>>)}
           ELSE {Then(o.db, pushes \o <<Reply(t, "room deleted")>>) :
                   pushes \in RefreshSession(o.db, t)} :
             o \in Call(Db!delete_room(db, t.user_id, t.cmd.room_id))}))

\* Fault: only the session that asked hears of the new room.
invite_refreshes_inviter(t) ==
  LoggedIn(t,
    IF t.user_id = t.cmd.user THEN Refuse(t, "cannot invite yourself")
    ELSE RoomGiven(t,
      UNION {IF o.answer # "invited" THEN {Then(o.db, <<Reply(t, "refused")>>)}
             ELSE {Then(o.db, pushes \o <<Reply(t, "room invite sent")>>) :
                     pushes \in RefreshUser(o.db, t.user_id)} :
               o \in Call(Db!invite_room(db, t.user_id, t.cmd.room_id, t.cmd.user))}))

\* All sessions of the inviter and all of the new member are refreshed.
invite_room(t) ==
  LET refusals ==
        [error |-> "invite room failed", already_member |-> "user already in room",
         not_friend |-> "can invite friends only",
         room_not_found_or_no_permission |-> "room not found or no permission"]
  IN
  LoggedIn(t,
    IF t.user_id = t.cmd.user THEN Refuse(t, "cannot invite yourself")
    ELSE RoomGiven(t,
      UNION {IF o.answer # "invited"
             THEN {Then(o.db, <<Reply(t, refusals[o.answer])>>)}
             ELSE {Then(o.db, pushes \o <<Reply(t, "room invite sent")>>) :
                     pushes \in RefreshUsers(o.db, t.user_id, t.cmd.user)} :
               o \in Call(Db!invite_room(db, t.user_id, t.cmd.room_id, t.cmd.user))}))

\* Fault: only the session that asked forgets the room.
leave_refreshes_session(t) ==
  LoggedIn(t, RoomGiven(t,
    UNION {IF o.answer # "left" THEN {Then(o.db, <<Reply(t, "refused")>>)}
           ELSE {Then(o.db, pushes \o <<Reply(t, "left room")>>) :
                   pushes \in RefreshSession(o.db, t)} :
             o \in Call(Db!leave_room(db, t.user_id, t.cmd.room_id))}))

\* All sessions of the user are refreshed.
leave_room(t) ==
  LET refusals ==
        [error |-> "leave room failed",
         not_member_or_room_not_found |-> "room not found or not joined",
         owner_cannot_leave |-> "room owner cannot leave (delete room instead)"]
  IN
  LoggedIn(t, RoomGiven(t,
    UNION {IF o.answer # "left"
           THEN {Then(o.db, <<Reply(t, refusals[o.answer])>>)}
           ELSE {Then(o.db, pushes \o <<Reply(t, "left room")>>) :
                   pushes \in RefreshUser(o.db, t.user_id)} :
             o \in Call(Db!leave_room(db, t.user_id, t.cmd.room_id))}))

list_room(t) ==
  LoggedIn(t,
    {Then(o.db,
          IF Failed(o) THEN <<Reply(t, "list room failed")>>
          ELSE IF o.value = {} THEN <<Reply(t, "no rooms")>>
          ELSE ListLines(t, o.value)) :
       o \in Call(Db!list_rooms(db, t.user_id))})

history(t) ==
  LoggedIn(t, RoomGiven(t,
    IF t.cmd.limit = 0 THEN Refuse(t, "invalid limit (1-100)")
    ELSE {Then(o.db,
               IF Failed(o) THEN <<Reply(t, "history query failed")>>
               ELSE IF o.answer = "none"
               THEN <<Reply(t, "room not found or no permission")>>
               ELSE ListLines(t, o.value)) :
            o \in Call(Db!list_room_messages(db, t.user_id, t.cmd.room_id,
                                             t.cmd.limit))}))

-----------------------------------------------------------------------------
(* enqueue() and worker_loop().                                            *)

\* Fault: tasks are kept on a stack.
EnqueueInFront(task) == tasks' = <<task>> \o tasks

Enqueue(task) == tasks' = Append(tasks, task)

\* The worker takes a task when it has pushed everything for the last one.
Execute(op, results) ==
  /\ todo = <<>>
  /\ tasks # <<>>
  /\ Head(tasks).cmd.op = op
  /\ tasks' = Tail(tasks)
  /\ \E result \in results : db' = result.db /\ todo' = result.pushes

ExecuteNext ==
  \/ Execute("login", login(Head(tasks)))
  \/ Execute("register", register(Head(tasks)))
  \/ Execute("say", say(Head(tasks)))
  \/ Execute("nick", nick(Head(tasks)))
  \/ Execute("friend_request", friend_request(Head(tasks)))
  \/ Execute("friend_accept", friend_accept(Head(tasks)))
  \/ Execute("friend_reject", friend_reject(Head(tasks)))
  \/ Execute("friend_remove", friend_remove(Head(tasks)))
  \/ Execute("list_friend", list_friend(Head(tasks)))
  \/ Execute("list_friend_request", list_friend_request(Head(tasks)))
  \/ Execute("create_room", create_room(Head(tasks)))
  \/ Execute("delete_room", delete_room(Head(tasks)))
  \/ Execute("invite_room", invite_room(Head(tasks)))
  \/ Execute("leave_room", leave_room(Head(tasks)))
  \/ Execute("list_room", list_room(Head(tasks)))
  \/ Execute("history", history(Head(tasks)))

=============================================================================
