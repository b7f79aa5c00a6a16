---------------------------- MODULE MCChatServer ----------------------------
(***************************************************************************)
(* Small instances of ChatServer.                                          *)
(***************************************************************************)
EXTENDS ChatServer, TLC

CONSTANTS fd1, fd2, fd3, a, b, pw, guest, none

MCRooms == 0..4

-----------------------------------------------------------------------------
(* Tables that sign-ups, a friend request, its acceptance, one room and an *)
(* invitation to it leave.                                                 *)

Accounts ==
  [Db!EmptyTables EXCEPT !.users = [u \in {a, b} |-> [pw |-> pw, nickname |-> guest]]]

Friendly ==
  [Accounts EXCEPT !.friendships = {{a, b}},
                   !.friend_requests = [k \in {<<a, b>>} |-> "accepted"]]

\* b owns room 1
WithRoom ==
  [Friendly EXCEPT !.rooms = [r \in {1} |-> b], !.next_room = 2,
                   !.room_members = {<<1, b>>}]

\* a has been invited
WithMember == [WithRoom EXCEPT !.room_members = @ \cup {<<1, a>>}]

\* Sessions on fds, logged in as user by now.
Sessions(fds, user, room_ids) ==
  [fd \in fds |-> [user_id |-> user, nickname |-> guest, rooms |-> room_ids]]

Start(tables, present) ==
  [db |-> tables, sessions |-> present,
   conn |-> [fd \in Fds |-> IF fd \in DOMAIN present THEN 1 ELSE 0],
   reads |-> 0, outages |-> 0]

\* Only fds serve another connection.
Reusing(start, fds) ==
  [start EXCEPT !.conn = [fd \in Fds |-> IF fd \in fds THEN 1 ELSE MaxConns]]

\* One command fewer is left to be read.
Later(start) == [start EXCEPT !.reads = 1]

\* The database does not fail.
Sound(start) == [start EXCEPT !.outages = MaxOutages]

-----------------------------------------------------------------------------
(* Who logs in as whom, on a descriptor number that is used again.         *)

LoginScript ==
  [op : {"login"}, id : {a, b}, pw : {pw}] \cup [op : {"list_room", "response"}]

LoginStarts == {Start(WithRoom, Nothing)}

(* Who hears whom, who is listed where: two sessions of a and one of b,    *)
(* who owns the room; one session of each, with a database that may fail;  *)
(* or one of each, of which a's descriptor number is used again; each with *)
(* two commands.  And the owner alone, with three.                         *)

RoomScript ==
       [op : {"login"}, id : {a, b}, pw : {pw}]
  \cup [op : {"leave_room", "say", "delete_room"}, room_id : {1}]
  \cup [op : {"invite_room"}, room_id : {1}, user : {a}]
  \cup [op : {"create_room"}]

RoomStarts ==
  LET Owner(fd) == Sessions({fd}, b, {1})
      Stranger(fd) == Start(WithRoom, Sessions({fd}, a, {}) @@ Owner(fd3))
      Insider(fds) == Start(WithMember, Sessions(fds, a, {1}) @@ Owner(fd3))
      Few == {Sound(Reusing(Insider({fd1, fd2}), {}))}
               \cup {Reusing(Stranger(fd), {}) : fd \in {fd1, fd2}}
               \cup {Sound(Reusing(Insider({fd}), {fd})) : fd \in {fd1, fd2}}
  IN  {Later(start) : start \in Few}
      \cup {Sound(Reusing(Start(WithRoom, Owner(fd3)), {}))}

RoomSymmetry == Permutations({fd1, fd2})

(* Every command there is, from one connection after another.              *)

AnswerScript ==
  {cmd \in ClientCommands : "room_id" \in DOMAIN cmd => cmd.room_id <= 2}

AnswerStarts ==
  {Start(Db!EmptyTables, Nothing),
   Start(WithMember, Sessions({fd1}, b, {1}))}

=============================================================================
