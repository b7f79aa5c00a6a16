------------------------------ MODULE Presence ------------------------------
(***************************************************************************)
(* What the registry promises its callers.  There are sessions, each with  *)
(* a user, a nickname and the rooms it has joined, and one queue of        *)
(* commands, obeyed in the order they were given.  "Who is in this room",  *)
(* "who is this user" and "is he online" mean a look at every session;     *)
(* there are no indexes and no descriptors to keep account of.  A session  *)
(* a line is sent to may turn out to be broken: it is dropped instead.     *)
(***************************************************************************)
EXTENDS RegistryCommands

VARIABLES
  sessions,   \* descriptor -> [user_id, nickname, rooms]
  queue,      \* commands given and not yet obeyed
  delivered   \* output of the last step: who was sent what

vars == <<sessions, queue, delivered>>

Init ==
  /\ sessions = Nothing
  /\ queue = <<>>
  /\ delivered = Nothing

InRoom(r) == {fd \in DOMAIN sessions : r \in sessions[fd].rooms}
LoggedInAs(u) == {fd \in DOMAIN sessions : sessions[fd].user_id = u}
Online == {u \in Users : LoggedInAs(u) # {}}

NameOf(fd) ==
  IF fd \in DOMAIN sessions /\ sessions[fd].nickname # Empty
  THEN sessions[fd].nickname ELSE Guest

Give ==
  /\ \E cmd \in Commands : queue' = Append(queue, cmd)
  /\ delivered' = Nothing
  /\ UNCHANGED sessions

\* Whatever else goes on inside sends nothing.
Quiet == delivered' = Nothing /\ UNCHANGED <<sessions, queue>>

-----------------------------------------------------------------------------
(* Obeying one command.                                                    *)

Keep(fds) == sessions' = [fd \in fds |-> sessions[fd]]

Send(targets, line) ==
  \E lost \in SUBSET targets :
    /\ Keep(DOMAIN sessions \ lost)
    /\ delivered' = [fd \in targets \ lost |-> line]

Update(fds, New(_)) ==
  /\ sessions' = [fd \in DOMAIN sessions |->
                    IF fd \in fds THEN New(sessions[fd]) ELSE sessions[fd]]
  /\ delivered' = Nothing

Register(fd) ==
  /\ \/ /\ fd \notin DOMAIN sessions
        /\ sessions' = [f \in DOMAIN sessions \cup {fd} |->
             IF f = fd THEN [user_id |-> Empty, nickname |-> Guest, rooms |-> {}]
             ELSE sessions[f]]
     \/ UNCHANGED sessions
  /\ delivered' = Nothing

Unregister(fd) == Keep(DOMAIN sessions \ {fd}) /\ delivered' = Nothing

ChangeNickname(cmd) ==
  LET New(s) == [s EXCEPT !.nickname = cmd.nick] IN Update({cmd.fd}, New)

SetUserId(cmd) ==
  LET New(s) == [s EXCEPT !.user_id = cmd.user_id, !.rooms = {}]
  IN  Update({cmd.fd}, New)

SetRooms(fds, room_ids) ==
  LET New(s) == [s EXCEPT !.rooms = {r \in room_ids : r > 0}]
  IN  Update(fds, New)

SendOne(cmd) == Send({cmd.fd} \cap DOMAIN sessions, Response(cmd.text))

SendFriendList(cmd) ==
  Send({cmd.fd} \cap DOMAIN sessions,
       FriendList(cmd.friend_ids \cap Online))

RoomBroadcast(cmd) ==
  Send(InRoom(cmd.room_id), Message(NameOf(cmd.fd), cmd.text))

Obey ==
  LET cmd == Head(queue) IN
  /\ queue # <<>>
  /\ queue' = Tail(queue)
  /\ \/ cmd.op = "register" /\ Register(cmd.fd)
     \/ cmd.op = "unregister" /\ Unregister(cmd.fd)
     \/ cmd.op = "send_one" /\ SendOne(cmd)
     \/ cmd.op = "change_nickname" /\ ChangeNickname(cmd)
     \/ cmd.op = "set_user_id" /\ SetUserId(cmd)
     \/ cmd.op = "set_joined_rooms" /\ SetRooms({cmd.fd}, cmd.room_ids)
     \/ cmd.op = "set_joined_rooms_for_user"
          /\ SetRooms(LoggedInAs(cmd.user_id), cmd.room_ids)
     \/ cmd.op = "send_friend_list" /\ SendFriendList(cmd)
     \/ cmd.op = "room_broadcast" /\ RoomBroadcast(cmd)

Next == Give \/ Quiet \/ Obey

Spec == Init /\ [][Next]_vars

=============================================================================
