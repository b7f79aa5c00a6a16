-------------------------- MODULE RegistryCommands --------------------------
(***************************************************************************)
(* The messages of epoll_registry: the alternatives of                     *)
(* epoll_registry::command that the server's threads push, and the lines   *)
(* handling them puts into send buffers.  broadcast_command is absent: only*)
(* branches that is_db_command() and is_pool_command() make unreachable    *)
(* push it.                                                                *)
(***************************************************************************)
EXTENDS Integers, Sequences

CONSTANTS
  Fds,       \* descriptor numbers the kernel can hand out
  Users,     \* user ids (never empty)
  Rooms,     \* room ids a producer can name; only positive ones are indexed
  Nicks,     \* nicknames
  Texts,     \* what replies and messages say
  Empty,     \* the empty string: a session that is not logged in, a blank nick
  Guest      \* the nickname "guest"

ASSUME NamesAssumption ==
  /\ Empty \notin Users
  /\ Guest \in Nicks
  /\ Rooms \subseteq Int

WorkerCommands ==
       [op : {"send_one"}, fd : Fds, text : Texts]
  \cup [op : {"change_nickname"}, fd : Fds, nick : Nicks]
  \cup [op : {"set_user_id"}, fd : Fds, user_id : Users \cup {Empty}]
  \cup [op : {"set_joined_rooms"}, fd : Fds, room_ids : SUBSET Rooms]
  \cup [op : {"set_joined_rooms_for_user"}, user_id : Users,
        room_ids : SUBSET Rooms]
  \cup [op : {"send_friend_list"}, fd : Fds, friend_ids : SUBSET Users]
  \cup [op : {"room_broadcast"}, fd : Fds, room_id : Rooms, text : Texts]

Commands == [op : {"register", "unregister"}, fd : Fds] \cup WorkerCommands

\* What a handled command puts into a send buffer: a reply, a room message
\* shown as coming from somebody, or a friend list with the friends shown
\* online.
Response(text) == [kind |-> "response", text |-> text]
Message(from, text) == [kind |-> "room", from |-> from, text |-> text]
FriendList(online) == [kind |-> "friends", online |-> online]

Lines ==
       [kind : {"response"}, text : Texts]
  \cup [kind : {"room"}, from : Nicks, text : Texts]
  \cup [kind : {"friends"}, online : SUBSET Users]

Nothing == [fd \in {} |-> {}]

=============================================================================
