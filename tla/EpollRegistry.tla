--------------------------- MODULE EpollRegistry ---------------------------
(***************************************************************************)
(* epoll_registry (src/reactor/epoll_registry.cpp): the table of connected *)
(* sessions, the indexes room -> descriptors and user -> descriptors, and  *)
(* the command queue through which every other thread changes them.        *)
(*                                                                         *)
(* Threads.  The acceptor pushes register commands, the database workers   *)
(* push everything in Requests, and the event loop thread runs work(),     *)
(* which swaps the queue out under the lock and handles the commands one   *)
(* by one, and between two work() calls the socket handlers of             *)
(* epoll_server.  One push is one step (it happens under cmd_mtx) and one  *)
(* handled command is one step (infos and the indexes belong to the loop   *)
(* thread, nobody sees them half updated).                                 *)
(***************************************************************************)
EXTENDS RegistryCommands, OnlineIndex

CONSTANTS
  Requests,  \* the commands database workers push
  MaxQueue   \* bound on the commands queued and not yet handled

VARIABLES
  open_fds,         \* descriptors of accepted sockets that are open
  infos,            \* descriptor -> socket_info
  room_online_fds,  \* room id -> descriptors
  user_online_fds,  \* user id -> descriptors
  cmd_q,            \* commands pushed, under cmd_mtx
  pending_cmd,      \* the local queue of work(): swapped out, not handled yet
  delivered         \* output of the last step: what it put into send buffers

tables == <<open_fds, infos, room_online_fds, user_online_fds>>
vars == <<open_fds, infos, room_online_fds, user_online_fds, cmd_q,
          pending_cmd, delivered>>

-----------------------------------------------------------------------------
(* Sessions.                                                               *)

SocketInfo ==
  [user_id : Users \cup {Empty}, nickname : Nicks,
   joined_room_ids : SUBSET Rooms, is_closed : BOOLEAN,
   has_pending : BOOLEAN,   \* send: bytes wait to be written
   epollout : BOOLEAN]      \* interest & EPOLLOUT

\* Fault: a session that starts without the nickname "guest".
NewSessionNameless ==
  [user_id |-> Empty, nickname |-> Empty, joined_room_ids |-> {},
   is_closed |-> FALSE, has_pending |-> FALSE, epollout |-> FALSE]

\* The socket_info register_fd() emplaces.
NewSession ==
  [user_id |-> Empty, nickname |-> Guest, joined_room_ids |-> {},
   is_closed |-> FALSE, has_pending |-> FALSE, epollout |-> FALSE]

ASSUME RequestsAssumption == Requests \subseteq WorkerCommands
ASSUME QueueAssumption == MaxQueue \in Nat

Init ==
  /\ open_fds = {}
  /\ infos = Nothing
  /\ room_online_fds = EmptyIndex
  /\ user_online_fds = EmptyIndex
  /\ cmd_q = <<>>
  /\ pending_cmd = <<>>
  /\ delivered = Nothing

-----------------------------------------------------------------------------
(* The producers: request_*().                                             *)

\* All commands not yet handled, oldest first.
Backlog == pending_cmd \o cmd_q

Push(cmd) ==
  /\ Len(Backlog) < MaxQueue
  /\ cmd_q' = Append(cmd_q, cmd)

\* epoll_acceptor: accept4() returns a number that is not in use and the
\* descriptor travels to the loop inside a register_command.
Accept(fd) ==
  /\ fd \notin open_fds
  /\ open_fds' = open_fds \cup {fd}
  /\ Push([op |-> "register", fd |-> fd])
  /\ delivered' = Nothing
  /\ UNCHANGED <<infos, room_online_fds, user_online_fds, pending_cmd>>

\* db_executor: any command, for any descriptor number it remembers.
Request(cmd) ==
  /\ cmd \in Requests
  /\ Push(cmd)
  /\ delivered' = Nothing
  /\ UNCHANGED <<tables, pending_cmd>>

-----------------------------------------------------------------------------
(* The loop thread outside work(): epoll_server's socket handlers.         *)

\* handle_disconnect(): the session is marked and asks to be unregistered.
\* It stays in infos until the next work().
Disconnect(fd) ==
  /\ pending_cmd = <<>>
  /\ fd \in DOMAIN infos
  /\ ~infos[fd].is_closed
  /\ infos' = [infos EXCEPT ![fd].is_closed = TRUE]
  /\ Push([op |-> "unregister", fd |-> fd])
  /\ delivered' = Nothing
  /\ UNCHANGED <<open_fds, room_online_fds, user_online_fds, pending_cmd>>

\* Fault: after a partial write EPOLLOUT is only kept when TLS wants to write.
FlushSendDisarms(fd) ==
  /\ pending_cmd = <<>>
  /\ fd \in DOMAIN infos
  /\ \E left, needs_write \in BOOLEAN :
       /\ left => infos[fd].has_pending
       /\ infos' = [infos EXCEPT ![fd].has_pending = left,
                                 ![fd].epollout = needs_write]
  /\ delivered' = Nothing
  /\ UNCHANGED <<open_fds, room_online_fds, user_online_fds, cmd_q, pending_cmd>>

\* handle_send() with everything or only a part written, then
\* sync_tls_interest(): TLS may itself want to write.
FlushSend(fd) ==
  /\ pending_cmd = <<>>
  /\ fd \in DOMAIN infos
  /\ \E left, needs_write \in BOOLEAN :
       /\ left => infos[fd].has_pending
       /\ infos' = [infos EXCEPT ![fd].has_pending = left,
                                 ![fd].epollout = left \/ needs_write]
  /\ delivered' = Nothing
  /\ UNCHANGED <<open_fds, room_online_fds, user_online_fds, cmd_q, pending_cmd>>

-----------------------------------------------------------------------------
(* work() and handle_command().                                            *)

\* Fault: what is pushed during a batch goes before the rest of the batch.
WorkNewestFirst ==
  /\ cmd_q # <<>>
  /\ pending_cmd' = cmd_q \o pending_cmd
  /\ cmd_q' = <<>>
  /\ delivered' = Nothing
  /\ UNCHANGED tables

Work ==
  /\ pending_cmd = <<>>
  /\ cmd_q # <<>>
  /\ pending_cmd' = cmd_q
  /\ cmd_q' = <<>>
  /\ delivered' = Nothing
  /\ UNCHANGED tables

Take(op) ==
  /\ pending_cmd # <<>>
  /\ Head(pending_cmd).op = op
  /\ pending_cmd' = Tail(pending_cmd)
  /\ UNCHANGED cmd_q

RoomPairs(fds) ==
  {p \in Rooms \X fds : p[1] \in infos[p[2]].joined_room_ids}

UserPairs(fds) ==
  {p \in Users \X fds : p[1] = infos[p[2]].user_id}

\* Fault: unregistering leaves the session in its rooms.
ForgetUserOnly(fds) ==
  /\ user_online_fds' = Erase(user_online_fds, UserPairs(fds))
  /\ open_fds' = open_fds \ fds
  /\ UNCHANGED room_online_fds

\* unregister_fd() for every descriptor in fds, except for infos itself:
\* both indexes forget it and erasing the socket_info closes it.
Forget(fds) ==
  /\ room_online_fds' = Erase(room_online_fds, RoomPairs(fds))
  /\ user_online_fds' = Erase(user_online_fds, UserPairs(fds))
  /\ open_fds' = open_fds \ fds

\* append_send() to every session in targets.  Only the step from an empty
\* to a non-empty buffer touches epoll; when that call fails the session is
\* unregistered on the spot.
AppendSend(targets, failed) ==
  /\ failed \subseteq {fd \in targets : ~infos[fd].has_pending}
  /\ infos' =
       [fd \in DOMAIN infos \ failed |->
          IF fd \in targets
          THEN [infos[fd] EXCEPT !.has_pending = TRUE,
                                 !.epollout = @ \/ ~infos[fd].has_pending]
          ELSE infos[fd]]
  /\ Forget(failed)

\* set_fd_joined_rooms() for every session in fds.
SetFdJoinedRooms(fds, room_ids) ==
  LET joined == {r \in room_ids : r > 0}
  IN  /\ infos' = [fd \in DOMAIN infos |->
                     IF fd \in fds
                     THEN [infos[fd] EXCEPT !.joined_room_ids = joined]
                     ELSE infos[fd]]
      /\ room_online_fds' =
           Insert(Erase(room_online_fds, RoomPairs(fds)), joined \X fds)

\* A command for a descriptor without a session does nothing.
Ignore(fd) == fd \notin DOMAIN infos /\ UNCHANGED tables

\* Fault: a failed registration leaves the descriptor open.
HandleRegisterLeaks ==
  LET fd == Head(pending_cmd).fd IN
  /\ Take("register")
  /\ \/ /\ fd \notin DOMAIN infos
        /\ infos' = [f \in DOMAIN infos \cup {fd} |->
                       IF f = fd THEN NewSession ELSE infos[f]]
     \/ UNCHANGED infos
  /\ delivered' = Nothing
  /\ UNCHANGED <<open_fds, room_online_fds, user_online_fds>>

\* register_fd(): fails when the number is taken or when a system call or
\* the TLS session fails; the unique_fd of the command then closes it.
HandleRegister ==
  LET fd == Head(pending_cmd).fd IN
  /\ Take("register")
  /\ \/ /\ fd \notin DOMAIN infos
        /\ infos' = [f \in DOMAIN infos \cup {fd} |->
                       IF f = fd THEN NewSession ELSE infos[f]]
        /\ UNCHANGED open_fds
     \/ /\ open_fds' = open_fds \ {fd}
        /\ UNCHANGED infos
  /\ delivered' = Nothing
  /\ UNCHANGED <<room_online_fds, user_online_fds>>

\* unregister_fd()
HandleUnregister ==
  LET fd == Head(pending_cmd).fd IN
  /\ Take("unregister")
  /\ \/ Ignore(fd)
     \/ /\ fd \in DOMAIN infos
        /\ infos' = [f \in DOMAIN infos \ {fd} |-> infos[f]]
        /\ Forget({fd})
  /\ delivered' = Nothing

\* handle_command(send_one_command)
HandleSendOne ==
  LET cmd == Head(pending_cmd)
      fd == cmd.fd
  IN
  /\ Take("send_one")
  /\ \/ Ignore(fd) /\ delivered' = Nothing
     \/ /\ fd \in DOMAIN infos
        /\ \E failed \in SUBSET {fd} :
             /\ AppendSend({fd}, failed)
             /\ delivered' = [f \in {fd} \ failed |-> Response(cmd.text)]

\* handle_command(change_nickname_command)
HandleChangeNickname ==
  LET cmd == Head(pending_cmd) IN
  /\ Take("change_nickname")
  /\ \/ Ignore(cmd.fd)
     \/ /\ cmd.fd \in DOMAIN infos
        /\ infos' = [infos EXCEPT ![cmd.fd].nickname = cmd.nick]
        /\ UNCHANGED <<open_fds, room_online_fds, user_online_fds>>
  /\ delivered' = Nothing

\* Fault: the session stays in the entry of its old user.
HandleSetUserIdKeepsEntry ==
  LET cmd == Head(pending_cmd)
      fd == cmd.fd
  IN
  /\ Take("set_user_id")
  /\ \/ Ignore(fd)
     \/ /\ fd \in DOMAIN infos
        /\ infos' = [infos EXCEPT ![fd].user_id = cmd.user_id,
                                  ![fd].joined_room_ids = {}]
        /\ room_online_fds' = Erase(room_online_fds, RoomPairs({fd}))
        /\ user_online_fds' =
             IF cmd.user_id = Empty THEN user_online_fds
             ELSE Insert(user_online_fds, {<<cmd.user_id, fd>>})
        /\ UNCHANGED open_fds
  /\ delivered' = Nothing

\* Fault: the session keeps the rooms of its old user.
HandleSetUserIdKeepsRooms ==
  LET cmd == Head(pending_cmd)
      fd == cmd.fd
  IN
  /\ Take("set_user_id")
  /\ \/ Ignore(fd)
     \/ /\ fd \in DOMAIN infos
        /\ infos' = [infos EXCEPT ![fd].user_id = cmd.user_id]
        /\ user_online_fds' =
             LET without == Erase(user_online_fds, UserPairs({fd}))
             IN  IF cmd.user_id = Empty THEN without
                 ELSE Insert(without, {<<cmd.user_id, fd>>})
        /\ UNCHANGED <<open_fds, room_online_fds>>
  /\ delivered' = Nothing

\* handle_command(set_user_id_command): the session leaves the entry of its
\* old user and all rooms before it takes the new name.
HandleSetUserId ==
  LET cmd == Head(pending_cmd)
      fd == cmd.fd
  IN
  /\ Take("set_user_id")
  /\ \/ Ignore(fd)
     \/ /\ fd \in DOMAIN infos
        /\ infos' = [infos EXCEPT ![fd].user_id = cmd.user_id,
                                  ![fd].joined_room_ids = {}]
        /\ room_online_fds' = Erase(room_online_fds, RoomPairs({fd}))
        /\ user_online_fds' =
             LET without == Erase(user_online_fds, UserPairs({fd}))
             IN  IF cmd.user_id = Empty THEN without
                 ELSE Insert(without, {<<cmd.user_id, fd>>})
        /\ UNCHANGED open_fds
  /\ delivered' = Nothing

\* handle_command(set_joined_rooms_command)
HandleSetJoinedRooms ==
  LET cmd == Head(pending_cmd) IN
  /\ Take("set_joined_rooms")
  /\ \/ Ignore(cmd.fd)
     \/ /\ cmd.fd \in DOMAIN infos
        /\ SetFdJoinedRooms({cmd.fd}, cmd.room_ids)
        /\ UNCHANGED <<open_fds, user_online_fds>>
  /\ delivered' = Nothing

\* handle_command(set_joined_rooms_for_user_command): the sessions are found
\* through the user index.
HandleSetJoinedRoomsForUser ==
  LET cmd == Head(pending_cmd)
      fds == Entry(user_online_fds, cmd.user_id) \cap DOMAIN infos
  IN
  /\ Take("set_joined_rooms_for_user")
  /\ SetFdJoinedRooms(fds, cmd.room_ids)
  /\ UNCHANGED <<open_fds, user_online_fds>>
  /\ delivered' = Nothing

\* handle_command(send_friend_list_command): a header, then one line per
\* friend, online when the user index has a key for him.  Only the header
\* can fail: after it the buffer is not empty.
HandleSendFriendList ==
  LET cmd == Head(pending_cmd)
      fd == cmd.fd
  IN
  /\ Take("send_friend_list")
  /\ \/ Ignore(fd) /\ delivered' = Nothing
     \/ /\ fd \in DOMAIN infos
        /\ \E failed \in SUBSET {fd} :
             /\ AppendSend({fd}, failed)
             /\ delivered' =
                  [f \in {fd} \ failed |->
                     FriendList(cmd.friend_ids \cap DOMAIN user_online_fds)]

\* The name a broadcast shows: the sender's nickname, "guest" when the sender
\* is gone or has a blank one.
SenderName(fd) ==
  IF fd \in DOMAIN infos /\ infos[fd].nickname # Empty
  THEN infos[fd].nickname ELSE Guest

\* handle_command(room_broadcast_command): nothing when the room has no
\* entry, else to a copy of the entry.
HandleRoomBroadcast ==
  LET cmd == Head(pending_cmd)
      targets == Entry(room_online_fds, cmd.room_id) \cap DOMAIN infos
  IN
  /\ Take("room_broadcast")
  /\ \E failed \in SUBSET targets :
       /\ AppendSend(targets, failed)
       /\ delivered' = [f \in targets \ failed |->
                           Message(SenderName(cmd.fd), cmd.text)]

HandleCommand ==
  \/ HandleRegister
  \/ HandleUnregister
  \/ HandleSendOne
  \/ HandleChangeNickname
  \/ HandleSetUserId
  \/ HandleSetJoinedRooms
  \/ HandleSetJoinedRoomsForUser
  \/ HandleSendFriendList
  \/ HandleRoomBroadcast

Next ==
  \/ \E fd \in Fds : Accept(fd) \/ Disconnect(fd) \/ FlushSend(fd)
  \/ \E cmd \in Requests : Request(cmd)
  \/ Work
  \/ HandleCommand

Spec == Init /\ [][Next]_vars

-----------------------------------------------------------------------------
(* The registry implements Presence: hide the descriptors, the buffers and *)
(* the indexes, and take the two queues for one.                           *)

Visible(fd) ==
  [user_id |-> infos[fd].user_id, nickname |-> infos[fd].nickname,
   rooms |-> infos[fd].joined_room_ids]

P == INSTANCE Presence WITH
       sessions <- [fd \in DOMAIN infos |-> Visible(fd)],
       queue <- Backlog

-----------------------------------------------------------------------------
(* Properties.                                                             *)

\* Looking sessions up through the indexes, from a queue that is swapped out
\* while others push, has the outcome of scanning all sessions, command by
\* command in the order they were pushed: every send, friend list, room
\* message and change of identity does what Presence says.
ImplementsPresence == P!Spec

\* Every variable holds values of its C++ type.
TypeOK ==
  /\ open_fds \subseteq Fds
  /\ DOMAIN infos \subseteq Fds
  /\ infos \in [DOMAIN infos -> SocketInfo]
  /\ IndexOver(room_online_fds, Rooms, Fds)
  /\ IndexOver(user_online_fds, Users, Fds)
  /\ cmd_q \in Seq(Commands)
  /\ pending_cmd \in Seq(Commands)
  /\ DOMAIN delivered \subseteq Fds
  /\ delivered \in [DOMAIN delivered -> Lines]

\* user_online_fds and the user_id of the sessions say the same thing after
\* any sequence of commands: nobody is found under a name he no longer has,
\* and every logged in session is found.
UserIndexExact ==
  \A u \in Users, fd \in Fds :
    Listed(user_online_fds, u, fd) <=> fd \in DOMAIN infos /\ infos[fd].user_id = u

\* The same for rooms: a room message goes to exactly the sessions that hold
\* the room in joined_room_ids.
RoomIndexExact ==
  \A r \in Rooms, fd \in Fds :
    Listed(room_online_fds, r, fd)
      <=> fd \in DOMAIN infos /\ r \in infos[fd].joined_room_ids

\* An index never keeps an entry without descriptors:
\* handle_command(send_friend_list_command) would show a user as online whose
\* last session is gone.
NoGhostEntries ==
  /\ NoEmptyEntry(user_online_fds)
  /\ NoEmptyEntry(room_online_fds)

IsRegister(cmd) == cmd.op = "register"

\* Every open descriptor has exactly one owner: a session, or one register
\* command on its way.  So the EEXIST branch of register_fd(), which closes
\* the descriptor of a live session, is never taken, and none leaks.
FdOwnership ==
  /\ DOMAIN infos \subseteq open_fds
  /\ \A i \in DOMAIN Backlog : IsRegister(Backlog[i]) =>
       /\ Backlog[i].fd \in open_fds \ DOMAIN infos
       /\ \A j \in DOMAIN Backlog :
            IsRegister(Backlog[j]) /\ Backlog[j].fd = Backlog[i].fd => i = j
  /\ \A fd \in open_fds \ DOMAIN infos :
       \E i \in DOMAIN Backlog : Backlog[i] = [op |-> "register", fd |-> fd]

\* A session with bytes to send always waits for EPOLLOUT.  append_send() arms
\* it only when the buffer was empty, so nobody would arm it later.
PendingArmed ==
  \A fd \in DOMAIN infos : infos[fd].has_pending => infos[fd].epollout

\* A session is closing exactly while an unregister command for it is queued,
\* and such a command never meets a session that did not ask for it, although
\* it names it by a descriptor number that may have been closed and handed
\* out again.
UnregisterMeetsItsSession ==
  /\ \A fd \in DOMAIN infos :
       infos[fd].is_closed
         <=> \E i \in DOMAIN Backlog : Backlog[i] = [op |-> "unregister", fd |-> fd]
  /\ \A i, j \in DOMAIN Backlog :
       IsRegister(Backlog[j])
         /\ Backlog[i] = [op |-> "unregister", fd |-> Backlog[j].fd] => i < j

=============================================================================
