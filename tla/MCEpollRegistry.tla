-------------------------- MODULE MCEpollRegistry --------------------------
(***************************************************************************)
(* Small instance of EpollRegistry: two descriptors, two users, one room   *)
(* (and the id 0, which is never indexed), every kind of command.          *)
(***************************************************************************)
EXTENDS EpollRegistry, TLC

CONSTANTS f1, f2, u1, u2, blank, guest, nick1

MCFds == {f1, f2}
MCUsers == {u1, u2}
MCRooms == {0, 1}
MCTexts == {"text"}
MCNicks == {guest, nick1}
MCRequests ==
  {cmd \in WorkerCommands :
     /\ cmd.op = "change_nickname" => cmd.nick # Guest
     /\ cmd.op = "send_friend_list" => cmd.friend_ids = Users
     /\ cmd.op \in {"set_joined_rooms", "set_joined_rooms_for_user"}
          => cmd.room_ids # {0}}
Symmetry == Permutations(Fds) \cup Permutations(Users)

=============================================================================
