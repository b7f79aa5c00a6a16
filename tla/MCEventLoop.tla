---------------------------- MODULE MCEventLoop -----------------------------
(***************************************************************************)
(* Small instance of EventLoop: what commands do to users and rooms does   *)
(* not matter here, so workers only send.                                  *)
(***************************************************************************)
EXTENDS EventLoop

CONSTANTS f1, f2, u1, blank, guest

MCRooms == {1}
MCRequests == [op : {"send_one"}, fd : {f1}, text : Texts]

=============================================================================
