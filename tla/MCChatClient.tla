---------------------------- MODULE MCChatClient ----------------------------
(***************************************************************************)
(* Small instance of ChatClient: a login, a choice of room and a text, in  *)
(* any order and as often as the bound allows, and a kernel that holds one *)
(* command, so that commands wait in the send buffer.                      *)
(***************************************************************************)
EXTENDS ChatClient

TypedLines == {"/login", "/select_room", "text"}

=============================================================================
