------------------------------- MODULE MCWire -------------------------------
(***************************************************************************)
(* Small instance of Wire: commands of no, one and two arguments, and two  *)
(* a user can type that are not well-formed, for chat_io_worker::parse()   *)
(* splits at blanks only: a carriage return at the end of an argument      *)
(* (dropped) and one within the text (one argument too many).              *)
(***************************************************************************)
EXTENDS Wire

Cmd(name, args) == [name |-> name, args |-> args]

MCBytes == DOMAIN Arity \cup {"a", "b", "CR", "NL"}

MCSendable ==
  {Cmd("list_room", <<>>),
   Cmd("nick", <<<<"a", "b">>>>),
   Cmd("login", <<<<"a">>, <<"b">>>>),
   Cmd("login", <<<<"a">>, <<"b", "CR">>>>),
   Cmd("say", <<<<"a">>, <<"a", "CR", "b">>>>)}

=============================================================================
