------------------------------- MODULE Codec --------------------------------
(***************************************************************************)
(* The wire form of commands (src/protocol/command_codec.cpp): a line is   *)
(* the command's name and its arguments, a carriage return between them.   *)
(*                                                                         *)
(* Bytes are symbols; the name of a command is one of them.                *)
(***************************************************************************)
EXTENDS OffsetBuffer, SequencesExt

CONSTANT Return    \* '\r'

\* The commands by the arguments they take.
NoArgument == {"list_friend", "list_friend_request", "list_room"}
OneArgument ==
  {"nick", "response", "friend_request", "friend_accept", "friend_reject",
   "friend_remove", "create_room", "delete_room", "leave_room"}
TwoArguments == {"say", "login", "register", "invite_room", "history"}

Arity ==
  [name \in NoArgument \cup OneArgument \cup TwoArguments |->
     IF name \in NoArgument THEN 0 ELSE IF name \in OneArgument THEN 1 ELSE 2]

\* A command as the types of command_codec.hpp have it.  Its strings come out
\* of lines, so there is no newline in them.
IsCommand(cmd) ==
  /\ cmd = [name |-> cmd.name, args |-> cmd.args]
  /\ cmd.name \in DOMAIN Arity
  /\ cmd.args \in Seq(Seq(Bytes \ {Newline}))
  /\ Len(cmd.args) = Arity[cmd.name]

ASSUME CodecAssumption ==
  /\ DOMAIN Arity \subseteq Bytes \ {Newline, Return}
  /\ Return \in Bytes \ {Newline}

\* Fault: the last argument runs into the one before it.
EncodeRunsOn(cmd) ==
  <<cmd.name, Return>> \o FlattenSeq(cmd.args) \o <<Newline>>

Encode(cmd) ==
  <<cmd.name>> \o FlattenSeq([i \in DOMAIN cmd.args |-> <<Return>> \o cmd.args[i]])
               \o <<Newline>>

\* decode_line(): the runs between carriage returns, the empty ones dropped.
\* Its skip of a newline behind a carriage return never applies to a line of
\* parse_line(), which has no newline.
Fields(line) ==
  LET starts == {i \in DOMAIN line : line[i] # Return /\ (i = 1 \/ line[i - 1] = Return)}
      Nth(n) == CHOOSE i \in starts : Cardinality({j \in starts : j <= i}) = n
      End(i) == CHOOSE k \in i .. Len(line) :
                  /\ \A j \in i .. k : line[j] # Return
                  /\ k = Len(line) \/ line[k + 1] = Return
  IN  [n \in 1 .. Cardinality(starts) |-> SubSeq(line, Nth(n), End(Nth(n)))]

Rejected(why) == [ok |-> FALSE, error |-> why]

Decode(line) ==
  LET fields == Fields(line)
  IN  IF fields = <<>> THEN Rejected("empty_line")
      ELSE IF \A name \in DOMAIN Arity : fields[1] # <<name>>
             THEN Rejected("invalid_command")
      ELSE IF Len(fields) - 1 # Arity[fields[1][1]]
             THEN Rejected("unexpected_argument")
      ELSE [ok |-> TRUE, cmd |-> [name |-> fields[1][1], args |-> Tail(fields)]]

\* The line a command goes out as, as parse_line() hands it to decode().
LineOf(cmd) == Front(Encode(cmd))

=============================================================================
