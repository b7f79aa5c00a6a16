-------------------------------- MODULE Wire --------------------------------
(***************************************************************************)
(* One direction of a connection: commands are encoded into the send       *)
(* buffer of one side (send_buffer::append), flush_send() writes what the  *)
(* session takes of it, drain_recv() appends what has come to the receive  *)
(* buffer of the other side, where parse_line() and decode() take commands *)
(* out.  Client and server run the same code at both ends.                 *)
(*                                                                         *)
(* The session in between keeps the order of bytes and neither loses nor   *)
(* repeats any, but cuts the stream anywhere (TlsSession has its states).  *)
(***************************************************************************)
EXTENDS Codec

CONSTANTS
  Sendable,     \* the commands an instance sends
  MaxCommands   \* bound on them

ASSUME SendableAssumption == \A cmd \in Sendable : IsCommand(cmd)

VARIABLES
  send,         \* send_buffer of the sender
  stream,       \* bytes the session carries
  recv,         \* recv_buffer of the receiver
  sent,         \* history: commands encoded
  encoded,      \* history: the bytes of those
  taken,        \* history: the bytes of the lines parsed
  received      \* history: commands decoded

vars == <<send, stream, recv, sent, encoded, taken, received>>

Init ==
  /\ send = EmptyBuffer
  /\ stream = <<>>
  /\ recv = EmptyBuffer
  /\ sent = <<>>
  /\ encoded = <<>>
  /\ taken = <<>>
  /\ received = <<>>

SendCommand(cmd) ==
  /\ Len(sent) < MaxCommands
  /\ send' = Appended(send, Encode(cmd))
  /\ sent' = Append(sent, cmd)
  /\ encoded' = encoded \o Encode(cmd)
  /\ UNCHANGED <<stream, recv, taken, received>>

\* Fault: the buffer is cleared as if all that was offered had been taken.
FlushedWhole(b, n) == EmptyBuffer

\* flush_send(): n bytes are taken before the session makes it wait, or all.
Flushed(b, n) == CompactIfNeeded(ClearIfDone(Advance(b, n)))

Flush(n) ==
  /\ HasPending(send)
  /\ n \in 0 .. Remaining(send)
  /\ stream' = stream \o SubSeq(Unread(send), 1, n)
  /\ send' = Flushed(send, n)
  /\ UNCHANGED <<recv, sent, encoded, taken, received>>

\* drain_recv(): what has come by now, however much that is.
Drain(n) ==
  /\ stream # <<>>
  /\ n \in 1 .. Len(stream)
  /\ recv' = Appended(recv, SubSeq(stream, 1, n))
  /\ stream' = SubSeq(stream, n + 1, Len(stream))
  /\ UNCHANGED <<send, sent, encoded, taken, received>>

\* One round of the receiver's loop over parse_line(): handle_execute() or
\* the loop of chat_io_worker::run().  A line that does not decode is logged.
TakeLine ==
  /\ HasLine(recv)
  /\ LET parsed == ParsedLine(recv)
         result == Decode(parsed.line)
     IN  /\ recv' = parsed.rest
         /\ taken' = taken \o parsed.line \o <<Newline>>
         /\ received' = IF result.ok THEN Append(received, result.cmd) ELSE received
  /\ UNCHANGED <<send, stream, sent, encoded>>

Next ==
  \/ \E cmd \in Sendable : SendCommand(cmd)
  \/ \E n \in 0 .. Remaining(send) : Flush(n)
  \/ \E n \in 1 .. Len(stream) : Drain(n)
  \/ TakeLine

Spec == Init /\ [][Next]_vars

-----------------------------------------------------------------------------
(* Properties.                                                             *)

\* The buffers are strings of bytes with an offset into them.
TypeOK ==
  /\ send \in Buffers
  /\ recv \in Buffers
  /\ stream \in Seq(Bytes)
  /\ encoded \in Seq(Bytes)
  /\ taken \in Seq(Bytes)

\* Every byte that was encoded is, once and in order, in a line, in the
\* receive buffer, on its way, or in the send buffer: partial writes, partial
\* reads, clearing and compaction lose, repeat or reorder nothing
\* (io_helper.cpp, line_parser.cpp).
StreamExact == taken \o Unread(recv) \o stream \o Unread(send) = encoded

\* A command that has its arguments, none of them empty and none with a
\* separator in it.
WellFormed(cmd) ==
  /\ Len(cmd.args) = Arity[cmd.name]
  /\ \A i \in DOMAIN cmd.args :
       cmd.args[i] # <<>> /\ \A j \in DOMAIN cmd.args[i] : cmd.args[i][j] # Return

\* What decoding the lines of cmds one by one comes to, in order.
Results(cmds) == [i \in DOMAIN cmds |-> Decode(LineOf(cmds[i]))]

\* The commands among the first k results.
Decoded(results) ==
  LET upto[k \in 0 .. Len(results)] ==
        IF k = 0 THEN <<>>
        ELSE IF results[k].ok THEN Append(upto[k - 1], results[k].cmd)
        ELSE upto[k - 1]
  IN  upto

\* However the stream is cut, the receiver decodes what one would decode line
\* by line, in order; a well-formed command arrives as it was sent; and what
\* arrives is well-formed, so that the server can relay an argument of it as
\* one argument of one line (encode(), decode(), parse_line()).
ReceivedAsSent ==
  /\ \E k \in 0 .. Len(sent) : received = Decoded(Results(sent))[k]
  /\ \A i \in DOMAIN sent :
       WellFormed(sent[i]) => Results(sent)[i] = [ok |-> TRUE, cmd |-> sent[i]]
  /\ \A i \in DOMAIN received : WellFormed(received[i])

\* The bytes a buffer is done with and still holds are fewer than the
\* threshold, or fewer than those it has to keep (compact_if_needed()).
HoldsLittle(b) == b.offset < CompactAt \/ b.offset < Remaining(b)

DoneBytesBounded == HoldsLittle(send) /\ HoldsLittle(recv)

=============================================================================
