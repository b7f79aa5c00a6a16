---------------------------- MODULE OffsetBuffer ----------------------------
(***************************************************************************)
(* The byte buffers of a connection: offset_buffer and its two kinds,      *)
(* send_buffer and recv_buffer (src/net/io_helper.cpp), and the line       *)
(* parser that works on them (src/protocol/line_parser.cpp).               *)
(*                                                                         *)
(* A buffer is a string and an offset into it: what lies before the offset *)
(* is done with.  It is cut away late, when everything is done with or     *)
(* when enough of it is.                                                   *)
(***************************************************************************)
EXTENDS Integers, Sequences

CONSTANTS
  Bytes,
  Newline,
  CompactAt     \* 8192 in the code; small here so that compaction happens

ASSUME BufferAssumption ==
  /\ Newline \in Bytes
  /\ CompactAt \in Nat \ {0}

Buffers == {b \in [buf : Seq(Bytes), offset : Nat] : b.offset <= Len(b.buf)}

EmptyBuffer == [buf |-> <<>>, offset |-> 0]

HasPending(b) == b.offset < Len(b.buf)

Remaining(b) == Len(b.buf) - b.offset

\* current_data() and the remaining() bytes behind it.
Unread(b) == SubSeq(b.buf, b.offset + 1, Len(b.buf))

Appended(b, bytes) == [buf |-> b.buf \o bytes, offset |-> b.offset]

Advance(b, n) == [buf |-> b.buf, offset |-> b.offset + n]

IsDone(b) == Len(b.buf) = b.offset

ClearIfDone(b) == IF IsDone(b) THEN EmptyBuffer ELSE b

\* Fault: the offset survives the cut.
CompactKeepsOffset(b) ==
  IF b.offset >= CompactAt /\ b.offset * 2 >= Len(b.buf)
    THEN [b EXCEPT !.buf = Unread(b)]
    ELSE b

CompactIfNeeded(b) ==
  IF b.offset >= CompactAt /\ b.offset * 2 >= Len(b.buf)
    THEN [buf |-> Unread(b), offset |-> 0]
    ELSE b

\* Where the first unread newline is.
NewlineAt(b) ==
  {i \in b.offset + 1 .. Len(b.buf) :
     b.buf[i] = Newline /\ \A j \in b.offset + 1 .. i - 1 : b.buf[j] # Newline}

HasLine(b) == NewlineAt(b) # {}

\* Fault: what lies before the offset is never cut away.
ParsedLineUncut(b) ==
  LET i == CHOOSE k \in NewlineAt(b) : TRUE
  IN  [line |-> SubSeq(b.buf, b.offset + 1, i - 1),
       rest |-> [buf |-> b.buf, offset |-> i]]

\* parse_line(): the line, without its newline, and the buffer after it.
ParsedLine(b) ==
  LET i == CHOOSE k \in NewlineAt(b) : TRUE
      past == [buf |-> b.buf, offset |-> i]
  IN  [line |-> SubSeq(b.buf, b.offset + 1, i - 1),
       rest |-> CompactIfNeeded(ClearIfDone(past))]

=============================================================================
