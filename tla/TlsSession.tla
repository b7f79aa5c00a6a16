----------------------------- MODULE TlsSession -----------------------------
(***************************************************************************)
(* One connection of the server under TLS: the handlers event_loop::run()  *)
(* calls for it (src/server/epoll_server.cpp), flush_send() and            *)
(* drain_recv() (src/net/io_helper.cpp) and the calls of tls_session       *)
(* (src/net/tls_session.cpp) they make, one step for each, so that the     *)
(* peer and the kernel move in between.                                    *)
(*                                                                         *)
(* OpenSSL, the kernel's socket buffers, level-triggered epoll and the     *)
(* peer are modelled from how the code uses them:                          *)
(*   - a call that would block reports what it waits for;                  *)
(*   - with SSL_MODE_ENABLE_PARTIAL_WRITE a write sends one record; when   *)
(*     the kernel does not take it, it stays in the SSL object and the     *)
(*     next call must offer at least its bytes again                       *)
(*     (SSL_MODE_ACCEPT_MOVING_WRITE_BUFFER: at any address);              *)
(*   - what a close_notify, the end of the stream or a reset make a call   *)
(*     return, as from_ssl_error() sorts it.                               *)
(***************************************************************************)
EXTENDS OffsetBuffer, FiniteSets

CONSTANTS
  RecordSize,   \* bytes a record holds
  OutCapacity,  \* records the kernel holds for the peer
  ReplySize,    \* bytes of a reply
  MaxReplies,   \* bound on the replies sent to this connection
  MaxSends      \* bound on the data records the peer sends

\* A record carries something, and so does a reply: encode() ends it with a
\* newline.
ASSUME SizesAssumption ==
  /\ RecordSize \in Nat \ {0}
  /\ ReplySize \in Nat \ {0}
  /\ OutCapacity \in Nat /\ MaxReplies \in Nat /\ MaxSends \in Nat

VARIABLES
  pc,           \* where the loop thread is with this connection
  event,        \* what epoll_wait() reported
  stage,        \* how far SSL_do_handshake() is; "done": handshake_done
  want,         \* want_read, want_write: "none", "read" or "write"
  peer_closed,  \* tls_session::peer_closed
  send, recv,   \* socket_info::send, ::recv
  armed,        \* EPOLLOUT is in socket_info::interest
  is_closed,    \* socket_info::is_closed; its unregister_command is queued
  record,       \* the record the SSL object could not write yet
  inq,          \* records the kernel holds for the server
  fin, rst,     \* the peer has shut down, has reset
  outq,         \* records the kernel holds for the peer
  peer,         \* the peer's side of the handshake
  sends,        \* data records the peer has sent
  appended,     \* history: bytes of all replies
  got,          \* history: bytes the peer has decrypted
  arrived,      \* history: lines the peer has sent
  executed      \* history: lines handle_execute() has taken

tls == <<stage, want, peer_closed, record>>
session == <<send, recv, armed, is_closed>>
network == <<inq, fin, rst, outq>>
history == <<appended, got, arrived, executed>>
vars == <<pc, event, tls, session, network, peer, sends, history>>

Init ==
  /\ pc = "wait" /\ event = {}
  /\ stage = "hello" /\ want = "none" /\ peer_closed = FALSE /\ record = <<>>
  /\ send = EmptyBuffer /\ recv = EmptyBuffer /\ armed = FALSE /\ is_closed = FALSE
  /\ inq = <<>> /\ fin = FALSE /\ rst = FALSE /\ outq = <<>>
  /\ peer = "start" /\ sends = 0
  /\ appended = <<>> /\ got = <<>> /\ arrived = 0 /\ executed = 0

At(place) == pc = place
Go(place) == pc' = place

Room == Len(outq) < OutCapacity
Incoming(kind) == inq # <<>> /\ Head(inq).kind = kind
Silence == inq = <<>>
Ended == Silence /\ fin

-----------------------------------------------------------------------------
(* The loop: epoll_wait(), work(), dispatch.                               *)

Ready ==
  (IF inq # <<>> \/ fin THEN {"IN"} ELSE {})
    \cup (IF fin THEN {"RDHUP"} ELSE {})
    \cup (IF armed /\ (Room \/ rst) THEN {"OUT"} ELSE {})
    \cup (IF rst THEN {"ERR"} ELSE {})

IsReadEvent == event \cap {"IN", "RDHUP"} # {}

\* epoll_wait() returns for an event here or because a thread has pushed a
\* command and signalled: a reply, or this session's own unregister_command.
Wait ==
  /\ At("wait")
  /\ event' = Ready
  /\ Ready # {} \/ is_closed \/ Len(appended) < MaxReplies * ReplySize
  /\ Go("work")
  /\ UNCHANGED <<tls, session, network, peer, sends, history>>

\* work() on a send_one_command or a broadcast: append_send().  The number
\* may have belonged to another connection when the reply was asked for, so
\* one can come at any time.
Reply ==
  /\ At("work")
  /\ ~is_closed
  /\ Len(appended) < MaxReplies * ReplySize
  /\ LET bytes == [i \in 1 .. ReplySize |-> Len(appended) + i]
     IN  /\ send' = Appended(send, bytes)
         /\ appended' = appended \o bytes
         /\ armed' = (armed \/ ~HasPending(send))
  /\ UNCHANGED <<pc, event, tls, recv, is_closed, network, peer, sends, got, arrived, executed>>

\* work() on the unregister_command: the session and its descriptor go.
Unregister ==
  /\ At("work")
  /\ is_closed
  /\ Go("gone")
  /\ UNCHANGED <<event, tls, session, network, peer, sends, history>>

Dispatch ==
  /\ At("work")
  /\ ~is_closed
  /\ Go(IF "ERR" \in event THEN "error"
        ELSE IF IsReadEvent THEN "recv"
        ELSE IF "OUT" \in event THEN "send" ELSE "wait")
  /\ UNCHANGED <<event, tls, session, network, peer, sends, history>>

\* What the loop calls after handle_recv() has returned true, and after
\* handle_send().
GoAfterRecv == Go(IF "OUT" \in event THEN "send" ELSE "exec")
GoAfterSend == Go(IF IsReadEvent THEN "exec" ELSE "wait")

-----------------------------------------------------------------------------
(* What the handlers share.                                                *)

\* handle_disconnect(): the unregister_command is queued once.
Disconnect == is_closed' = TRUE

\* Fault: only what the session waits for counts.
SyncInterestToTls(b) == armed' = (want' = "write")

\* sync_tls_interest(), the send buffer being b.
SyncInterest(b) == armed' = (HasPending(b) \/ want' = "write")

\* Fault: a call that succeeds leaves the flags of the one before.
ApplyStateLate(w) == want' = IF w = "none" THEN want ELSE w

\* apply_state().
ApplyState(w) == want' = w

-----------------------------------------------------------------------------
(* progress_tls_handshake(), first in handle_recv() and in handle_send().  *)

Handshaking == At("recv") \/ At("send")

\* Inside SSL_do_handshake(): as far as it gets without blocking.
HandshakeAdvances ==
  /\ Handshaking
  /\ \/ /\ stage = "hello" /\ Incoming("hello")
        /\ stage' = "flight" /\ inq' = Tail(inq) /\ outq' = outq
     \/ /\ stage = "flight" /\ Room /\ ~rst
        /\ stage' = "finished" /\ inq' = inq /\ outq' = Append(outq, [kind |-> "flight"])
     \/ /\ stage = "finished" /\ Incoming("finished")
        /\ stage' = "handshaken" /\ inq' = Tail(inq) /\ outq' = outq
  /\ UNCHANGED <<pc, event, want, peer_closed, record, session, fin, rst, peer, sends, history>>

\* It returns 1: handshake_done, and the handler goes on.
HandshakeDone ==
  /\ Handshaking
  /\ stage = "handshaken"
  /\ stage' = "done"
  /\ ApplyState("none")
  /\ SyncInterest(send)
  /\ Go(IF At("recv") THEN "drain" ELSE "flush")
  /\ UNCHANGED <<event, peer_closed, record, send, recv, is_closed, network, peer, sends, history>>

\* It would block: handle_recv() returns true, handle_send() returns.
HandshakeWaits ==
  /\ Handshaking
  /\ \/ stage \in {"hello", "finished"} /\ Silence /\ ~fin /\ ApplyState("read")
     \/ stage = "flight" /\ ~Room /\ ~rst /\ ApplyState("write")
  /\ SyncInterest(send)
  /\ IF At("recv") THEN GoAfterRecv ELSE GoAfterSend
  /\ UNCHANGED <<event, stage, peer_closed, record, send, recv, is_closed, network, peer, sends, history>>

\* It fails, or the peer has closed: handle_recv() returns false, so does not
\* go on to the other handlers; handle_send() does.
HandshakeFails ==
  /\ Handshaking
  /\ \/ /\ stage \in {"hello", "finished"}
        /\ inq # <<>> /\ Head(inq).kind # stage
        /\ UNCHANGED <<want, peer_closed>>
     \/ /\ Ended /\ stage \in {"hello", "finished"}
        /\ ApplyState("none")
        /\ peer_closed' = TRUE
     \/ /\ rst /\ stage = "flight"
        /\ ApplyState("none")
        /\ peer_closed' = TRUE
  /\ Disconnect
  /\ IF At("recv") THEN Go("wait") ELSE GoAfterSend
  /\ UNCHANGED <<event, stage, record, send, recv, armed, network, peer, sends, history>>

HandshakeBehind ==
  /\ Handshaking
  /\ stage = "done"
  /\ Go(IF At("recv") THEN "drain" ELSE "flush")
  /\ UNCHANGED <<event, tls, session, network, peer, sends, history>>

-----------------------------------------------------------------------------
(* drain_recv() and the rest of handle_recv().                             *)

ReadData ==
  /\ At("drain")
  /\ Incoming("data")
  /\ recv' = Appended(recv, Head(inq).bytes)
  /\ inq' = Tail(inq)
  /\ ApplyState("none")
  /\ UNCHANGED <<pc, event, stage, peer_closed, record, send, armed, is_closed, fin, rst, outq,
                 peer, sends, history>>

\* Nothing more for now.
ReadWaits ==
  /\ At("drain")
  /\ Silence /\ ~fin
  /\ ApplyState("read")
  /\ SyncInterest(send)
  /\ GoAfterRecv
  /\ UNCHANGED <<event, stage, peer_closed, record, send, recv, is_closed, network, peer, sends,
                 history>>

\* close_notify, the end of the stream (SSL_OP_IGNORE_UNEXPECTED_EOF) or a
\* reset: handle_close() finds the session closed, sends nothing, and
\* handle_recv() returns false, so that the lines that came with it are not
\* executed.  Its test for EPOLLRDHUP adds nothing: where the kernel reports
\* that, the read reaches the end of the stream.
ReadCloses ==
  /\ At("drain")
  /\ Incoming("bye") \/ Ended
  /\ peer_closed' = TRUE
  /\ ApplyState("none")
  /\ SyncInterest(send)
  /\ Disconnect
  /\ Go("wait")
  /\ UNCHANGED <<event, stage, record, send, recv, network, peer, sends, history>>

ReadFails ==
  /\ At("drain")
  /\ Incoming("garbage")
  /\ Disconnect
  /\ Go("wait")
  /\ UNCHANGED <<event, tls, send, recv, armed, network, peer, sends, history>>

-----------------------------------------------------------------------------
(* flush_send() and the rest of handle_send().                             *)

Offered == SubSeq(Unread(send), 1, IF Remaining(send) < RecordSize THEN Remaining(send) ELSE RecordSize)

\* SSL_write_ex() takes bytes: the offset moves behind them.
WriteTakes ==
  /\ At("flush")
  /\ HasPending(send)
  /\ Room /\ ~rst
  /\ LET bytes == IF record = <<>> THEN Offered ELSE record
     IN  /\ Len(bytes) <= Remaining(send)
         /\ outq' = Append(outq, [kind |-> "data", bytes |-> bytes])
         /\ send' = Advance(send, Len(bytes))
  /\ record' = <<>>
  /\ ApplyState("none")
  /\ UNCHANGED <<pc, event, stage, peer_closed, recv, armed, is_closed, inq, fin, rst, peer, sends,
                 history>>

\* Fault: the bytes of the record that waits count as sent.
WriteWaitsAdvanced ==
  /\ At("flush")
  /\ HasPending(send)
  /\ ~Room /\ ~rst
  /\ record' = IF record = <<>> THEN Offered ELSE record
  /\ ApplyState("write")
  /\ send' = CompactIfNeeded(Advance(send, Len(Offered)))
  /\ armed' = TRUE
  /\ GoAfterSend
  /\ UNCHANGED <<event, stage, peer_closed, recv, is_closed, network, peer, sends, history>>

\* The kernel takes nothing more: EPOLLOUT will tell.
WriteWaits ==
  /\ At("flush")
  /\ HasPending(send)
  /\ ~Room /\ ~rst
  /\ record' = IF record = <<>> THEN Offered ELSE record
  /\ ApplyState("write")
  /\ send' = CompactIfNeeded(send)
  /\ SyncInterest(send)
  /\ GoAfterSend
  /\ UNCHANGED <<event, stage, peer_closed, recv, is_closed, network, peer, sends, history>>

\* The connection is reset, or the write is not the one to be retried
\* (SSL_R_BAD_WRITE_RETRY).
WriteFails ==
  /\ At("flush")
  /\ HasPending(send)
  /\ \/ rst /\ peer_closed' = TRUE /\ ApplyState("none")
     \/ ~rst /\ Len(record) > Remaining(send) /\ UNCHANGED <<peer_closed, want>>
  /\ Disconnect
  /\ GoAfterSend
  /\ UNCHANGED <<event, stage, record, send, recv, armed, network, peer, sends, history>>

FlushDone ==
  /\ At("flush")
  /\ ~HasPending(send)
  /\ send' = EmptyBuffer
  /\ want' = want
  /\ SyncInterest(EmptyBuffer)
  /\ GoAfterSend
  /\ UNCHANGED <<event, stage, peer_closed, record, recv, is_closed, network, peer, sends, history>>

-----------------------------------------------------------------------------
(* handle_execute() and handle_client_error().                             *)

\* Fault: one line for each event.
ExecuteOnce ==
  /\ At("exec")
  /\ HasLine(recv)
  /\ recv' = ParsedLine(recv).rest
  /\ executed' = executed + 1
  /\ Go("wait")
  /\ UNCHANGED <<event, tls, send, armed, is_closed, network, peer, sends, appended, got, arrived>>

\* The loop calls handle_execute() until it finds no line.
Execute ==
  /\ At("exec")
  /\ HasLine(recv)
  /\ recv' = ParsedLine(recv).rest
  /\ executed' = executed + 1
  /\ UNCHANGED <<pc, event, tls, send, armed, is_closed, network, peer, sends, appended, got, arrived>>

ExecuteDone ==
  /\ At("exec")
  /\ ~HasLine(recv)
  /\ Go("wait")
  /\ UNCHANGED <<event, tls, session, network, peer, sends, history>>

\* Its SSL_shutdown() has nowhere to write to.
HandleClientError ==
  /\ At("error")
  /\ Disconnect
  /\ Go("wait")
  /\ UNCHANGED <<event, tls, send, recv, armed, network, peer, sends, history>>

Loop ==
  \/ Wait \/ Reply \/ Unregister \/ Dispatch
  \/ HandshakeAdvances \/ HandshakeDone \/ HandshakeWaits \/ HandshakeFails \/ HandshakeBehind
  \/ ReadData \/ ReadWaits \/ ReadCloses \/ ReadFails
  \/ WriteTakes \/ WriteWaits \/ WriteFails \/ FlushDone
  \/ Execute \/ ExecuteDone \/ HandleClientError

-----------------------------------------------------------------------------
(* The peer.                                                               *)

PeerUp == ~fin /\ ~rst /\ pc # "gone"

PeerSends(rec) == inq' = Append(inq, rec)

PeerHello ==
  /\ PeerUp /\ peer = "start"
  /\ peer' = "greeted"
  /\ PeerSends([kind |-> "hello"])
  /\ UNCHANGED <<pc, event, tls, session, fin, rst, outq, sends, history>>

\* It reads what the kernel holds for it; the flight it answers at once.
PeerReads ==
  /\ ~rst /\ pc # "gone"
  /\ outq # <<>>
  /\ outq' = Tail(outq)
  /\ IF Head(outq).kind = "flight"
       THEN /\ peer' = "up"
            /\ inq' = IF fin THEN inq ELSE Append(inq, [kind |-> "finished"])
            /\ got' = got
       ELSE /\ got' = got \o Head(outq).bytes
            /\ UNCHANGED <<peer, inq>>
  /\ UNCHANGED <<pc, event, tls, session, fin, rst, sends, appended, arrived, executed>>

\* Part of a line, a line, the end of one and a whole one.
Chunks == {<<1>>, <<1, Newline>>, <<Newline, 1, Newline>>}

PeerData(bytes) ==
  /\ PeerUp /\ peer = "up"
  /\ sends < MaxSends
  /\ sends' = sends + 1
  /\ PeerSends([kind |-> "data", bytes |-> bytes])
  /\ arrived' = arrived + Cardinality({i \in DOMAIN bytes : bytes[i] = Newline})
  /\ UNCHANGED <<pc, event, tls, session, fin, rst, outq, peer, appended, got, executed>>

\* What is no TLS record, or one that does not decrypt.
PeerGarbage ==
  /\ PeerUp
  /\ sends < MaxSends
  /\ sends' = MaxSends
  /\ PeerSends([kind |-> "garbage"])
  /\ UNCHANGED <<pc, event, tls, session, fin, rst, outq, peer, history>>

\* SSL_shutdown() and close(), or a close() alone.
PeerCloses ==
  /\ PeerUp
  /\ fin' = TRUE
  /\ inq' \in {inq, IF peer = "up" THEN Append(inq, [kind |-> "bye"]) ELSE inq}
  /\ UNCHANGED <<pc, event, tls, session, rst, outq, peer, sends, history>>

\* Both ways are gone, and what the kernel holds with them.
PeerResets ==
  /\ ~rst /\ pc # "gone"
  /\ rst' = TRUE /\ fin' = TRUE
  /\ inq' = <<>> /\ outq' = <<>>
  /\ UNCHANGED <<pc, event, tls, session, peer, sends, history>>

Peer ==
  \/ PeerHello \/ PeerReads \/ (\E bytes \in Chunks : PeerData(bytes))
  \/ PeerGarbage \/ PeerCloses \/ PeerResets

Next == Loop \/ Peer

\* The loop thread runs; the peer reads what is there for it.
Spec == Init /\ [][Next]_vars /\ WF_vars(Loop) /\ WF_vars(PeerReads)

-----------------------------------------------------------------------------
(* Properties.                                                             *)

\* The bytes of replies a record carries; the flight carries none.
Carried(rec) == IF rec.kind = "data" THEN rec.bytes ELSE <<>>

\* The replies can be cut so that the peer has got the first piece, every
\* record on its way carries the next one, and the last piece is left to be
\* sent: a partial write, a write that has to be retried and the compaction in
\* between lose, repeat and reorder no byte (flush_send()).  After a reset the
\* rest goes nowhere, but what the peer has got is still how the replies begin.
RepliesExact ==
  \E cut \in [0 .. Len(outq) -> 0 .. Len(appended)] :
    /\ got = SubSeq(appended, 1, cut[0])
    /\ \A i \in 1 .. Len(outq) :
         /\ cut[i - 1] <= cut[i]
         /\ Carried(outq[i]) = SubSeq(appended, cut[i - 1] + 1, cut[i])
    /\ rst \/ Unread(send) = SubSeq(appended, cut[Len(outq)] + 1, Len(appended))

\* A write that has to be retried offers the bytes of the record that waits,
\* whatever was appended or cut away in between (tls_session::write()).
RetryOffersRecord ==
  record # <<>> =>
    Len(record) <= Remaining(send) /\ SubSeq(Unread(send), 1, Len(record)) = record

\* When the loop waits, EPOLLOUT is armed if bytes wait to be sent, and it is
\* armed only for bytes or for the handshake's flight: the level-triggered
\* loop neither forgets the bytes nor spins on a writable socket it has
\* nothing for (sync_tls_interest(), append_send(), apply_state()).
ArmedToWrite ==
  At("wait") /\ ~is_closed =>
    /\ HasPending(send) => armed
    /\ armed => HasPending(send) \/ stage = "flight"

\* A peer that reads gets every reply, or the session is closed.
RepliesArrive ==
  \A n \in 1 .. MaxReplies * ReplySize :
    (stage = "done" /\ Len(appended) = n) ~> (Len(got) >= n \/ is_closed)

\* Every line a peer sends is executed, or the session is closed: the loop
\* does not go back to wait with a line it has read, which epoll would not
\* report again (event_loop::run(), handle_recv(), handle_execute()).
LinesAreExecuted ==
  \A n \in 1 .. 2 * MaxSends :
    (stage = "done" /\ arrived = n) ~> (executed >= n \/ is_closed)

=============================================================================
