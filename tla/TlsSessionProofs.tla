-------------------------- MODULE TlsSessionProofs --------------------------
(***************************************************************************)
(* Proofs about TlsSession, for records, replies and kernel buffers of any *)
(* size, any threshold of compaction and any number of replies.            *)
(***************************************************************************)
EXTENDS TlsSession, SequenceTheorems, TLAPS

-----------------------------------------------------------------------------
(* Pieces of a sequence: what lies behind its first a elements, up to its  *)
(* first b.                                                                *)

Piece(s, a, b) == SubSeq(s, a + 1, b)

LEMMA PieceElements ==
  ASSUME NEW S, NEW s \in Seq(S), NEW a \in 0 .. Len(s), NEW b \in a .. Len(s)
  PROVE  /\ Piece(s, a, b) \in Seq(S)
         /\ Len(Piece(s, a, b)) = b - a
         /\ \A i \in 1 .. b - a : Piece(s, a, b)[i] = s[a + i]
<1>1. \A i \in a + 1 .. b : s[i] \in S
  BY ElementOfSeq
<1>2. a + 1 \in 1 .. Len(s) + 1 /\ b \in (a + 1) - 1 .. Len(s)
  OBVIOUS
<1> QED
  BY <1>1, <1>2, SubSeqProperties DEF Piece

\* A piece is known by its length and its elements.
LEMMA IsPiece ==
  ASSUME NEW S, NEW s \in Seq(S), NEW a \in 0 .. Len(s), NEW b \in a .. Len(s),
         NEW t \in Seq(S), Len(t) = b - a, \A i \in 1 .. b - a : t[i] = s[a + i]
  PROVE  t = Piece(s, a, b)
<1>1. /\ Piece(s, a, b) \in Seq(S)
      /\ Len(Piece(s, a, b)) = b - a
      /\ \A i \in 1 .. b - a : Piece(s, a, b)[i] = s[a + i]
  BY PieceElements
<1> HIDE DEF Piece
<1> QED
  BY <1>1, SeqEqual

LEMMA PieceOfPiece ==
  ASSUME NEW S, NEW s \in Seq(S), NEW a \in 0 .. Len(s), NEW b \in a .. Len(s),
         NEW c \in 0 .. b - a, NEW d \in c .. b - a
  PROVE  Piece(Piece(s, a, b), c, d) = Piece(s, a + c, a + d)
<1> DEFINE p == Piece(s, a, b)
           q == Piece(p, c, d)
<1>1. /\ p \in Seq(S)
      /\ Len(p) = b - a
      /\ \A i \in 1 .. b - a : p[i] = s[a + i]
  BY PieceElements
<1> HIDE DEF p
<1>2. /\ q \in Seq(S)
      /\ Len(q) = d - c
      /\ \A i \in 1 .. d - c : q[i] = p[c + i]
  <2>1. c \in 0 .. Len(p) /\ d \in c .. Len(p)
    BY <1>1
  <2> QED
    BY <1>1, <2>1, PieceElements, ZenonT(60)
<1> HIDE DEF q
<1>3. a + c \in 0 .. Len(s) /\ a + d \in a + c .. Len(s) /\ (a + d) - (a + c) = d - c
  OBVIOUS
<1>4. ASSUME NEW i \in 1 .. d - c PROVE q[i] = s[(a + c) + i]
  <2>1. c + i \in 1 .. b - a /\ a + (c + i) = (a + c) + i
    OBVIOUS
  <2> QED
    BY <1>1, <1>2, <2>1
<1>5. q = Piece(s, a + c, a + d)
  <2> DEFINE m == a + c
             n == a + d
  <2> HIDE DEF m, n
  <2>1. m \in 0 .. Len(s) /\ n \in m .. Len(s) /\ n - m = d - c
    BY <1>3 DEF m, n
  <2>2. \A i \in 1 .. n - m : q[i] = s[m + i]
    BY <1>4, <2>1 DEF m
  <2>3. q = Piece(s, m, n)
    BY <1>2, <2>1, <2>2, IsPiece, ZenonT(60)
  <2> QED
    BY <2>3 DEF m, n
<1> QED
  BY <1>5 DEF p, q

\* What is appended to a sequence changes no piece of it, and joins the last.
LEMMA PieceOfJoined ==
  ASSUME NEW S, NEW s \in Seq(S), NEW t \in Seq(S), NEW a \in 0 .. Len(s)
  PROVE  /\ \A b \in a .. Len(s) : Piece(s \o t, a, b) = Piece(s, a, b)
         /\ Piece(s \o t, a, Len(s) + Len(t)) = Piece(s, a, Len(s)) \o t
<1> DEFINE st == s \o t
           last == Piece(s, a, Len(s))
           end == last \o t
<1>1. /\ st \in Seq(S)
      /\ Len(st) = Len(s) + Len(t)
      /\ \A i \in 1 .. Len(s) + Len(t) :
           st[i] = IF i <= Len(s) THEN s[i] ELSE t[i - Len(s)]
  BY ConcatProperties
<1>0. Len(s) \in Nat /\ Len(t) \in Nat
  OBVIOUS
<1> HIDE DEF st
<1>2. ASSUME NEW b \in a .. Len(s) PROVE Piece(s, a, b) = Piece(st, a, b)
  <2>1. /\ Piece(s, a, b) \in Seq(S)
        /\ Len(Piece(s, a, b)) = b - a
        /\ \A i \in 1 .. b - a : Piece(s, a, b)[i] = s[a + i]
    BY PieceElements
  <2>2. a \in 0 .. Len(st) /\ b \in a .. Len(st)
    BY <1>0, <1>1
  <2>3. \A i \in 1 .. b - a : Piece(s, a, b)[i] = st[a + i]
    BY <1>0, <1>1, <2>1
  <2> HIDE DEF Piece
  <2> QED
    BY <1>1, <2>1, <2>2, <2>3, IsPiece
<1>3. /\ last \in Seq(S)
      /\ Len(last) = Len(s) - a
      /\ \A i \in 1 .. Len(s) - a : last[i] = s[a + i]
  <2>1. Len(s) \in a .. Len(s)
    BY <1>0
  <2> QED
    BY <2>1, PieceElements
<1> HIDE DEF last
<1>4. /\ end \in Seq(S)
      /\ Len(end) = Len(last) + Len(t)
      /\ \A i \in 1 .. Len(last) + Len(t) :
           end[i] = IF i <= Len(last) THEN last[i] ELSE t[i - Len(last)]
  BY <1>3, ConcatProperties
<1> HIDE DEF end
<1>5. end = Piece(st, a, Len(st))
  <2>1. a \in 0 .. Len(st) /\ Len(st) \in a .. Len(st)
    BY <1>0, <1>1
  <2>2. Len(end) = Len(st) - a
    BY <1>0, <1>1, <1>3, <1>4
  <2>3. ASSUME NEW i \in 1 .. Len(st) - a PROVE end[i] = st[a + i]
    <3>1. CASE i <= Len(s) - a
      <4>1. end[i] = last[i] /\ last[i] = s[a + i]
        BY <1>0, <1>1, <1>3, <1>4, <3>1
      <4>2. a + i \in 1 .. Len(s) + Len(t) /\ a + i <= Len(s)
        BY <1>0, <3>1
      <4> QED
        BY <1>1, <4>1, <4>2
    <3>2. CASE ~(i <= Len(s) - a)
      <4>1. end[i] = t[i - (Len(s) - a)]
        BY <1>0, <1>1, <1>3, <1>4, <3>2
      <4>2. st[a + i] = t[(a + i) - Len(s)]
        BY <1>0, <1>1, <3>2
      <4>3. i - (Len(s) - a) = (a + i) - Len(s)
        BY <1>0
      <4> QED
        BY <4>1, <4>2, <4>3
    <3> QED
      BY <3>1, <3>2
  <2> QED
    BY <1>1, <1>4, <2>1, <2>2, <2>3, IsPiece
<1> QED
  BY <1>1, <1>2, <1>5 DEF st, last, end

\* Two pieces next to each other are one.
LEMMA PiecesJoin ==
  ASSUME NEW S, NEW s \in Seq(S), NEW a \in 0 .. Len(s), NEW b \in a .. Len(s),
         NEW c \in b .. Len(s)
  PROVE  Piece(s, a, b) \o Piece(s, b, c) = Piece(s, a, c)
<1> DEFINE p == Piece(s, a, b)
           q == Piece(s, b, c)
           pq == p \o q
<1>1. /\ p \in Seq(S)
      /\ Len(p) = b - a
      /\ \A i \in 1 .. b - a : p[i] = s[a + i]
  BY PieceElements
<1>2. /\ q \in Seq(S)
      /\ Len(q) = c - b
      /\ \A i \in 1 .. c - b : q[i] = s[b + i]
  <2>1. b \in 0 .. Len(s)
    OBVIOUS
  <2> QED
    BY <2>1, PieceElements
<1> HIDE DEF p, q
<1>3. /\ pq \in Seq(S)
      /\ Len(pq) = Len(p) + Len(q)
      /\ \A i \in 1 .. Len(p) + Len(q) :
           pq[i] = IF i <= Len(p) THEN p[i] ELSE q[i - Len(p)]
  BY <1>1, <1>2, ConcatProperties
<1> HIDE DEF pq
<1>4. Len(pq) = c - a /\ c \in a .. Len(s)
  BY <1>1, <1>2, <1>3
<1>5. ASSUME NEW i \in 1 .. c - a PROVE pq[i] = s[a + i]
  <2>1. CASE i <= b - a
    BY <1>1, <1>2, <1>3, <2>1
  <2>2. CASE ~(i <= b - a)
    <3>1. pq[i] = q[i - (b - a)] /\ i - (b - a) \in 1 .. c - b
      BY <1>1, <1>2, <1>3, <2>2
    <3>2. b + (i - (b - a)) = a + i
      OBVIOUS
    <3> QED
      BY <1>2, <3>1, <3>2
  <2> QED
    BY <2>1, <2>2
<1>6. pq = Piece(s, a, c)
  BY <1>3, <1>4, <1>5, IsPiece
<1> QED
  BY <1>6 DEF pq, p, q

-----------------------------------------------------------------------------
(* The operations on the send buffer.  The bytes of replies are numbers:   *)
(* their places in all that was ever appended.                             *)

SendBuffers == {b \in [buf : Seq(Nat), offset : Nat] : b.offset <= Len(b.buf)}

LEMMA UnreadOf ==
  ASSUME NEW b \in SendBuffers
  PROVE  /\ Unread(b) = Piece(b.buf, b.offset, Len(b.buf))
         /\ Unread(b) \in Seq(Nat)
         /\ Len(Unread(b)) = Remaining(b)
         /\ Remaining(b) \in Nat
         /\ HasPending(b) <=> Remaining(b) > 0
<1>1. /\ b.buf \in Seq(Nat)
      /\ b.offset \in 0 .. Len(b.buf)
      /\ Len(b.buf) \in b.offset .. Len(b.buf)
  BY DEF SendBuffers
<1>2. Unread(b) = Piece(b.buf, b.offset, Len(b.buf))
  BY DEF Unread, Piece
<1>3. Remaining(b) \in Nat /\ (HasPending(b) <=> Remaining(b) > 0)
  BY <1>1 DEF Remaining, HasPending
<1>4. /\ Piece(b.buf, b.offset, Len(b.buf)) \in Seq(Nat)
      /\ Len(Piece(b.buf, b.offset, Len(b.buf))) = Len(b.buf) - b.offset
  BY <1>1, PieceElements
<1> QED
  BY <1>2, <1>3, <1>4 DEF Remaining

\* append_send(): the reply comes behind what is unread.
LEMMA AppendedUnread ==
  ASSUME NEW b \in SendBuffers, NEW bytes \in Seq(Nat)
  PROVE  /\ Appended(b, bytes) \in SendBuffers
         /\ Unread(Appended(b, bytes)) = Unread(b) \o bytes
         /\ Remaining(Appended(b, bytes)) = Remaining(b) + Len(bytes)
<1>1. /\ b.buf \in Seq(Nat)
      /\ b.offset \in 0 .. Len(b.buf)
      /\ b.offset \in Nat
  BY DEF SendBuffers
<1>2. /\ b.buf \o bytes \in Seq(Nat)
      /\ Len(b.buf \o bytes) = Len(b.buf) + Len(bytes)
      /\ Len(bytes) \in Nat
  BY <1>1, ConcatProperties
<1>3. Appended(b, bytes) \in SendBuffers
  BY <1>1, <1>2 DEF Appended, SendBuffers
<1>4. Piece(b.buf \o bytes, b.offset, Len(b.buf) + Len(bytes))
        = Piece(b.buf, b.offset, Len(b.buf)) \o bytes
  BY <1>1, PieceOfJoined
<1>5. Unread(Appended(b, bytes)) = Piece(b.buf \o bytes, b.offset, Len(b.buf) + Len(bytes))
  BY <1>2, <1>3, UnreadOf DEF Appended
<1>6. Remaining(Appended(b, bytes)) = Remaining(b) + Len(bytes)
  BY <1>1, <1>2 DEF Appended, Remaining
<1> QED
  BY <1>3, <1>4, <1>5, <1>6, UnreadOf

\* advance(): what was written is no longer unread.
LEMMA AdvancedUnread ==
  ASSUME NEW b \in SendBuffers, NEW n \in 0 .. Remaining(b)
  PROVE  /\ Advance(b, n) \in SendBuffers
         /\ Unread(Advance(b, n)) = Piece(Unread(b), n, Remaining(b))
         /\ Remaining(Advance(b, n)) = Remaining(b) - n
<1> DEFINE m == Len(b.buf)
           o == b.offset
<1>1. b.buf \in Seq(Nat) /\ o \in 0 .. m /\ m \in o .. m /\ Remaining(b) = m - o
  BY DEF SendBuffers, Remaining
<1>2. Advance(b, n) \in SendBuffers /\ Remaining(Advance(b, n)) = Remaining(b) - n
  BY <1>1 DEF Advance, SendBuffers, Remaining
<1>3. Unread(Advance(b, n)) = Piece(b.buf, o + n, m)
  BY <1>2, UnreadOf DEF Advance
<1>4. Unread(b) = Piece(b.buf, o, m)
  BY UnreadOf
<1>5. n \in 0 .. m - o /\ m - o \in n .. m - o /\ o + (m - o) = m
  BY <1>1
<1> HIDE DEF m, o
<1>6. Piece(Piece(b.buf, o, m), n, m - o) = Piece(b.buf, o + n, o + (m - o))
  BY <1>1, <1>5, PieceOfPiece, SMTT(30) DEF m
<1> QED
  BY <1>1, <1>2, <1>3, <1>4, <1>5, <1>6

\* compact_if_needed(): what is unread stays.
LEMMA CompactedUnread ==
  ASSUME NEW b \in SendBuffers
  PROVE  /\ CompactIfNeeded(b) \in SendBuffers
         /\ Unread(CompactIfNeeded(b)) = Unread(b)
         /\ Remaining(CompactIfNeeded(b)) = Remaining(b)
<1> DEFINE cut == [buf |-> Unread(b), offset |-> 0]
<1>1. Unread(b) \in Seq(Nat) /\ Len(Unread(b)) = Remaining(b) /\ Remaining(b) \in Nat
  BY UnreadOf
<1>2. cut \in SendBuffers /\ Remaining(cut) = Remaining(b)
  BY <1>1 DEF SendBuffers, Remaining
<1>3. Unread(cut) = Unread(b)
  <2>1. Unread(cut) = Piece(Unread(b), 0, Len(Unread(b)))
    BY <1>2, UnreadOf
  <2>2. 0 \in 0 .. Len(Unread(b)) /\ Len(Unread(b)) \in 0 .. Len(Unread(b))
    BY <1>1
  <2>3. \A i \in 1 .. Len(Unread(b)) - 0 : Unread(b)[i] = Unread(b)[0 + i]
    BY <1>1
  <2>4. Len(Unread(b)) = Len(Unread(b)) - 0
    BY <1>1
  <2> HIDE DEF cut
  <2>5. Unread(b) = Piece(Unread(b), 0, Len(Unread(b)))
    BY <1>1, <2>2, <2>3, <2>4, IsPiece
  <2> QED
    BY <2>1, <2>5
<1> QED
  BY <1>2, <1>3 DEF CompactIfNeeded

LEMMA NothingUnread ==
  /\ EmptyBuffer \in SendBuffers
  /\ Unread(EmptyBuffer) = <<>>
  /\ Remaining(EmptyBuffer) = 0
<1>1. EmptyBuffer \in SendBuffers /\ Remaining(EmptyBuffer) = 0
  BY EmptySeq DEF EmptyBuffer, SendBuffers, Remaining
<1>2. Unread(EmptyBuffer) \in Seq(Nat) /\ Len(Unread(EmptyBuffer)) = 0
  BY <1>1, UnreadOf
<1> QED
  BY <1>1, <1>2, EmptySeq

-----------------------------------------------------------------------------
(* Types, as far as the proofs need them.                                  *)

OutRecords == [kind : {"flight"}] \cup [kind : {"data"}, bytes : Seq(Nat)]

SendType ==
  /\ send \in SendBuffers
  /\ record \in Seq(Nat)
  /\ outq \in Seq(OutRecords)
  /\ appended \in Seq(Nat)
  /\ got \in Seq(Nat)

\* What the sending side depends on.
sending == <<send, record, outq, appended, got>>

\* The actions that leave it alone.
Elsewhere ==
  \/ Wait \/ Unregister \/ Dispatch
  \/ HandshakeDone \/ HandshakeWaits \/ HandshakeFails \/ HandshakeBehind
  \/ ReadData \/ ReadWaits \/ ReadCloses \/ ReadFails
  \/ WriteFails \/ Execute \/ ExecuteDone \/ HandleClientError
  \/ PeerHello \/ (\E bytes \in Chunks : PeerData(bytes))
  \/ PeerGarbage \/ PeerCloses
  \/ UNCHANGED vars

LEMMA ElsewhereLeaves == Elsewhere => UNCHANGED <<sending, rst>>
<1> USE DEF sending, tls, session, network, history
<1>1. CASE Wait \/ Unregister \/ Dispatch \/ UNCHANGED vars
  BY <1>1 DEF Wait, Unregister, Dispatch, vars
<1>2. CASE HandshakeDone \/ HandshakeWaits \/ HandshakeFails \/ HandshakeBehind
  BY <1>2 DEF HandshakeDone, HandshakeWaits, HandshakeFails, HandshakeBehind
<1>3. CASE ReadData \/ ReadWaits \/ ReadCloses \/ ReadFails
  BY <1>3 DEF ReadData, ReadWaits, ReadCloses, ReadFails
<1>4. CASE WriteFails \/ Execute \/ ExecuteDone \/ HandleClientError
  BY <1>4 DEF WriteFails, Execute, ExecuteDone, HandleClientError
<1>5. CASE PeerHello \/ (\E bytes \in Chunks : PeerData(bytes))
  BY <1>5 DEF PeerHello, PeerData
<1>6. CASE PeerGarbage \/ PeerCloses
  BY <1>6 DEF PeerGarbage, PeerCloses
<1> QED
  BY <1>1, <1>2, <1>3, <1>4, <1>5, <1>6 DEF Elsewhere

LEMMA NextCases ==
  [Next]_vars <=> \/ Elsewhere
                  \/ Reply \/ HandshakeAdvances
                  \/ WriteTakes \/ WriteWaits \/ FlushDone
                  \/ PeerReads \/ PeerResets
  BY DEF Next, Loop, Peer, Elsewhere

\* The bytes a reply appends.
NewBytes == [i \in 1 .. ReplySize |-> Len(appended) + i]

LEMMA NewBytesType ==
  SendType => NewBytes \in Seq(Nat) /\ Len(NewBytes) = ReplySize
<1> SUFFICES ASSUME SendType PROVE NewBytes \in Seq(Nat) /\ Len(NewBytes) = ReplySize
  OBVIOUS
<1>1. NewBytes \in [1 .. ReplySize -> Nat] /\ ReplySize \in Nat
  BY SizesAssumption DEF NewBytes, SendType
<1> QED
  BY <1>1

\* What a write takes: the record that waits, or the first unread bytes.
Written == IF record = <<>> THEN Offered ELSE record

LEMMA OfferedIsNext ==
  ASSUME SendType
  PROVE  /\ Offered \in Seq(Nat)
         /\ Len(Offered) \in 0 .. Remaining(send)
         /\ Offered = Piece(Unread(send), 0, Len(Offered))
         /\ HasPending(send) => Len(Offered) > 0
<1> DEFINE n == IF Remaining(send) < RecordSize THEN Remaining(send) ELSE RecordSize
<1>1. /\ Unread(send) \in Seq(Nat)
      /\ Len(Unread(send)) = Remaining(send)
      /\ Remaining(send) \in Nat
      /\ HasPending(send) <=> Remaining(send) > 0
  BY UnreadOf DEF SendType
<1>2. n \in 0 .. Len(Unread(send)) /\ n - 0 = n /\ (HasPending(send) => n > 0)
  BY <1>1, SizesAssumption
<1>3. Offered = Piece(Unread(send), 0, n)
  BY DEF Offered, Piece
<1> HIDE DEF n
<1>4. 0 \in 0 .. Len(Unread(send)) /\ n \in 0 .. Len(Unread(send))
  BY <1>1, <1>2
<1>5. /\ Piece(Unread(send), 0, n) \in Seq(Nat)
      /\ Len(Piece(Unread(send), 0, n)) = n - 0
  BY <1>1, <1>4, PieceElements
<1> QED
  BY <1>1, <1>2, <1>3, <1>5

LEMMA WrittenIsNext ==
  ASSUME SendType, RetryOffersRecord
  PROVE  /\ Written \in Seq(Nat)
         /\ Len(Written) \in 0 .. Remaining(send)
         /\ Written = Piece(Unread(send), 0, Len(Written))
<1>1. CASE record = <<>>
  BY <1>1, OfferedIsNext DEF Written
<1>2. CASE record # <<>>
  <2>1. record \in Seq(Nat) /\ Len(record) <= Remaining(send)
        /\ record = Piece(Unread(send), 0, Len(record))
    BY <1>2 DEF SendType, RetryOffersRecord, Piece
  <2>2. Remaining(send) \in Nat
    BY UnreadOf DEF SendType
  <2> QED
    BY <1>2, <2>1, <2>2 DEF Written
<1> QED
  BY <1>1, <1>2

LEMMA SendTypeInit == Init => SendType
  BY NothingUnread, EmptySeq DEF Init, SendType

LEMMA SendTypeStep == SendType /\ [Next]_vars => SendType'
<1> SUFFICES ASSUME SendType, [Next]_vars PROVE SendType'
  OBVIOUS
<1>1. CASE UNCHANGED sending
  BY <1>1 DEF SendType, sending
<1>2. CASE Reply
  <2>1. /\ send' = Appended(send, NewBytes)
        /\ appended' = appended \o NewBytes
        /\ UNCHANGED <<record, outq, got>>
    BY <1>2 DEF Reply, NewBytes, tls, network
  <2> QED
    BY <2>1, NewBytesType, AppendedUnread, ConcatProperties DEF SendType
<1>3. CASE HandshakeAdvances
  <2>1. /\ UNCHANGED <<send, record, appended, got>>
        /\ \/ UNCHANGED outq
           \/ outq' = Append(outq, [kind |-> "flight"])
    BY <1>3 DEF HandshakeAdvances, session, history
  <2>2. [kind |-> "flight"] \in OutRecords
    BY DEF OutRecords
  <2> QED
    BY <2>1, <2>2, AppendProperties DEF SendType
<1>4. CASE WriteTakes
  <2>1. /\ Len(Written) <= Remaining(send)
        /\ outq' = Append(outq, [kind |-> "data", bytes |-> Written])
        /\ send' = Advance(send, Len(Written))
        /\ record' = <<>>
        /\ UNCHANGED <<appended, got>>
    BY <1>4 DEF WriteTakes, Written, history
  <2>2. Written \in Seq(Nat)
    BY OfferedIsNext DEF Written, SendType
  <2>3. [kind |-> "data", bytes |-> Written] \in OutRecords
    BY <2>2 DEF OutRecords
  <2>4. Len(Written) \in 0 .. Remaining(send)
    BY <2>1, <2>2, UnreadOf DEF SendType
  <2>5. send' \in SendBuffers
    BY <2>1, <2>4, AdvancedUnread DEF SendType
  <2>6. outq' \in Seq(OutRecords)
    BY <2>1, <2>3, AppendProperties DEF SendType
  <2> QED
    BY <2>1, <2>5, <2>6, EmptySeq DEF SendType
<1>5. CASE WriteWaits
  <2>1. /\ record' = Written
        /\ send' = CompactIfNeeded(send)
        /\ UNCHANGED <<outq, appended, got>>
    BY <1>5 DEF WriteWaits, Written, network, history
  <2>2. Written \in Seq(Nat)
    BY OfferedIsNext DEF Written, SendType
  <2> QED
    BY <2>1, <2>2, CompactedUnread DEF SendType
<1>6. CASE FlushDone
  BY <1>6, NothingUnread DEF FlushDone, SendType, network, history
<1>7. CASE PeerReads
  <2>1. /\ outq # <<>>
        /\ outq' = Tail(outq)
        /\ UNCHANGED <<send, record, appended>>
        /\ \/ got' = got
           \/ Head(outq).kind = "data" /\ got' = got \o Head(outq).bytes
    <3>1. outq # <<>> => Head(outq) \in OutRecords
      BY DEF SendType
    <3>2. Head(outq) \in OutRecords => Head(outq).kind \in {"flight", "data"}
      BY DEF OutRecords
    <3> QED
      BY <1>7, <3>1, <3>2 DEF PeerReads, tls, session
  <2>2. Head(outq) \in OutRecords
    BY <2>1 DEF SendType
  <2>3. Head(outq).kind = "data" => Head(outq).bytes \in Seq(Nat)
    BY <2>2 DEF OutRecords
  <2>4. got' \in Seq(Nat)
    BY <2>1, <2>3, ConcatProperties DEF SendType
  <2>5. outq' \in Seq(OutRecords)
    BY <2>1, HeadTailProperties DEF SendType
  <2> QED
    BY <2>1, <2>4, <2>5 DEF SendType
<1>8. CASE PeerResets
  BY <1>8, EmptySeq DEF PeerResets, SendType, tls, session, history
<1> QED
  BY <1>1, <1>2, <1>3, <1>4, <1>5, <1>6, <1>7, <1>8, NextCases, ElsewhereLeaves

-----------------------------------------------------------------------------
(* A write that has to be retried.                                         *)

LEMMA RetryInit == Init => RetryOffersRecord
  BY DEF Init, RetryOffersRecord

LEMMA RetryStep ==
  SendType /\ RetryOffersRecord /\ [Next]_vars => RetryOffersRecord'
<1> SUFFICES ASSUME SendType, RetryOffersRecord, [Next]_vars
             PROVE  RetryOffersRecord'
  OBVIOUS
<1>0. /\ Unread(send) \in Seq(Nat)
      /\ Len(Unread(send)) = Remaining(send)
      /\ Remaining(send) \in Nat
      /\ HasPending(send) <=> Remaining(send) > 0
      /\ record \in Seq(Nat)
  BY UnreadOf DEF SendType
<1>1. ASSUME UNCHANGED <<send, record>> PROVE RetryOffersRecord'
  BY <1>1 DEF RetryOffersRecord
<1>2. CASE Reply
  <2>1. record' = record /\ send' = Appended(send, NewBytes)
    BY <1>2 DEF Reply, NewBytes, tls
  <2>2. /\ Unread(send') = Unread(send) \o NewBytes
        /\ Remaining(send') = Remaining(send) + Len(NewBytes)
        /\ Len(NewBytes) \in Nat
    BY <2>1, AppendedUnread, NewBytesType, SizesAssumption DEF SendType
  <2>3. ASSUME record # <<>>
        PROVE  Piece(Unread(send) \o NewBytes, 0, Len(record)) = record
    <3>1. Len(record) \in 0 .. Len(Unread(send)) /\ 0 \in 0 .. Len(Unread(send))
      BY <1>0, <2>3 DEF RetryOffersRecord
    <3>2. Piece(Unread(send), 0, Len(record)) = record
      BY <2>3 DEF RetryOffersRecord, Piece
    <3> QED
      BY <1>0, <3>1, <3>2, NewBytesType, PieceOfJoined
  <2>4. ASSUME record # <<>> PROVE Len(record) <= Remaining(send')
    BY <1>0, <2>2, <2>4 DEF RetryOffersRecord
  <2>5. ASSUME record' # <<>>
        PROVE  /\ Len(record') <= Remaining(send')
               /\ SubSeq(Unread(send'), 1, Len(record')) = record'
    <3>1. record # <<>>
      BY <2>1, <2>5
    <3>2. Piece(Unread(send'), 0, Len(record')) = record'
      BY <2>1, <2>2, <2>3, <3>1
    <3> QED
      BY <2>1, <2>4, <3>1, <3>2 DEF Piece
  <2> QED
    BY <2>5 DEF RetryOffersRecord
<1>3. CASE WriteTakes
  BY <1>3 DEF WriteTakes, RetryOffersRecord
<1>4. CASE WriteWaits
  <2>1. record' = Written /\ send' = CompactIfNeeded(send)
    BY <1>4 DEF WriteWaits, Written
  <2>2. Unread(send') = Unread(send) /\ Remaining(send') = Remaining(send)
    BY <2>1, CompactedUnread DEF SendType
  <2>3. /\ Len(Written) <= Remaining(send)
        /\ Written = Piece(Unread(send), 0, Len(Written))
    BY <1>0, WrittenIsNext
  <2> HIDE DEF Written
  <2> QED
    BY <2>1, <2>2, <2>3 DEF RetryOffersRecord, Piece
<1>5. CASE FlushDone
  <2>1. record' = record /\ ~HasPending(send)
    BY <1>5 DEF FlushDone
  <2>2. record = <<>>
    BY <1>0, <2>1, EmptySeq DEF RetryOffersRecord
  <2> QED
    BY <2>1, <2>2 DEF RetryOffersRecord
<1>6. CASE HandshakeAdvances \/ PeerReads \/ PeerResets
  BY <1>1, <1>6 DEF HandshakeAdvances, PeerReads, PeerResets, tls, session
<1>7. CASE Elsewhere
  BY <1>1, <1>7, ElsewhereLeaves DEF sending
<1> QED
  BY <1>2, <1>3, <1>4, <1>5, <1>6, <1>7, NextCases

\* Whatever is appended, compacted or written in between, and wherever the
\* buffer moves, SSL_write_ex() is called again with the bytes of the record
\* it has kept: SSL_R_BAD_WRITE_RETRY never ends a session.
THEOREM RetryIsAccepted == Spec => []RetryOffersRecord
<1>1. Init => SendType /\ RetryOffersRecord
  BY SendTypeInit, RetryInit
<1>2. /\ SendType /\ RetryOffersRecord /\ [Next]_vars
      => (SendType /\ RetryOffersRecord)'
  BY SendTypeStep, RetryStep
<1> QED
  BY <1>1, <1>2, PTL DEF Spec

-----------------------------------------------------------------------------
(* The replies, byte for byte.                                             *)

\* The replies are cut at these places.
CutAt(cut) ==
  /\ cut \in [0 .. Len(outq) -> 0 .. Len(appended)]
  /\ got = Piece(appended, 0, cut[0])
  /\ \A i \in 1 .. Len(outq) :
       /\ cut[i - 1] <= cut[i]
       /\ Carried(outq[i]) = Piece(appended, cut[i - 1], cut[i])
  /\ rst \/ Unread(send) = Piece(appended, cut[Len(outq)], Len(appended))

LEMMA CutsAreExact == RepliesExact <=> \E cut : CutAt(cut)
  BY DEF RepliesExact, CutAt, Piece

LEMMA CutsAreExactNext == RepliesExact' <=> \E cut : CutAt(cut)'
<1>1. (RepliesExact <=> \E cut : CutAt(cut))'
  BY CutsAreExact, PTL
<1> QED
  BY <1>1

LEMMA RepliesInit == Init => RepliesExact
<1> SUFFICES ASSUME Init PROVE RepliesExact
  OBVIOUS
<1> DEFINE cut == [i \in 0 .. 0 |-> 0]
<1>1. Len(outq) = 0 /\ Len(appended) = 0
  BY EmptySeq DEF Init
<1>2. Unread(send) = <<>> /\ got = <<>>
  BY NothingUnread DEF Init
<1>3. Piece(appended, 0, 0) = <<>>
  BY SubSeqEmpty DEF Piece
<1>4. cut \in [0 .. Len(outq) -> 0 .. Len(appended)] /\ cut[0] = 0
  BY <1>1
<1> HIDE DEF cut
<1>5. CutAt(cut)
  BY <1>1, <1>2, <1>3, <1>4 DEF CutAt
<1> QED
  BY <1>5, CutsAreExact

\* A reply joins what is left to be sent.
LEMMA ReplyKeepsReplies ==
  ASSUME SendType, SendType', NEW cut, CutAt(cut), Reply
  PROVE  CutAt(cut)'
<1>1. /\ send' = Appended(send, NewBytes)
      /\ appended' = appended \o NewBytes
      /\ UNCHANGED <<outq, got, rst>>
  BY DEF Reply, NewBytes, tls, network
<1>2. Len(outq) \in Nat /\ Len(appended) \in Nat /\ Len(NewBytes) \in Nat
      /\ Len(appended') = Len(appended) + Len(NewBytes)
  BY <1>1, NewBytesType, ConcatProperties, SizesAssumption DEF SendType
<1>3. \A i \in 0 .. Len(outq) : cut[i] \in 0 .. Len(appended)
  BY DEF CutAt
<1>4. cut \in [0 .. Len(outq) -> 0 .. Len(appended')]
  BY <1>2 DEF CutAt
<1>5. ASSUME NEW a \in 0 .. Len(appended), NEW b \in a .. Len(appended)
      PROVE  Piece(appended', a, b) = Piece(appended, a, b)
  BY <1>1, NewBytesType, PieceOfJoined DEF SendType
<1>6. got' = Piece(appended', 0, cut[0])
  <2>1. 0 \in 0 .. Len(outq) /\ 0 \in 0 .. Len(appended)
    BY <1>2
  <2>2. cut[0] \in 0 .. Len(appended)
    BY <1>3, <2>1
  <2> QED
    BY <1>1, <1>5, <2>1, <2>2 DEF CutAt
<1>7. ASSUME NEW i \in 1 .. Len(outq')
      PROVE  /\ cut[i - 1] <= cut[i]
             /\ Carried(outq'[i]) = Piece(appended', cut[i - 1], cut[i])
  <2>1. i \in 1 .. Len(outq) /\ i \in 0 .. Len(outq) /\ i - 1 \in 0 .. Len(outq)
    BY <1>1, <1>2
  <2>2. cut[i - 1] <= cut[i] /\ Carried(outq[i]) = Piece(appended, cut[i - 1], cut[i])
    BY <2>1 DEF CutAt
  <2>3. cut[i - 1] \in 0 .. Len(appended) /\ cut[i] \in cut[i - 1] .. Len(appended)
    BY <1>3, <2>1, <2>2
  <2> QED
    BY <1>1, <1>5, <2>2, <2>3
<1>8. rst' \/ Unread(send') = Piece(appended', cut[Len(outq')], Len(appended'))
  <2> DEFINE c == cut[Len(outq)]
  <2>1. c \in 0 .. Len(appended)
    BY <1>2, <1>3
  <2>2. Unread(send') = Unread(send) \o NewBytes
    BY <1>1, AppendedUnread, NewBytesType DEF SendType
  <2>3. rst \/ Unread(send) = Piece(appended, c, Len(appended))
    BY DEF CutAt
  <2> HIDE DEF c
  <2>4. Piece(appended \o NewBytes, c, Len(appended) + Len(NewBytes))
          = Piece(appended, c, Len(appended)) \o NewBytes
    BY <2>1, NewBytesType, PieceOfJoined DEF SendType
  <2> QED
    BY <1>1, <1>2, <2>2, <2>3, <2>4 DEF c
<1> QED
  BY <1>1, <1>4, <1>6, <1>7, <1>8 DEF CutAt

\* A record goes out that carries the next n of the bytes left to be sent.
LEMMA RecordKeepsReplies ==
  ASSUME SendType, SendType', NEW cut, CutAt(cut), ~rst, UNCHANGED <<appended, got>>,
         NEW rec, NEW n \in 0 .. Remaining(send),
         outq' = Append(outq, rec), rec \in OutRecords,
         Carried(rec) = Piece(Unread(send), 0, n),
         Unread(send') = Piece(Unread(send), n, Remaining(send))
  PROVE  \E further : CutAt(further)'
<1> DEFINE last == cut[Len(outq)]
<1>a. PICK further : further = [i \in 0 .. Len(outq) + 1 |->
                                 IF i = Len(outq) + 1 THEN last + n ELSE cut[i]]
  OBVIOUS
<1>0. /\ Len(outq) \in Nat
      /\ appended \in Seq(Nat)
      /\ Len(appended) \in Nat
      /\ Unread(send) \in Seq(Nat)
      /\ Len(Unread(send)) = Remaining(send)
      /\ Remaining(send) \in Nat
      /\ n \in Nat
  BY UnreadOf DEF SendType
<1>1. \A i \in 0 .. Len(outq) : cut[i] \in 0 .. Len(appended)
  BY DEF CutAt
<1>2. last \in 0 .. Len(appended)
  BY <1>0, <1>1
<1>3. Unread(send) = Piece(appended, last, Len(appended))
  BY DEF CutAt
<1>4. Remaining(send) = Len(appended) - last
  <2>1. Len(appended) \in last .. Len(appended)
    BY <1>0, <1>2
  <2> HIDE DEF last
  <2>2. Len(Piece(appended, last, Len(appended))) = Len(appended) - last
    BY <1>0, <1>2, <2>1, PieceElements
  <2> QED
    BY <1>0, <1>3, <2>2
<1>5. last + n \in last .. Len(appended) /\ last + n \in 0 .. Len(appended)
  BY <1>0, <1>2, <1>4
<1>6. /\ Len(outq') = Len(outq) + 1
      /\ outq'[Len(outq) + 1] = rec
      /\ \A i \in 1 .. Len(outq) : outq'[i] = outq[i]
  BY AppendProperties DEF SendType
<1>7. further \in [0 .. Len(outq') -> 0 .. Len(appended')]
  BY <1>a, <1>0, <1>1, <1>5, <1>6
<1>8. /\ further[Len(outq) + 1] = last + n
      /\ \A i \in 0 .. Len(outq) : further[i] = cut[i]
  BY <1>a, <1>0
<1>9. ASSUME NEW c \in 0 .. Remaining(send), NEW d \in c .. Remaining(send)
      PROVE  Piece(Unread(send), c, d) = Piece(appended, last + c, last + d)
  <2>1. Len(appended) \in last .. Len(appended)
    BY <1>0, <1>2
  <2>2. c \in 0 .. Len(appended) - last /\ d \in c .. Len(appended) - last
    BY <1>4
  <2> HIDE DEF last
  <2>3. Piece(Piece(appended, last, Len(appended)), c, d)
          = Piece(appended, last + c, last + d)
    <3> DEFINE end == Len(appended)
    <3>1. appended \in Seq(Nat) /\ last \in 0 .. Len(appended) /\ end \in last .. Len(appended)
          /\ c \in 0 .. end - last /\ d \in c .. end - last
      BY <1>0, <1>2, <2>1, <2>2
    <3> HIDE DEF end
    <3>2. Piece(Piece(appended, last, end), c, d) = Piece(appended, last + c, last + d)
      BY <3>1, PieceOfPiece
    <3> QED
      BY <3>2 DEF end
  <2> QED
    BY <1>3, <2>3
<1>10. Carried(rec) = Piece(appended, last, last + n)
  <2>1. 0 \in 0 .. Remaining(send) /\ last + 0 = last
    BY <1>0, <1>2
  <2> HIDE DEF last
  <2> QED
    BY <1>9, <2>1
<1>11. Unread(send') = Piece(appended, last + n, Len(appended))
  <2>1. Remaining(send) \in n .. Remaining(send) /\ last + Remaining(send) = Len(appended)
    BY <1>0, <1>2, <1>4
  <2> HIDE DEF last
  <2> QED
    BY <1>9, <2>1
<1>12. got' = Piece(appended', 0, further[0])
  <2>1. 0 \in 0 .. Len(outq)
    BY <1>0
  <2> QED
    BY <1>8, <2>1 DEF CutAt
<1>13. ASSUME NEW i \in 1 .. Len(outq')
       PROVE  /\ further[i - 1] <= further[i]
              /\ Carried(outq'[i]) = Piece(appended', further[i - 1], further[i])
  <2>1. CASE i = Len(outq) + 1
    <3>1. further[i - 1] = last
      BY <1>0, <1>8, <2>1
    <3> QED
      BY <1>0, <1>2, <1>6, <1>8, <1>10, <2>1, <3>1
  <2>2. CASE i # Len(outq) + 1
    <3>1. i \in 1 .. Len(outq) /\ i \in 0 .. Len(outq) /\ i - 1 \in 0 .. Len(outq)
      BY <1>0, <1>6, <2>2
    <3> QED
      BY <1>6, <1>8, <3>1 DEF CutAt
  <2> QED
    BY <2>1, <2>2
<1>14. Unread(send') = Piece(appended', further[Len(outq')], Len(appended'))
  BY <1>6, <1>8, <1>11
<1>15. CutAt(further)'
  BY <1>7, <1>12, <1>13, <1>14 DEF CutAt
<1> QED
  BY <1>15

\* The peer reads the record that is first on its way.
LEMMA PeerReadsKeepsReplies ==
  ASSUME SendType, SendType', NEW cut, CutAt(cut), PeerReads
  PROVE  \E rest : CutAt(rest)'
<1>a. PICK rest : rest = [i \in 0 .. Len(outq) - 1 |-> cut[i + 1]]
  OBVIOUS
<1>0. /\ outq # <<>>
      /\ outq' = Tail(outq)
      /\ UNCHANGED <<send, appended, rst>>
      /\ Len(outq) \in Nat \ {0}
      /\ appended \in Seq(Nat)
      /\ Len(appended) \in Nat
  BY EmptySeq DEF PeerReads, tls, session, SendType
<1>1. \A i \in 0 .. Len(outq) : cut[i] \in 0 .. Len(appended)
  BY DEF CutAt
<1>2. /\ Len(outq') = Len(outq) - 1
      /\ \A i \in 1 .. Len(outq') : outq'[i] = outq[i + 1]
      /\ Head(outq) = outq[1]
      /\ outq[1] \in OutRecords
  BY <1>0, HeadTailProperties, ElementOfSeq DEF SendType
<1>3. rest \in [0 .. Len(outq') -> 0 .. Len(appended')]
  BY <1>a, <1>0, <1>1, <1>2
<1>4. \A i \in 0 .. Len(outq) - 1 : rest[i] = cut[i + 1]
  BY <1>a
<1>5. /\ 0 \in 0 .. Len(outq) /\ 1 \in 0 .. Len(outq) /\ 1 \in 1 .. Len(outq)
      /\ 0 \in 0 .. Len(outq) - 1
  BY <1>0
<1>6. /\ cut[0] \in 0 .. Len(appended)
      /\ cut[1] \in cut[0] .. Len(appended)
      /\ Carried(outq[1]) = Piece(appended, cut[0], cut[1])
      /\ got = Piece(appended, 0, cut[0])
  <2>1. cut[1 - 1] <= cut[1] /\ Carried(outq[1]) = Piece(appended, cut[1 - 1], cut[1])
    BY <1>5 DEF CutAt
  <2>2. cut[0] \in 0 .. Len(appended) /\ cut[1] \in 0 .. Len(appended)
    BY <1>1, <1>5
  <2>3. got = Piece(appended, 0, cut[0])
    BY DEF CutAt
  <2> QED
    BY <2>1, <2>2, <2>3
<1>7. got' = Piece(appended, 0, cut[1])
  <2>1. CASE outq[1].kind = "flight"
    <3>1. got' = got
      BY <1>2, <2>1 DEF PeerReads
    <3>2. Piece(appended, cut[0], cut[1]) = <<>>
      BY <1>6, <2>1 DEF Carried
    <3>3. Len(Piece(appended, cut[0], cut[1])) = cut[1] - cut[0]
      BY <1>0, <1>6, PieceElements
    <3>4. cut[1] = cut[0]
      <4>1. Len(<<>>) = 0
        OBVIOUS
      <4> QED
        BY <1>6, <3>2, <3>3, <4>1
    <3> QED
      BY <1>6, <3>1, <3>4
  <2>2. CASE outq[1].kind # "flight"
    <3>1. got' = got \o outq[1].bytes
      BY <1>2, <2>2 DEF PeerReads
    <3>2. outq[1].kind = "data"
      BY <1>2, <2>2 DEF OutRecords
    <3>3. outq[1].bytes = Piece(appended, cut[0], cut[1])
      BY <1>6, <3>2 DEF Carried
    <3>4. 0 \in 0 .. Len(appended) /\ cut[0] \in 0 .. Len(appended)
      BY <1>0, <1>6
    <3>5. Piece(appended, 0, cut[0]) \o Piece(appended, cut[0], cut[1])
            = Piece(appended, 0, cut[1])
      BY <1>0, <1>6, <3>4, PiecesJoin
    <3> QED
      BY <1>6, <3>1, <3>3, <3>5
  <2> QED
    BY <2>1, <2>2
<1>8. got' = Piece(appended', 0, rest[0])
  BY <1>0, <1>4, <1>5, <1>7
<1>9. ASSUME NEW i \in 1 .. Len(outq')
      PROVE  /\ rest[i - 1] <= rest[i]
             /\ Carried(outq'[i]) = Piece(appended', rest[i - 1], rest[i])
  <2>1. /\ i + 1 \in 1 .. Len(outq) /\ (i + 1) - 1 = i
        /\ i \in 0 .. Len(outq) - 1 /\ i - 1 \in 0 .. Len(outq) - 1
        /\ (i - 1) + 1 = i
    BY <1>0, <1>2
  <2>2. /\ cut[(i + 1) - 1] <= cut[i + 1]
        /\ Carried(outq[i + 1]) = Piece(appended, cut[(i + 1) - 1], cut[i + 1])
    BY <2>1 DEF CutAt
  <2>3. rest[i - 1] = cut[i] /\ rest[i] = cut[i + 1]
    BY <1>4, <2>1
  <2> QED
    BY <1>0, <1>2, <2>1, <2>2, <2>3
<1>10. rst' \/ Unread(send') = Piece(appended', rest[Len(outq')], Len(appended'))
  <2>1. rest[Len(outq')] = cut[Len(outq)]
    <3>1. Len(outq) - 1 \in 0 .. Len(outq) - 1 /\ (Len(outq) - 1) + 1 = Len(outq)
      BY <1>0
    <3> QED
      BY <1>2, <1>4, <3>1
  <2> QED
    BY <1>0, <2>1 DEF CutAt
<1>11. CutAt(rest)'
  BY <1>3, <1>8, <1>9, <1>10 DEF CutAt
<1> QED
  BY <1>11

LEMMA RepliesStep ==
  /\ SendType /\ SendType' /\ RetryOffersRecord /\ RepliesExact /\ [Next]_vars
  => RepliesExact'
<1> SUFFICES ASSUME SendType, SendType', RetryOffersRecord, RepliesExact, [Next]_vars
             PROVE  \E cut : CutAt(cut)'
  BY CutsAreExactNext
<1>0. PICK cut : CutAt(cut)
  BY CutsAreExact
<1>1. ASSUME UNCHANGED <<outq, appended, got, rst>>, Unread(send') = Unread(send)
      PROVE  CutAt(cut)'
  BY <1>0, <1>1 DEF CutAt
<1>2. CASE Reply
  BY <1>0, <1>2, ReplyKeepsReplies
<1>3. CASE HandshakeAdvances
  <2>1. UNCHANGED <<send, appended, got, rst>>
    BY <1>3 DEF HandshakeAdvances, session, history
  <2>2. CASE UNCHANGED outq
    BY <1>1, <2>1, <2>2
  <2>3. CASE ~rst /\ outq' = Append(outq, [kind |-> "flight"])
    <3> DEFINE rec == [kind |-> "flight"]
    <3>1. rec \in OutRecords /\ Carried(rec) = <<>>
      BY DEF OutRecords, Carried
    <3>2. /\ Unread(send) \in Seq(Nat)
          /\ Len(Unread(send)) = Remaining(send)
          /\ Remaining(send) \in Nat
      BY UnreadOf DEF SendType
    <3>3. Piece(Unread(send), 0, 0) = <<>>
      BY SubSeqEmpty DEF Piece
    <3>4. Unread(send') = Piece(Unread(send), 0, Remaining(send))
      <4>1. 0 \in 0 .. Len(Unread(send))
            /\ Remaining(send) \in 0 .. Len(Unread(send))
            /\ Len(Unread(send)) = Remaining(send) - 0
        BY <3>2
      <4>2. \A i \in 1 .. Remaining(send) - 0 : Unread(send)[i] = Unread(send)[0 + i]
        BY <3>2
      <4>3. Unread(send) = Piece(Unread(send), 0, Remaining(send))
        BY <3>2, <4>1, <4>2, IsPiece
      <4> QED
        BY <2>1, <4>3
    <3>5. 0 \in 0 .. Remaining(send)
      BY <3>2
    <3> HIDE DEF rec
    <3> QED
      BY <1>0, <2>1, <2>3, <3>1, <3>3, <3>4, <3>5, RecordKeepsReplies DEF rec
  <2> QED
    BY <1>3, <2>2, <2>3 DEF HandshakeAdvances
<1>4. CASE WriteTakes
  <2> DEFINE rec == [kind |-> "data", bytes |-> Written]
  <2>1. /\ ~rst
        /\ outq' = Append(outq, rec)
        /\ send' = Advance(send, Len(Written))
        /\ UNCHANGED <<appended, got>>
    BY <1>4 DEF WriteTakes, Written, history
  <2>2. /\ Written \in Seq(Nat)
        /\ Len(Written) \in 0 .. Remaining(send)
        /\ Written = Piece(Unread(send), 0, Len(Written))
    BY WrittenIsNext
  <2>3. Unread(send') = Piece(Unread(send), Len(Written), Remaining(send))
    BY <2>1, <2>2, AdvancedUnread DEF SendType
  <2>4. rec \in OutRecords /\ Carried(rec) = Written
    BY <2>2 DEF OutRecords, Carried
  <2> HIDE DEF rec, Written
  <2> QED
    BY <1>0, <2>1, <2>2, <2>3, <2>4, RecordKeepsReplies
<1>5. CASE WriteWaits
  <2>1. send' = CompactIfNeeded(send) /\ UNCHANGED <<outq, appended, got, rst>>
    BY <1>5 DEF WriteWaits, network, history
  <2> QED
    BY <1>1, <2>1, CompactedUnread DEF SendType
<1>6. CASE FlushDone
  <2>1. /\ ~HasPending(send)
        /\ send' = EmptyBuffer
        /\ UNCHANGED <<outq, appended, got, rst>>
    BY <1>6 DEF FlushDone, network, history
  <2>2. Unread(send) = <<>>
    <3>1. Unread(send) \in Seq(Nat) /\ ~(Len(Unread(send)) > 0) /\ Len(Unread(send)) \in Nat
      BY <2>1, UnreadOf DEF SendType
    <3> QED
      BY <3>1, EmptySeq
  <2> QED
    BY <1>1, <2>1, <2>2, NothingUnread
<1>7. CASE PeerReads
  BY <1>0, <1>7, PeerReadsKeepsReplies
<1>8. CASE PeerResets
  <2>1. /\ outq' = <<>> /\ rst'
        /\ UNCHANGED <<appended, got>>
    BY <1>8 DEF PeerResets, history
  <2>2. PICK all : all = [i \in 0 .. 0 |-> cut[0]]
    OBVIOUS
  <2>3. Len(outq) \in Nat /\ Len(outq') = 0
    BY <2>1, EmptySeq DEF SendType
  <2>4. cut[0] \in 0 .. Len(appended) /\ got = Piece(appended, 0, cut[0])
    <3>1. 0 \in 0 .. Len(outq)
      BY <2>3
    <3> QED
      BY <1>0, <3>1 DEF CutAt
  <2>5. all \in [0 .. Len(outq') -> 0 .. Len(appended')] /\ all[0] = cut[0]
    BY <2>1, <2>2, <2>3, <2>4
  <2>6. 1 .. Len(outq') = {}
    BY <2>3
  <2>7. CutAt(all)'
    BY <2>1, <2>4, <2>5, <2>6 DEF CutAt
  <2> QED
    BY <2>7
<1>9. CASE Elsewhere
  <2>1. CutAt(cut)'
    BY <1>1, <1>9, ElsewhereLeaves DEF sending
  <2> QED
    BY <2>1
<1> QED
  BY <1>2, <1>3, <1>4, <1>5, <1>6, <1>7, <1>8, <1>9, NextCases

\* flush_send(), whatever the kernel takes and whenever: what the peer has
\* decrypted, what is on its way and what is left in the send buffer are the
\* replies, in order, each byte once.
THEOREM RepliesArriveIntact == Spec => []RepliesExact
<1> DEFINE SendInv == SendType /\ RetryOffersRecord /\ RepliesExact
<1>1. Init => SendInv
  BY SendTypeInit, RetryInit, RepliesInit
<1>2. SendInv /\ [Next]_vars => SendInv'
  BY SendTypeStep, RetryStep, RepliesStep
<1>3. SendInv => RepliesExact
  OBVIOUS
<1> HIDE DEF SendInv
<1> QED
  BY <1>1, <1>2, <1>3, PTL DEF Spec

-----------------------------------------------------------------------------
(* EPOLLOUT.  The handlers leave armed as it is until they sync it, so the *)
(* invariant says what each of them may count on.                          *)

\* What waits to be written is never forgotten.
PendingIsArmed == HasPending(send) => armed

\* Nothing else is waited for, except to send the flight.
ArmedForSomething == armed => HasPending(send) \/ stage = "flight"

\* drain_recv() and flush_send() run behind the handshake.
BehindHandshake == pc \in {"drain", "flush"} => stage = "done"

\* A write that waited leaves bytes: flush_send() that finds none does not
\* find want_write set.
WantsWithBytes == stage = "done" /\ want = "write" => HasPending(send)

ArmedInv ==
  /\ BehindHandshake
  /\ WantsWithBytes
  /\ ~is_closed =>
       /\ pc \in {"wait", "work", "recv", "send", "drain", "flush", "exec"} => PendingIsArmed
       /\ pc \in {"wait", "work", "exec"} => ArmedForSomething

LEMMA ArmedInit == Init => ArmedInv
  BY DEF Init, ArmedInv, BehindHandshake, WantsWithBytes, PendingIsArmed,
     ArmedForSomething, HasPending, EmptyBuffer

LEMMA ArmedStep == SendType /\ ArmedInv /\ [Next]_vars => ArmedInv'
<1> SUFFICES ASSUME SendType, ArmedInv, [Next]_vars PROVE ArmedInv'
  OBVIOUS
<1> USE DEF ArmedInv, BehindHandshake, WantsWithBytes, PendingIsArmed,
            ArmedForSomething, At, Go, GoAfterRecv, GoAfterSend, ApplyState,
            SyncInterest, Disconnect
<1>1. CASE Wait \/ Unregister \/ Dispatch \/ UNCHANGED vars
  BY <1>1 DEF Wait, Unregister, Dispatch, vars, tls, session
<1>2. CASE Reply
  <2>1. /\ send' = Appended(send, NewBytes)
        /\ armed' = (armed \/ ~HasPending(send))
        /\ UNCHANGED <<pc, stage, want, is_closed>>
    BY <1>2 DEF Reply, NewBytes, tls
  <2>2. HasPending(send')
    <3>1. /\ Appended(send, NewBytes) \in SendBuffers
          /\ Remaining(Appended(send, NewBytes)) = Remaining(send) + ReplySize
      BY AppendedUnread, NewBytesType DEF SendType
    <3>2. Remaining(send) \in Nat
      BY UnreadOf DEF SendType
    <3>3. Remaining(send') > 0 /\ send' \in SendBuffers
      BY <2>1, <3>1, <3>2, SizesAssumption
    <3> QED
      BY <3>3, UnreadOf
  <2> QED
    BY <2>1, <2>2
<1>3. CASE HandshakeAdvances
  BY <1>3 DEF HandshakeAdvances, Handshaking, session
<1>4. CASE HandshakeDone
  BY <1>4 DEF HandshakeDone, Handshaking
<1>5. CASE HandshakeWaits
  BY <1>5 DEF HandshakeWaits, Handshaking
<1>6. CASE HandshakeFails
  BY <1>6 DEF HandshakeFails, Handshaking
<1>7. CASE HandshakeBehind
  BY <1>7 DEF HandshakeBehind, Handshaking, tls, session
<1>8. CASE ReadData \/ ReadWaits \/ ReadCloses \/ ReadFails
  BY <1>8 DEF ReadData, ReadWaits, ReadCloses, ReadFails, tls
<1>9. CASE WriteTakes
  <2>1. HasPending(send')  => HasPending(send)
    BY <1>9 DEF WriteTakes
  <2> QED
    BY <1>9, <2>1 DEF WriteTakes
<1>10. CASE WriteWaits
  <2>1. HasPending(send) /\ HasPending(CompactIfNeeded(send))
    BY <1>10, UnreadOf, CompactedUnread DEF WriteWaits, SendType
  <2> QED
    BY <1>10, <2>1 DEF WriteWaits
<1>11. CASE WriteFails
  BY <1>11 DEF WriteFails
<1>12. CASE FlushDone
  <2>1. ~HasPending(EmptyBuffer)
    BY DEF HasPending, EmptyBuffer
  <2> QED
    BY <1>12, <2>1 DEF FlushDone
<1>13. CASE Execute \/ ExecuteDone \/ HandleClientError
  BY <1>13 DEF Execute, ExecuteDone, HandleClientError, tls, session
<1>14. CASE Peer
  <2>1. UNCHANGED <<pc, tls, session>>
    BY <1>14 DEF Peer, PeerHello, PeerReads, PeerData, PeerGarbage, PeerCloses,
       PeerResets
  <2>2. UNCHANGED <<pc, stage, want, send, armed, is_closed>>
    BY <2>1 DEF tls, session
  <2> QED
    BY <2>2
<1> QED
  BY <1>1, <1>2, <1>3, <1>4, <1>5, <1>6, <1>7, <1>8, <1>9, <1>10, <1>11,
     <1>12, <1>13, <1>14 DEF Next, Loop

\* Whenever the loop waits for an open session, EPOLLOUT is armed if bytes are
\* left to be written, and armed for nothing else than bytes or the flight.
THEOREM WaitsArmed == Spec => []ArmedToWrite
<1>1. Init => SendType /\ ArmedInv
  BY SendTypeInit, ArmedInit
<1>2. SendType /\ ArmedInv /\ [Next]_vars => (SendType /\ ArmedInv)'
  BY SendTypeStep, ArmedStep
<1>3. ArmedInv => ArmedToWrite
  BY DEF ArmedInv, ArmedToWrite, PendingIsArmed, ArmedForSomething, At
<1> QED
  BY <1>1, <1>2, <1>3, PTL DEF Spec

=============================================================================
