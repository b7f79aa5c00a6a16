----------------------------- MODULE WireProofs -----------------------------
(***************************************************************************)
(* Proofs about the byte stream of Wire, for every alphabet, threshold and *)
(* set of commands: nothing is lost, repeated or reordered between the     *)
(* encoder and the line parser, the buffers hold little they are done      *)
(* with, and what is decoded is what was encoded, line by line.            *)
(*                                                                         *)
(* The lemmas say in turn what each operation on a buffer leaves unread,   *)
(* what the line of a command consists of, which fields a line is cut      *)
(* into, and what decoding a sequence of lines comes to.  The last part    *)
(* relates places of the stream to commands: Lines, NextLine.              *)
(***************************************************************************)
EXTENDS Wire, FiniteSetTheorems, SequenceTheorems, TLAPS

LEMMA SubSeqTyped ==
  ASSUME NEW S, NEW s \in Seq(S), NEW m \in 1 .. Len(s) + 1, NEW n \in m - 1 .. Len(s)
  PROVE  /\ SubSeq(s, m, n) \in Seq(S)
         /\ Len(SubSeq(s, m, n)) = n - m + 1
         /\ \A i \in 1 .. n - m + 1 : SubSeq(s, m, n)[i] = s[m + i - 1]
<1>1. \A i \in m .. n : s[i] \in S
  BY ElementOfSeq
<1> QED
  BY <1>1, SubSeqProperties

\* A sequence is what a cut leaves of it on both sides.
LEMMA CutAndJoin ==
  ASSUME NEW S, NEW s \in Seq(S), NEW n \in 0 .. Len(s)
  PROVE  /\ SubSeq(s, 1, n) \in Seq(S)
         /\ SubSeq(s, n + 1, Len(s)) \in Seq(S)
         /\ SubSeq(s, 1, n) \o SubSeq(s, n + 1, Len(s)) = s
<1>1. SubSeq(s, 1, n) \in Seq(S) /\ SubSeq(s, n + 1, Len(s)) \in Seq(S)
  BY SubSeqTyped
<1>0. 1 \in 1 .. Len(s) + 1 /\ n \in 1 - 1 .. Len(s) /\ Len(s) \in n .. Len(s)
  OBVIOUS
<1>2. SubSeq(s, 1, n) \o SubSeq(s, n + 1, Len(s)) = SubSeq(s, 1, Len(s))
  BY <1>0, ConcatAdjacentSubSeq
<1> QED
  BY <1>1, <1>2, SubSeqFull

-----------------------------------------------------------------------------
(* The operations on a buffer: what it is done with, and what is unread.   *)

LEMMA UnreadOf ==
  ASSUME NEW done \in Seq(Bytes), NEW rest \in Seq(Bytes)
  PROVE  /\ [buf |-> done \o rest, offset |-> Len(done)] \in Buffers
         /\ Unread([buf |-> done \o rest, offset |-> Len(done)]) = rest
<1> DEFINE all == done \o rest
           m == Len(done) + 1
<1>1. /\ all \in Seq(Bytes)
      /\ Len(all) = Len(done) + Len(rest)
      /\ \A i \in 1 .. Len(done) + Len(rest) : all[i] =
           IF i <= Len(done) THEN done[i] ELSE rest[i - Len(done)]
  BY ConcatProperties
<1>2. Len(done) \in Nat /\ Len(rest) \in Nat
  OBVIOUS
<1> HIDE DEF all
<1>3. m \in 1 .. Len(all) + 1 /\ Len(all) \in m - 1 .. Len(all)
  BY <1>1, <1>2
<1> HIDE DEF m
<1>4. /\ SubSeq(all, m, Len(all)) \in Seq(Bytes)
      /\ Len(SubSeq(all, m, Len(all))) = Len(all) - m + 1
      /\ \A i \in 1 .. Len(all) - m + 1 : SubSeq(all, m, Len(all))[i] = all[m + i - 1]
  BY <1>1, <1>3, SubSeqTyped
<1>5. Len(all) - m + 1 = Len(rest)
  BY <1>1, <1>2 DEF m
<1>6. ASSUME NEW i \in 1 .. Len(rest)
      PROVE  SubSeq(all, m, Len(all))[i] = rest[i]
  <2>1. SubSeq(all, m, Len(all))[i] = all[m + i - 1]
    BY <1>4, <1>5
  <2>2. m + i - 1 \in 1 .. Len(done) + Len(rest) /\ ~(m + i - 1 <= Len(done))
        /\ (m + i - 1) - Len(done) = i
    BY <1>2 DEF m
  <2> QED
    BY <2>1, <2>2, <1>1
<1>7. SubSeq(all, m, Len(all)) = rest
  BY <1>4, <1>5, <1>6, SeqEqual
<1>8. [buf |-> all, offset |-> Len(done)] \in Buffers
  BY <1>1, <1>2 DEF Buffers
<1> QED
  BY <1>7, <1>8 DEF Unread, all, m

LEMMA BufferParts ==
  ASSUME NEW b \in Buffers
  PROVE  /\ b.buf \in Seq(Bytes)
         /\ b.offset \in Nat
         /\ b.offset \in 0 .. Len(b.buf)
         /\ b = [buf |-> b.buf, offset |-> b.offset]
BY DEF Buffers

LEMMA DoneAndUnread ==
  ASSUME NEW b \in Buffers
  PROVE  /\ Unread(b) \in Seq(Bytes)
         /\ Len(Unread(b)) = Remaining(b)
         /\ \E done \in Seq(Bytes) :
              b = [buf |-> done \o Unread(b), offset |-> Len(done)]
<1> DEFINE done == SubSeq(b.buf, 1, b.offset)
<1>1. /\ done \in Seq(Bytes)
      /\ Unread(b) \in Seq(Bytes)
      /\ done \o Unread(b) = b.buf
  BY BufferParts, CutAndJoin DEF Unread
<1>2. 1 \in 1 .. Len(b.buf) + 1 /\ b.offset \in 1 - 1 .. Len(b.buf)
  BY BufferParts
<1>3. Len(done) = b.offset - 1 + 1
  BY <1>2, BufferParts, SubSeqTyped
<1>4. Len(done) = b.offset
  BY <1>3, BufferParts
<1>5. Len(b.buf) = Len(done) + Len(Unread(b))
  BY <1>1, ConcatProperties
<1>6. Len(Unread(b)) = Remaining(b)
  BY <1>1, <1>4, <1>5, BufferParts DEF Remaining
<1> HIDE DEF done
<1>7. b = [buf |-> done \o Unread(b), offset |-> Len(done)]
  BY <1>1, <1>4, BufferParts
<1> QED
  BY <1>1, <1>6, <1>7

LEMMA EmptyBufferUnread == EmptyBuffer \in Buffers /\ Unread(EmptyBuffer) = <<>>
  BY EmptySeq, SubSeqEmpty DEF EmptyBuffer, Buffers, Unread

\* append(): the bytes come behind what is unread.
LEMMA AppendedUnread ==
  ASSUME NEW b \in Buffers, NEW bytes \in Seq(Bytes)
  PROVE  /\ Appended(b, bytes) \in Buffers
         /\ Unread(Appended(b, bytes)) = Unread(b) \o bytes
         /\ Appended(b, bytes).offset = b.offset
         /\ Remaining(Appended(b, bytes)) = Remaining(b) + Len(bytes)
<1>1. PICK done \in Seq(Bytes) : b = [buf |-> done \o Unread(b), offset |-> Len(done)]
  BY DoneAndUnread
<1>2. Unread(b) \in Seq(Bytes)
  BY DoneAndUnread
<1>3. (done \o Unread(b)) \o bytes = done \o (Unread(b) \o bytes)
  BY <1>2, ConcatAssociative
<1>4. Appended(b, bytes) = [buf |-> b.buf \o bytes, offset |-> b.offset]
  BY DEF Appended
<1>5. b.buf = done \o Unread(b) /\ b.offset = Len(done)
  BY <1>1
<1>6. Appended(b, bytes) = [buf |-> done \o (Unread(b) \o bytes), offset |-> Len(done)]
  BY <1>3, <1>4, <1>5
<1>7. Unread(b) \o bytes \in Seq(Bytes) /\ Len(Unread(b) \o bytes) = Len(Unread(b)) + Len(bytes)
  BY <1>2, ConcatProperties
<1>8. Appended(b, bytes) \in Buffers /\ Unread(Appended(b, bytes)) = Unread(b) \o bytes
  BY <1>6, <1>7, UnreadOf
<1>9. Remaining(Appended(b, bytes)) = Remaining(b) + Len(bytes)
  <2>1. Len(Unread(b)) = Remaining(b)
    BY DoneAndUnread
  <2>2. Len(Unread(Appended(b, bytes))) = Remaining(Appended(b, bytes))
    BY <1>8, DoneAndUnread
  <2> QED
    BY <1>7, <1>8, <2>1, <2>2
<1>10. Appended(b, bytes).offset = b.offset
  BY <1>4
<1> QED
  BY <1>8, <1>9, <1>10

\* clear_if_done() and compact_if_needed() cut away what is done with.
LEMMA ClearedUnread ==
  ASSUME NEW b \in Buffers
  PROVE  /\ ClearIfDone(b) \in Buffers
         /\ Unread(ClearIfDone(b)) = Unread(b)
<1>1. CASE IsDone(b)
  <2>1. Unread(b) = <<>>
    BY <1>1, BufferParts, SubSeqEmpty DEF Unread, IsDone
  <2> QED
    BY <1>1, <2>1, EmptyBufferUnread DEF ClearIfDone
<1>2. CASE ~IsDone(b)
  BY <1>2 DEF ClearIfDone
<1> QED
  BY <1>1, <1>2

LEMMA CompactedUnread ==
  ASSUME NEW b \in Buffers
  PROVE  /\ CompactIfNeeded(b) \in Buffers
         /\ Unread(CompactIfNeeded(b)) = Unread(b)
<1> DEFINE u == Unread(b)
           cut == [buf |-> u, offset |-> 0]
<1>1. u \in Seq(Bytes)
  BY DoneAndUnread
<1> HIDE DEF u
<1>2. cut \in Buffers
  BY <1>1 DEF Buffers
<1>3. Unread(cut) = SubSeq(u, 1, Len(u))
  BY DEF Unread
<1>4. Unread(cut) = u
  BY <1>1, <1>3, SubSeqFull
<1> QED
  BY <1>2, <1>4 DEF CompactIfNeeded, u

\* ... and leave little of it.
LEMMA SettledHoldsLittle ==
  ASSUME NEW b \in Buffers
  PROVE  HoldsLittle(CompactIfNeeded(ClearIfDone(b)))
<1> DEFINE c == ClearIfDone(b)
<1>1. /\ c \in Buffers
      /\ c.offset \in Nat /\ Len(c.buf) \in Nat
      /\ c.offset <= Len(c.buf)
      /\ CompactAt \in Nat \ {0}
  BY ClearedUnread, BufferParts, BufferAssumption DEF BufferAssumption
<1>2. Unread(c) \in Seq(Bytes) /\ Len(Unread(c)) = Remaining(c)
  BY <1>1, DoneAndUnread
<1> HIDE DEF c
<1>4. HoldsLittle(CompactIfNeeded(c))
  <2>1. CASE c.offset >= CompactAt /\ c.offset * 2 >= Len(c.buf)
    <3>1. CompactIfNeeded(c) = [buf |-> Unread(c), offset |-> 0]
      BY <2>1 DEF CompactIfNeeded
    <3>2. Remaining(CompactIfNeeded(c)) = Remaining(c) /\ CompactIfNeeded(c).offset = 0
      BY <3>1, <1>2 DEF Remaining
    <3> QED
      BY <1>1, <3>2 DEF HoldsLittle
  <2>2. CASE ~(c.offset >= CompactAt /\ c.offset * 2 >= Len(c.buf))
    <3>1. CompactIfNeeded(c) = c
      BY <2>2 DEF CompactIfNeeded
    <3>2. c.offset < CompactAt \/ c.offset < Len(c.buf) - c.offset
      BY <1>1, <2>2
    <3> QED
      BY <3>1, <3>2 DEF HoldsLittle, Remaining
  <2> QED
    BY <2>1, <2>2
<1> QED
  BY <1>4 DEF c

LEMMA AdvancedUnread ==
  ASSUME NEW b \in Buffers, NEW n \in 0 .. Remaining(b)
  PROVE  /\ Advance(b, n) \in Buffers
         /\ SubSeq(Unread(b), 1, n) \in Seq(Bytes)
         /\ Unread(b) = SubSeq(Unread(b), 1, n) \o Unread(Advance(b, n))
<1> DEFINE u == Unread(b)
           t == SubSeq(u, 1, n)
           r == SubSeq(u, n + 1, Len(u))
<1>1. u \in Seq(Bytes) /\ Len(u) = Remaining(b)
  BY DoneAndUnread
<1>2. PICK done \in Seq(Bytes) : b = [buf |-> done \o u, offset |-> Len(done)]
  BY DoneAndUnread
<1> HIDE DEF u
<1>3. t \in Seq(Bytes) /\ r \in Seq(Bytes) /\ t \o r = u
  BY <1>1, CutAndJoin
<1>4. Len(t) = n
  <2>1. 1 \in 1 .. Len(u) + 1 /\ n \in 1 - 1 .. Len(u) /\ n - 1 + 1 = n
    BY <1>1
  <2> QED
    BY <1>1, <2>1, SubSeqTyped
<1> HIDE DEF t, r
<1>5. done \o u = (done \o t) \o r
  <2>1. t \in Seq(Bytes) /\ r \in Seq(Bytes)
    BY <1>3
  <2>0. done \in Seq(Bytes)
    BY <1>2
  <2>2. (done \o t) \o r = done \o (t \o r)
    BY ONLY <2>0, <2>1, ConcatAssociative
  <2> QED
    BY <2>2, <1>3
<1>6. done \o t \in Seq(Bytes) /\ Len(done \o t) = Len(done) + n
  BY <1>3, <1>4, ConcatProperties
<1>7. Advance(b, n) = [buf |-> (done \o t) \o r, offset |-> Len(done \o t)]
  BY <1>2, <1>5, <1>6 DEF Advance
<1>8. Advance(b, n) \in Buffers /\ Unread(Advance(b, n)) = r
  BY <1>3, <1>6, <1>7, UnreadOf
<1> QED
  BY <1>3, <1>8 DEF t, u

\* flush_send()
LEMMA FlushedUnread ==
  ASSUME NEW b \in Buffers, NEW n \in 0 .. Remaining(b)
  PROVE  /\ Flushed(b, n) \in Buffers
         /\ SubSeq(Unread(b), 1, n) \in Seq(Bytes)
         /\ Unread(b) = SubSeq(Unread(b), 1, n) \o Unread(Flushed(b, n))
         /\ HoldsLittle(Flushed(b, n))
<1>1. Advance(b, n) \in Buffers
  BY AdvancedUnread
<1>2. ClearIfDone(Advance(b, n)) \in Buffers
      /\ Unread(ClearIfDone(Advance(b, n))) = Unread(Advance(b, n))
  BY <1>1, ClearedUnread
<1>3. Flushed(b, n) \in Buffers /\ Unread(Flushed(b, n)) = Unread(Advance(b, n))
  BY <1>2, CompactedUnread DEF Flushed
<1>4. HoldsLittle(Flushed(b, n))
  BY <1>1, SettledHoldsLittle DEF Flushed
<1> QED
  BY <1>3, <1>4, AdvancedUnread

\* parse_line()
LEMMA ParsedUnread ==
  ASSUME NEW b \in Buffers, HasLine(b)
  PROVE  /\ ParsedLine(b).rest \in Buffers
         /\ ParsedLine(b).line \in Seq(Bytes)
         /\ Unread(b) = (ParsedLine(b).line \o <<Newline>>) \o Unread(ParsedLine(b).rest)
         /\ HoldsLittle(ParsedLine(b).rest)
<1> DEFINE i == CHOOSE k \in NewlineAt(b) : TRUE
           n == i - b.offset
           line == SubSeq(b.buf, b.offset + 1, i - 1)
<1>1. i \in NewlineAt(b)
  BY DEF HasLine
<1>2. i \in b.offset + 1 .. Len(b.buf) /\ b.buf[i] = Newline
  BY <1>1 DEF NewlineAt
<1>3. b.buf \in Seq(Bytes) /\ b.offset \in Nat /\ b.offset <= Len(b.buf) /\ Len(b.buf) \in Nat
  BY BufferParts
<1> HIDE DEF i
<1>4. n \in 1 .. Remaining(b) /\ b.offset + n = i
  BY <1>2, <1>3 DEF Remaining
<1>5. Advance(b, n) = [buf |-> b.buf, offset |-> i]
  BY <1>4 DEF Advance
<1>6. /\ Advance(b, n) \in Buffers
      /\ Unread(b) = SubSeq(Unread(b), 1, n) \o Unread(Advance(b, n))
  <2>1. Remaining(b) \in Nat
    BY <1>3 DEF Remaining
  <2>2. n \in 0 .. Remaining(b)
    BY <1>4, <2>1
  <2> HIDE DEF n
  <2> QED
    BY <2>2, AdvancedUnread
<1>7. SubSeq(Unread(b), 1, n) = SubSeq(b.buf, b.offset + 1, i)
  <2>1. /\ b.offset + 1 \in 1 .. Len(b.buf)
        /\ Len(b.buf) \in 1 .. Len(b.buf)
        /\ 1 \in 1 .. Len(b.buf) - (b.offset + 1) + 1
        /\ n \in 1 .. Len(b.buf) - (b.offset + 1) + 1
        /\ b.offset + 1 + 1 - 1 = b.offset + 1
        /\ b.offset + 1 + n - 1 = i
    <3>1. i \in Nat
      BY <1>2, <1>3
    <3> QED
      BY <1>2, <1>3, <3>1, SMTT(30)
  <2> HIDE DEF n
  <2> DEFINE m == b.offset + 1
             j == Len(b.buf)
  <2>2. SubSeq(SubSeq(b.buf, m, j), 1, n) = SubSeq(b.buf, m + 1 - 1, m + n - 1)
    <3>1. m \in 1 .. j /\ j \in 1 .. Len(b.buf) /\ 1 \in 1 .. j - m + 1 /\ n \in 1 .. j - m + 1
      BY <2>1
    <3> HIDE DEF m, j
    <3> QED
      BY <1>3, <3>1, SubSeqOfSubSeq
  <2> QED
    BY <2>1, <2>2 DEF Unread
<1>8. SubSeq(b.buf, b.offset + 1, i) = line \o <<Newline>>
  <2>1. b.offset + 1 \in 1 .. Len(b.buf) /\ i \in b.offset + 1 .. Len(b.buf)
    BY <1>2, <1>3
  <2> QED
    BY <1>2, <1>3, <2>1, SubSeqRecursiveSecond
<1>9. line \in Seq(Bytes)
  <2>1. b.offset + 1 \in 1 .. Len(b.buf) + 1 /\ i - 1 \in b.offset + 1 - 1 .. Len(b.buf)
    BY <1>2, <1>3
  <2> QED
    BY <1>3, <2>1, SubSeqTyped
<1> DEFINE past == Advance(b, n)
<1>10. ParsedLine(b) = [line |-> line, rest |-> CompactIfNeeded(ClearIfDone(past))]
  BY <1>5 DEF ParsedLine, i
<1> HIDE DEF line, past, n
<1>11. past \in Buffers
  BY <1>6 DEF past
<1>12. ClearIfDone(past) \in Buffers /\ Unread(ClearIfDone(past)) = Unread(past)
  BY <1>11, ClearedUnread
<1>13. CompactIfNeeded(ClearIfDone(past)) \in Buffers
       /\ Unread(CompactIfNeeded(ClearIfDone(past))) = Unread(past)
  BY <1>12, CompactedUnread
<1>14. HoldsLittle(CompactIfNeeded(ClearIfDone(past)))
  BY <1>11, SettledHoldsLittle
<1>15. Unread(b) = (line \o <<Newline>>) \o Unread(past)
  BY <1>6, <1>7, <1>8 DEF past
<1>16. ParsedLine(b).line = line /\ ParsedLine(b).rest = CompactIfNeeded(ClearIfDone(past))
  BY <1>10
<1> QED
  BY <1>9, <1>13, <1>14, <1>15, <1>16

-----------------------------------------------------------------------------
(* Least numbers and induction, from the well-foundedness of <.            *)

Less == {ss \in Nat \X Nat : ss[1] < ss[2]}

LEMMA LeastNumber ==
  ASSUME NEW T, T \subseteq Nat, T # {}
  PROVE  \E n \in T : \A m \in T : n <= m
<1>1. IsWellFoundedOn(Less, Nat)
  BY NatLessThanWellFounded DEF OpToRel, Less
<1>2. \E x \in T : \A y \in T : ~ (<<y, x>> \in Less)
  BY <1>1, WFMin
<1>3. \A x, y \in T : ~(<<y, x>> \in Less) => ~(y < x)
  BY DEF Less
<1>4. PICK x \in T : \A y \in T : ~ (<<y, x>> \in Less)
  BY <1>2
<1>5. \A y \in T : y \in Nat /\ x \in Nat /\ ~(y < x)
  BY <1>3, <1>4
<1> QED
  BY <1>5

LEMMA Induction ==
  ASSUME NEW T, T \subseteq Nat, 0 \in T, \A n \in T : n + 1 \in T
  PROVE  T = Nat
<1> SUFFICES ASSUME Nat \ T # {} PROVE FALSE
  OBVIOUS
<1>1. PICK n \in Nat \ T : \A m \in Nat \ T : n <= m
  BY LeastNumber
<1>2. n # 0 /\ n - 1 \in Nat
  BY <1>1
<1>3. n - 1 \in T
  BY <1>1, <1>2
<1> QED
  BY <1>3, <1>1

-----------------------------------------------------------------------------
(* Encoding.                                                               *)

LEMMA FlattenOne ==
  ASSUME NEW s, Len(s) = 1
  PROVE  FlattenSeq(s) = s[1]
<1> DEFINE Part(f, i) == IF i = 1 THEN s[i] ELSE f[i - 1] \o s[i]
           F == CHOOSE f : f = [i \in 1 .. 1 |-> Part(f, i)]
           g == [i \in 1 .. 1 |-> s[1]]
<1>1. g = [i \in 1 .. 1 |-> Part(g, i)]
  OBVIOUS
<1>2. F = [i \in 1 .. 1 |-> Part(F, i)]
  <2>1. \E f : f = [i \in 1 .. 1 |-> Part(f, i)]
    BY <1>1
  <2> QED
    BY <2>1
<1>3. FlattenSeq(s) = F[1]
  BY DEF FlattenSeq
<1> HIDE DEF F
<1> QED
  BY <1>2, <1>3

LEMMA FlattenTwo ==
  ASSUME NEW s, Len(s) = 2
  PROVE  FlattenSeq(s) = s[1] \o s[2]
<1> DEFINE Part(f, i) == IF i = 1 THEN s[i] ELSE f[i - 1] \o s[i]
           F == CHOOSE f : f = [i \in 1 .. 2 |-> Part(f, i)]
           g == [i \in 1 .. 2 |-> IF i = 1 THEN s[1] ELSE s[1] \o s[2]]
<1>1. g = [i \in 1 .. 2 |-> Part(g, i)]
  <2>1. g[1] = s[1]
    OBVIOUS
  <2>2. \A i \in 1 .. 2 : g[i] = Part(g, i)
    <3>1. g[1] = Part(g, 1)
      OBVIOUS
    <3>2. g[2] = Part(g, 2)
      BY <2>1
    <3> QED
      BY <3>1, <3>2
  <2>3. g = [i \in 1 .. 2 |-> g[i]]
    OBVIOUS
  <2> HIDE DEF g
  <2> QED
    BY <2>2, <2>3
<1>2. F = [i \in 1 .. 2 |-> Part(F, i)]
  <2>1. \E f : f = [i \in 1 .. 2 |-> Part(f, i)]
    BY <1>1
  <2> QED
    BY <2>1
<1>3. FlattenSeq(s) = F[2]
  BY DEF FlattenSeq
<1> HIDE DEF F
<1>4. F[1] = s[1]
  BY <1>2
<1>5. F[2] = F[1] \o s[2]
  <2>1. F[2] = Part(F, 2)
    BY <1>2
  <2> QED
    BY <2>1
<1> QED
  BY <1>3, <1>4, <1>5

\* The bytes of a line.
Inner == Bytes \ {Newline}

\* The bytes of its arguments as they are encoded.
Body(cmd) ==
  IF Len(cmd.args) = 0 THEN <<>>
  ELSE IF Len(cmd.args) = 1 THEN <<Return>> \o cmd.args[1]
  ELSE (<<Return>> \o cmd.args[1]) \o (<<Return>> \o cmd.args[2])

LEMMA ArityFacts ==
  ASSUME NEW cmd, IsCommand(cmd)
  PROVE  /\ Len(cmd.args) \in 0 .. 2
         /\ cmd.args \in Seq(Seq(Inner))
         /\ \A i \in 1 .. Len(cmd.args) : cmd.args[i] \in Seq(Inner)
         /\ cmd.name \in Inner /\ cmd.name # Return
         /\ Return \in Inner /\ Newline \in Bytes /\ Newline \notin Inner
<1>1. cmd.name \in DOMAIN Arity
  BY DEF IsCommand
<1>2. Arity[cmd.name] \in 0 .. 2
  BY <1>1 DEF Arity
<1>3. cmd.args \in Seq(Seq(Inner)) /\ Len(cmd.args) \in 0 .. 2
  BY <1>2 DEF IsCommand, Inner
<1>4. \A i \in 1 .. Len(cmd.args) : cmd.args[i] \in Seq(Inner)
  BY <1>3, ElementOfSeq
<1> QED
  BY <1>1, <1>3, <1>4, CodecAssumption, BufferAssumption
  DEF CodecAssumption, BufferAssumption, Inner

LEMMA EncodedParts ==
  ASSUME NEW cmd, IsCommand(cmd)
  PROVE  /\ Body(cmd) \in Seq(Inner)
         /\ Encode(cmd) = (<<cmd.name>> \o Body(cmd)) \o <<Newline>>
<1> DEFINE args == cmd.args
           parts == [i \in DOMAIN args |-> <<Return>> \o args[i]]
<1>1. /\ Len(args) \in 0 .. 2 /\ args \in Seq(Seq(Inner))
      /\ \A i \in 1 .. Len(args) : args[i] \in Seq(Inner)
      /\ Return \in Inner
  BY ArityFacts
<1>2. DOMAIN args = 1 .. Len(args) /\ Len(args) \in Nat
  BY <1>1
<1>3. <<Return>> \in Seq(Inner)
  BY <1>1
<1>4. \A i \in 1 .. Len(args) : <<Return>> \o args[i] \in Seq(Inner)
  BY <1>1, <1>3, ConcatProperties
<1>5. parts \in Seq(Seq(Inner)) /\ Len(parts) = Len(args)
      /\ \A i \in 1 .. Len(args) : parts[i] = <<Return>> \o args[i]
  BY <1>2, <1>4
<1>6. Encode(cmd) = (<<cmd.name>> \o FlattenSeq(parts)) \o <<Newline>>
  BY DEF Encode
<1> HIDE DEF parts
<1>7. CASE Len(args) = 0
  <2>1. FlattenSeq(parts) = parts
    BY <1>5, <1>7 DEF FlattenSeq
  <2>2. parts = <<>>
    BY <1>5, <1>7
  <2>3. Body(cmd) = <<>>
    BY <1>7 DEF Body
  <2> QED
    BY <1>6, <2>1, <2>2, <2>3
<1>8. CASE Len(args) = 1
  <2>1. FlattenSeq(parts) = parts[1]
    BY <1>5, <1>8, FlattenOne
  <2>2. parts[1] = <<Return>> \o args[1] /\ <<Return>> \o args[1] \in Seq(Inner)
    BY <1>4, <1>5, <1>8
  <2>3. Body(cmd) = <<Return>> \o args[1]
    BY <1>8 DEF Body
  <2> QED
    BY <1>6, <2>1, <2>2, <2>3
<1>9. CASE Len(args) = 2
  <2> DEFINE x == <<Return>> \o args[1]
             y == <<Return>> \o args[2]
  <2>1. FlattenSeq(parts) = parts[1] \o parts[2]
    BY <1>5, <1>9, FlattenTwo
  <2>2. parts[1] = x /\ parts[2] = y /\ x \in Seq(Inner) /\ y \in Seq(Inner)
    BY <1>4, <1>5, <1>9
  <2>3. Body(cmd) = x \o y
    BY <1>9 DEF Body
  <2> HIDE DEF x, y
  <2>4. x \o y \in Seq(Inner)
    BY <2>2, ConcatProperties
  <2> QED
    BY <1>6, <2>1, <2>2, <2>3, <2>4
<1> QED
  BY <1>1, <1>7, <1>8, <1>9

\* An encoded command is a line and the newline that ends it.
LEMMA EncodedLine ==
  ASSUME NEW cmd, IsCommand(cmd)
  PROVE  /\ LineOf(cmd) \in Seq(Inner)
         /\ LineOf(cmd) = <<cmd.name>> \o Body(cmd)
         /\ Encode(cmd) = LineOf(cmd) \o <<Newline>>
         /\ Encode(cmd) \in Seq(Bytes)
<1> DEFINE l == <<cmd.name>> \o Body(cmd)
           e == l \o <<Newline>>
<1>1. Encode(cmd) = e /\ Body(cmd) \in Seq(Inner) /\ cmd.name \in Inner /\ Newline \in Bytes
  BY EncodedParts, ArityFacts
<1>2. l \in Seq(Inner)
  <2>1. <<cmd.name>> \in Seq(Inner)
    BY <1>1
  <2> QED
    BY <1>1, <2>1, ConcatProperties
<1>3. l \in Seq(Bytes)
  <2>1. Inner \subseteq Bytes
    BY DEF Inner
  <2> HIDE DEF l
  <2> QED
    BY <1>2, <2>1, SeqMonotonic
<1> HIDE DEF l
<1>4. <<Newline>> \in Seq(Bytes) /\ Len(<<Newline>>) = 1
  BY <1>1
<1>5. e \in Seq(Bytes) /\ Len(e) = Len(l) + 1
  BY <1>3, <1>4, ConcatProperties
<1>6. SubSeq(e, 1, Len(l)) = l
  BY <1>3, <1>4, ConcatProperties, SubSeqOfConcat1, SubSeqFull
<1>7. LineOf(cmd) = l
  <2>1. LineOf(cmd) = SubSeq(e, 1, Len(e) - 1)
    BY <1>1 DEF LineOf, Front
  <2>2. Len(e) - 1 = Len(l)
    BY <1>3, <1>5
  <2> QED
    BY <2>1, <2>2, <1>6
<1> QED
  BY <1>1, <1>2, <1>5, <1>7 DEF l

-----------------------------------------------------------------------------
(* Fields of a line.                                                       *)

FieldStarts(line) ==
  {i \in DOMAIN line : line[i] # Return /\ (i = 1 \/ line[i - 1] = Return)}

IsFieldEnd(line, i, k) ==
  /\ k \in i .. Len(line)
  /\ \A j \in i .. k : line[j] # Return
  /\ k = Len(line) \/ line[k + 1] = Return

IsNth(starts, n, i) == i \in starts /\ Cardinality({j \in starts : j <= i}) = n

LEMMA FieldsAre ==
  ASSUME NEW line
  PROVE  LET starts == FieldStarts(line)
             Nth(n) == CHOOSE i : IsNth(starts, n, i)
             End(i) == CHOOSE k : IsFieldEnd(line, i, k)
         IN  Fields(line) = [n \in 1 .. Cardinality(starts) |-> SubSeq(line, Nth(n), End(Nth(n)))]
BY DEF Fields, FieldStarts, IsNth, IsFieldEnd

\* There is an n-th of finitely many numbers,
LEMMA NthExists ==
  ASSUME NEW m \in Nat, NEW starts, starts \subseteq 0 .. m,
         NEW n \in 1 .. Cardinality(starts)
  PROVE  \E i : IsNth(starts, n, i)
<1> DEFINE Upto(i) == {j \in starts : j <= i}
           T == {i \in Nat : Cardinality(Upto(i)) >= n}
<1>0. IsFiniteSet(starts)
  <2>1. 0 \in Int /\ m \in Int
    OBVIOUS
  <2> QED
    BY <2>1, FS_Interval, FS_Subset
<1>1. Cardinality(starts) \in Nat /\ n \in Nat /\ n >= 1
  BY <1>0, FS_CardinalityType
<1>2. \A i \in Nat : IsFiniteSet(Upto(i)) /\ Cardinality(Upto(i)) \in Nat
  <2> TAKE i \in Nat
  <2>1. Upto(i) \subseteq starts
    OBVIOUS
  <2> HIDE DEF Upto
  <2> QED
    BY <1>0, <2>1, FS_Subset, FS_CardinalityType
<1>3. T # {}
  <2>1. \A j \in starts : j <= m
    OBVIOUS
  <2>2. Upto(m) = starts
    BY <2>1
  <2> HIDE DEF Upto
  <2> QED
    BY <1>1, <2>2
<1>4. PICK i \in T : \A j \in T : i <= j
  <2>1. T \subseteq Nat
    OBVIOUS
  <2> HIDE DEF T
  <2> QED
    BY <1>3, <2>1, LeastNumber
<1>5. i \in Nat /\ Cardinality(Upto(i)) >= n
  OBVIOUS
<1>10. \A j \in starts : j \in Nat
  OBVIOUS
<1>11. \A j \in Nat : j < i => j \notin T
  BY <1>4, <1>5
<1> HIDE DEF T
<1>6. IsFiniteSet(Upto(i) \ {i}) /\ Cardinality(Upto(i) \ {i}) <= n - 1
  <2>1. CASE i = 0
    <3>1. Upto(i) \ {i} = {}
      <4>1. \A j \in starts : ~(j <= i /\ j # i)
        BY <1>10, <2>1
      <4> QED
        BY <4>1
    <3> HIDE DEF Upto
    <3> QED
      BY <3>1, <1>1, FS_EmptySet
  <2>2. CASE i # 0
    <3>1. i - 1 \in Nat /\ i - 1 \notin T
      BY <1>5, <1>11, <2>2
    <3>2. Upto(i) \ {i} = Upto(i - 1)
      <4>1. \A j \in starts : j <= i /\ j # i <=> j <= i - 1
        BY <1>5, <1>10
      <4> QED
        BY <4>1
    <3>3. ~(Cardinality(Upto(i - 1)) >= n)
      BY <3>1 DEF T
    <3> HIDE DEF Upto
    <3> QED
      BY <1>1, <1>2, <3>1, <3>2, <3>3
  <2> QED
    BY <2>1, <2>2
<1>7. i \in Upto(i)
  <2>1. i \notin Upto(i) => Upto(i) \ {i} = Upto(i)
    OBVIOUS
  <2> HIDE DEF Upto
  <2> QED
    BY <1>1, <1>2, <1>5, <1>6, <2>1
<1>8. Cardinality(Upto(i)) = n
  <2>1. Cardinality(Upto(i) \ {i}) = Cardinality(Upto(i)) - 1
    <3> HIDE DEF Upto
    <3> QED
      BY <1>2, <1>5, <1>7, FS_RemoveElement
  <2> HIDE DEF Upto
  <2> QED
    BY <1>1, <1>2, <1>5, <1>6, <2>1
<1>9. i \in starts
  BY <1>7
<1> QED
  BY <1>8, <1>9 DEF IsNth

\* and the first n of an ascending row are n.
LEMMA NthOfRow ==
  ASSUME NEW m \in Nat, NEW row \in [1 .. m -> Nat],
         \A j, k \in 1 .. m : j < k => row[j] < row[k],
         NEW n \in 1 .. m
  PROVE  LET starts == {row[k] : k \in 1 .. m} IN
         /\ Cardinality(starts) = m
         /\ \A i : IsNth(starts, n, i) <=> i = row[n]
<1> DEFINE starts == {row[k] : k \in 1 .. m}
           First(k) == [j \in 1 .. k |-> row[j]]
<1>1. \A j, k \in 1 .. m : row[j] = row[k] => j = k
  <2> TAKE j, k \in 1 .. m
  <2>1. j \in Nat /\ k \in Nat /\ row[j] \in Nat /\ row[k] \in Nat
    OBVIOUS
  <2>2. j < k \/ j = k \/ k < j
    BY <2>1
  <2> QED
    BY <2>1, <2>2
<1>2. ASSUME NEW k \in 0 .. m
      PROVE  Cardinality({row[j] : j \in 1 .. k}) = k
  <2> DEFINE S == {row[j] : j \in 1 .. k}
             f == First(k)
  <2>1. \A j \in 1 .. k : j \in 1 .. m
    OBVIOUS
  <2>2. f \in Bijection(1 .. k, S)
    <3>1. f \in [1 .. k -> S]
      OBVIOUS
    <3>2. \A a, b \in 1 .. k : f[a] = f[b] => a = b
      BY <1>1, <2>1
    <3>3. \A t \in S : \E s \in 1 .. k : f[s] = t
      OBVIOUS
    <3> HIDE DEF f, S
    <3> QED
      BY <3>1, <3>2, <3>3 DEF Bijection, Injection, Surjection, IsInjective
  <2>3. ExistsBijection(1 .. k, S)
    BY <2>2 DEF ExistsBijection
  <2>4. IsFiniteSet(1 .. k) /\ Cardinality(1 .. k) = k
    <3>1. 1 \in Int /\ k \in Int
      OBVIOUS
    <3> QED
      BY <3>1, FS_Interval
  <2> HIDE DEF S
  <2>5. IsFiniteSet(S) /\ Cardinality(S) = Cardinality(1 .. k)
    BY <2>3, <2>4, FS_Bijection
  <2> QED
    BY <2>4, <2>5 DEF S
<1>3. \A k \in 1 .. m : {j \in starts : j <= row[k]} = {row[j] : j \in 1 .. k}
  <2> TAKE k \in 1 .. m
  <2>1. \A j \in 1 .. m : row[j] <= row[k] <=> j <= k
    <3> TAKE j \in 1 .. m
    <3>1. j \in Nat /\ k \in Nat /\ row[j] \in Nat /\ row[k] \in Nat
      OBVIOUS
    <3>2. j < k \/ j = k \/ k < j
      BY <3>1
    <3> QED
      BY <3>1, <3>2
  <2>2. \A j \in 1 .. m : j <= k <=> j \in 1 .. k
    OBVIOUS
  <2>3. \A j \in 1 .. k : j \in 1 .. m
    OBVIOUS
  <2> QED
    BY <2>1, <2>2, <2>3
<1>4. \A k \in 1 .. m : Cardinality({j \in starts : j <= row[k]}) = k
  <2> TAKE k \in 1 .. m
  <2>1. k \in 0 .. m
    OBVIOUS
  <2> QED
    BY <1>2, <1>3, <2>1
<1>5. Cardinality(starts) = m
  <2>1. m \in 0 .. m
    OBVIOUS
  <2> QED
    BY <1>2, <2>1
<1>6. ASSUME NEW i
      PROVE  IsNth(starts, n, i) <=> i = row[n]
  <2>1. IsNth(starts, n, i) => \E k \in 1 .. m : i = row[k] /\ k = n
    BY <1>4 DEF IsNth
  <2>2. i = row[n] => i \in starts /\ Cardinality({j \in starts : j <= i}) = n
    BY <1>4
  <2> HIDE DEF starts
  <2> QED
    BY <2>1, <2>2 DEF IsNth
<1> HIDE DEF First
<1> QED
  BY <1>5, <1>6

(* Where a field ends.                                                    *)
LEMMA FieldEndExists ==
  ASSUME NEW line \in Seq(Bytes), NEW i \in FieldStarts(line)
  PROVE  \E k : IsFieldEnd(line, i, k)
<1> DEFINE T == {k \in Nat : k >= i /\ (k = Len(line) \/ line[k + 1] = Return)}
<1>1. i \in 1 .. Len(line) /\ line[i] # Return /\ Len(line) \in Nat
  BY DEF FieldStarts
<1>2. T # {}
  <2>1. Len(line) \in T
    BY <1>1
  <2> QED
    BY <2>1
<1>3. PICK k \in T : \A j \in T : k <= j
  <2>1. T \subseteq Nat
    OBVIOUS
  <2> HIDE DEF T
  <2> QED
    BY <1>2, <2>1, LeastNumber
<1>4. k \in Nat /\ k >= i /\ (k = Len(line) \/ line[k + 1] = Return) /\ k <= Len(line)
  BY <1>1, <1>3
<1>5. ASSUME NEW j \in i .. k PROVE line[j] # Return
  <2>1. j \in Nat /\ j >= i /\ j <= k
    BY <1>1, <1>4
  <2>2. CASE j = i
    BY <1>1, <2>2
  <2>3. CASE j # i
    <3>1. j - 1 \in Nat /\ j - 1 >= i /\ ~(k <= j - 1)
      BY <1>1, <1>4, <2>1, <2>3
    <3>2. j - 1 \notin T
      BY <1>3, <3>1
    <3>3. line[(j - 1) + 1] # Return
      BY <3>1, <3>2
    <3>4. (j - 1) + 1 = j
      BY <2>1
    <3> QED
      BY <3>3, <3>4
  <2> QED
    BY <2>2, <2>3
<1>6. k \in i .. Len(line)
  BY <1>1, <1>4
<1> QED
  BY <1>4, <1>5, <1>6 DEF IsFieldEnd

LEMMA FieldEndUnique ==
  ASSUME NEW line \in Seq(Bytes), NEW i \in Nat, NEW k, IsFieldEnd(line, i, k),
         NEW h, IsFieldEnd(line, i, h)
  PROVE  h = k
<1>1. k \in Nat /\ h \in Nat /\ k >= i /\ h >= i /\ k <= Len(line) /\ h <= Len(line)
      /\ Len(line) \in Nat
  BY DEF IsFieldEnd
<1>2. ~(k < h)
  <2> SUFFICES ASSUME k < h PROVE FALSE
    OBVIOUS
  <2>1. k + 1 \in i .. h /\ k # Len(line)
    BY <1>1
  <2> QED
    BY <2>1 DEF IsFieldEnd
<1>3. ~(h < k)
  <2> SUFFICES ASSUME h < k PROVE FALSE
    OBVIOUS
  <2>1. h + 1 \in i .. k /\ h # Len(line)
    BY <1>1
  <2> QED
    BY <2>1 DEF IsFieldEnd
<1> QED
  BY <1>1, <1>2, <1>3

\* Every field has a byte, and no separator.
LEMMA FieldsTyped ==
  ASSUME NEW line \in Seq(Bytes)
  PROVE  /\ Fields(line) \in Seq(Seq(Bytes))
         /\ \A n \in 1 .. Len(Fields(line)) :
              /\ Fields(line)[n] # <<>>
              /\ \A j \in DOMAIN Fields(line)[n] : Fields(line)[n][j] # Return
<1> DEFINE starts == FieldStarts(line)
           Nth(n) == CHOOSE i : IsNth(starts, n, i)
           End(i) == CHOOSE k : IsFieldEnd(line, i, k)
           Field(n) == SubSeq(line, Nth(n), End(Nth(n)))
           m == Cardinality(starts)
<1>1. Fields(line) = [n \in 1 .. m |-> Field(n)]
  BY FieldsAre
<1>2. starts \subseteq 1 .. Len(line) /\ Len(line) \in Nat
  BY DEF FieldStarts
<1>3. m \in Nat
  <2>1. 1 \in Int /\ Len(line) \in Int
    BY <1>2
  <2> HIDE DEF starts
  <2> QED
    BY <1>2, <2>1, FS_Interval, FS_Subset, FS_CardinalityType
<1>4. ASSUME NEW n \in 1 .. m
      PROVE  /\ Field(n) \in Seq(Bytes)
             /\ Field(n) # <<>>
             /\ \A j \in DOMAIN Field(n) : Field(n)[j] # Return
  <2> DEFINE i == Nth(n)
             k == End(i)
  <2>1. \E x : IsNth(starts, n, x)
    <3>1. starts \subseteq 0 .. Len(line)
      BY <1>2
    <3> HIDE DEF starts
    <3> QED
      BY <1>2, <3>1, NthExists
  <2>2. IsNth(starts, n, i)
    BY <2>1
  <2>3. i \in starts
    BY <2>2 DEF IsNth
  <2>4. \E x : IsFieldEnd(line, i, x)
    <3> HIDE DEF i
    <3> QED
      BY <2>3, FieldEndExists
  <2>5. IsFieldEnd(line, i, k)
    BY <2>4
  <2> HIDE DEF i, k
  <2>6. /\ i \in 1 .. Len(line) + 1 /\ k \in i - 1 .. Len(line) /\ k \in i .. Len(line)
    BY <1>2, <2>3, <2>5 DEF IsFieldEnd
  <2> DEFINE f == SubSeq(line, i, k)
  <2>7. /\ f \in Seq(Bytes) /\ Len(f) = k - i + 1
        /\ \A j \in 1 .. k - i + 1 : f[j] = line[i + j - 1]
    BY <2>6, SubSeqTyped
  <2>8. Field(n) = f
    BY DEF i, k
  <2> HIDE DEF f
  <2>9. f # <<>>
    BY <2>6, <2>7
  <2>10. ASSUME NEW j \in DOMAIN f PROVE f[j] # Return
    <3>1. j \in 1 .. k - i + 1
      BY <2>7
    <3>2. i + j - 1 \in i .. k
      BY <1>2, <2>6, <3>1
    <3> QED
      BY <2>5, <2>7, <3>1, <3>2 DEF IsFieldEnd
  <2> QED
    BY <2>7, <2>8, <2>9, <2>10
<1> HIDE DEF Field, m
<1>5. Fields(line) \in Seq(Seq(Bytes)) /\ Len(Fields(line)) = m
  BY <1>1, <1>3, <1>4
<1>6. ASSUME NEW n \in 1 .. Len(Fields(line))
      PROVE  Fields(line)[n] = Field(n) /\ n \in 1 .. m
  BY <1>1, <1>5
<1> QED
  BY <1>4, <1>5, <1>6

\* The fields of a line that is cut at row and ends.
CutAt(line, m, row, ends) ==
  /\ row \in [1 .. m -> Nat]
  /\ \A i : i \in FieldStarts(line) <=> \E n \in 1 .. m : i = row[n]
  /\ \A j, k \in 1 .. m : j < k => row[j] < row[k]
  /\ \A n \in 1 .. m : IsFieldEnd(line, row[n], ends[n])

LEMMA FieldsAt ==
  ASSUME NEW line \in Seq(Bytes), NEW m \in Nat, NEW row, NEW ends,
         CutAt(line, m, row, ends)
  PROVE  Fields(line) = [n \in 1 .. m |-> SubSeq(line, row[n], ends[n])]
<1> DEFINE starts == FieldStarts(line)
           Nth(n) == CHOOSE i : IsNth(starts, n, i)
           End(i) == CHOOSE k : IsFieldEnd(line, i, k)
<1>0. /\ row \in [1 .. m -> Nat]
      /\ \A j, k \in 1 .. m : j < k => row[j] < row[k]
      /\ \A n \in 1 .. m : IsFieldEnd(line, row[n], ends[n])
      /\ starts = {row[n] : n \in 1 .. m}
  BY DEF CutAt
<1>1. Fields(line) = [n \in 1 .. Cardinality(starts) |-> SubSeq(line, Nth(n), End(Nth(n)))]
  BY FieldsAre
<1>2. \A n \in 1 .. m : Cardinality(starts) = m /\ \A i : IsNth(starts, n, i) <=> i = row[n]
  <2> TAKE n \in 1 .. m
  <2>1. /\ Cardinality({row[k] : k \in 1 .. m}) = m
        /\ \A i : IsNth({row[k] : k \in 1 .. m}, n, i) <=> i = row[n]
    BY <1>0, NthOfRow
  <2> QED
    BY <1>0, <2>1
<1>3. Cardinality(starts) = m
  <2>1. CASE m = 0
    <3>1. starts = {}
      BY <1>0, <2>1
    <3> QED
      BY <2>1, <3>1, FS_EmptySet
  <2>2. CASE m # 0
    <3>1. 1 \in 1 .. m
      BY <2>2
    <3> QED
      BY <1>2, <3>1
  <2> QED
    BY <2>1, <2>2
<1>4. ASSUME NEW n \in 1 .. m PROVE Nth(n) = row[n]
  BY <1>2
<1>5. ASSUME NEW n \in 1 .. m PROVE End(row[n]) = ends[n]
  <2>1. IsFieldEnd(line, row[n], ends[n]) /\ row[n] \in Nat
    BY <1>0
  <2>2. IsFieldEnd(line, row[n], End(row[n]))
    BY <2>1
  <2> HIDE DEF End
  <2> QED
    BY <2>1, <2>2, FieldEndUnique
<1> HIDE DEF Nth, End, starts
<1> QED
  BY <1>1, <1>3, <1>4, <1>5

\* A line with no, one or two arguments, byte by byte.
LEMMA LineBytes ==
  ASSUME NEW cmd, IsCommand(cmd)
  PROVE  LET line == LineOf(cmd)
             a == cmd.args[1]
             b == cmd.args[2]
         IN  /\ line \in Seq(Bytes) /\ line[1] = cmd.name
             /\ Len(cmd.args) = 0 => Len(line) = 1
             /\ Len(cmd.args) = 1 =>
                  /\ a \in Seq(Inner) /\ Len(line) = 2 + Len(a) /\ line[2] = Return
                  /\ \A i \in 1 .. Len(a) : line[2 + i] = a[i]
             /\ Len(cmd.args) = 2 =>
                  /\ a \in Seq(Inner) /\ b \in Seq(Inner)
                  /\ Len(line) = 3 + Len(a) + Len(b)
                  /\ line[2] = Return /\ line[3 + Len(a)] = Return
                  /\ \A i \in 1 .. Len(a) : line[2 + i] = a[i]
                  /\ \A i \in 1 .. Len(b) : line[3 + Len(a) + i] = b[i]
<1> DEFINE line == LineOf(cmd)
           a == cmd.args[1]
           b == cmd.args[2]
           name == <<cmd.name>>
           body == Body(cmd)
           ra == <<Return>> \o a
           rb == <<Return>> \o b
<1>1. /\ line = name \o body /\ body \in Seq(Inner) /\ cmd.name \in Inner /\ Return \in Inner
      /\ line \in Seq(Inner)
  BY EncodedLine, EncodedParts, ArityFacts
<1>2. /\ 1 <= Len(cmd.args) => a \in Seq(Inner)
      /\ 2 <= Len(cmd.args) => b \in Seq(Inner)
  BY ArityFacts
<1>3. line \in Seq(Bytes)
  <2>1. Inner \subseteq Bytes
    BY DEF Inner
  <2> HIDE DEF line
  <2> QED
    BY <1>1, <2>1, SeqMonotonic
<1>4. name \in Seq(Inner) /\ Len(name) = 1 /\ name[1] = cmd.name
  BY <1>1
<1> HIDE DEF body, name, line
<1>5. /\ Len(line) = 1 + Len(body) /\ line[1] = cmd.name /\ Len(body) \in Nat
      /\ \A i \in 1 .. Len(body) : line[1 + i] = body[i]
  <2>1. /\ Len(line) = Len(name) + Len(body)
        /\ \A i \in 1 .. Len(name) + Len(body) :
             line[i] = IF i <= Len(name) THEN name[i] ELSE body[i - Len(name)]
    BY <1>1, <1>4, ConcatProperties
  <2>2. Len(body) \in Nat
    BY <1>1
  <2>3. ASSUME NEW i \in 1 .. Len(body) PROVE line[1 + i] = body[i]
    <3>1. 1 + i \in 1 .. 1 + Len(body) /\ ~(1 + i <= 1) /\ (1 + i) - 1 = i
      BY <2>2
    <3> QED
      BY <1>4, <2>1, <3>1
  <2>4. line[1] = name[1]
    <3>1. 1 \in 1 .. 1 + Len(body)
      BY <2>2
    <3> QED
      BY <1>4, <2>1, <3>1
  <2> QED
    BY <1>4, <2>1, <2>2, <2>3, <2>4
<1>6. ASSUME NEW x \in Seq(Inner)
      PROVE  /\ <<Return>> \o x \in Seq(Inner)
             /\ Len(<<Return>> \o x) = 1 + Len(x)
             /\ (<<Return>> \o x)[1] = Return
             /\ \A i \in 1 .. Len(x) : (<<Return>> \o x)[1 + i] = x[i]
  <2> DEFINE r == <<Return>>
             y == r \o x
  <2>1. r \in Seq(Inner) /\ Len(r) = 1 /\ r[1] = Return /\ Len(x) \in Nat
    BY <1>1
  <2> HIDE DEF r
  <2>2. /\ y \in Seq(Inner) /\ Len(y) = Len(r) + Len(x)
        /\ \A i \in 1 .. Len(r) + Len(x) :
             y[i] = IF i <= Len(r) THEN r[i] ELSE x[i - Len(r)]
    BY <2>1, ConcatProperties
  <2> HIDE DEF y
  <2>3. ASSUME NEW i \in 1 .. Len(x) PROVE y[1 + i] = x[i]
    <3>1. 1 + i \in 1 .. 1 + Len(x) /\ ~(1 + i <= 1) /\ (1 + i) - 1 = i
      BY <2>1
    <3> QED
      BY <2>1, <2>2, <3>1
  <2>4. y[1] = Return
    <3>1. 1 \in 1 .. 1 + Len(x)
      BY <2>1
    <3> QED
      BY <2>1, <2>2, <3>1
  <2> QED
    BY <2>1, <2>2, <2>3, <2>4 DEF y, r
<1>7. CASE Len(cmd.args) = 0
  <2>1. body = <<>>
    BY <1>7 DEF body, Body
  <2> QED
    BY <1>3, <1>5, <1>7, <2>1 DEF line
<1>8. CASE Len(cmd.args) = 1
  <2>1. body = ra
    BY <1>8 DEF body, Body
  <2>2. a \in Seq(Inner) /\ Len(a) \in Nat
    BY <1>2, <1>8
  <2>3. /\ Len(ra) = 1 + Len(a) /\ ra[1] = Return
        /\ \A i \in 1 .. Len(a) : ra[1 + i] = a[i]
    BY <1>6, <2>2
  <2> HIDE DEF ra, a
  <2>4. line[2] = Return
    <3>1. 1 \in 1 .. Len(body) /\ 1 + 1 = 2
      BY <2>1, <2>2, <2>3
    <3> QED
      BY <1>5, <2>1, <2>3, <3>1
  <2>5. ASSUME NEW i \in 1 .. Len(a) PROVE line[2 + i] = a[i]
    <3>1. 1 + i \in 1 .. Len(body) /\ 1 + (1 + i) = 2 + i
      BY <2>1, <2>2, <2>3
    <3>2. line[1 + (1 + i)] = body[1 + i]
      BY <1>5, <3>1
    <3> QED
      BY <2>1, <2>3, <3>1, <3>2
  <2>6. Len(line) = 2 + Len(a)
    BY <1>5, <2>1, <2>2, <2>3
  <2> QED
    BY <1>3, <1>5, <1>8, <2>2, <2>4, <2>5, <2>6 DEF line, a
<1>9. CASE Len(cmd.args) = 2
  <2>1. body = ra \o rb
    BY <1>9 DEF body, Body
  <2>2. a \in Seq(Inner) /\ Len(a) \in Nat /\ b \in Seq(Inner) /\ Len(b) \in Nat
    BY <1>2, <1>9
  <2>3. /\ ra \in Seq(Inner) /\ Len(ra) = 1 + Len(a) /\ ra[1] = Return
        /\ \A i \in 1 .. Len(a) : ra[1 + i] = a[i]
    BY <1>6, <2>2
  <2>4. /\ rb \in Seq(Inner) /\ Len(rb) = 1 + Len(b) /\ rb[1] = Return
        /\ \A i \in 1 .. Len(b) : rb[1 + i] = b[i]
    BY <1>6, <2>2
  <2> HIDE DEF ra, rb, a, b
  <2>5. /\ Len(body) = Len(ra) + Len(rb)
        /\ \A i \in 1 .. Len(ra) + Len(rb) :
             body[i] = IF i <= Len(ra) THEN ra[i] ELSE rb[i - Len(ra)]
    <3> DEFINE z == ra \o rb
    <3>1. /\ Len(z) = Len(ra) + Len(rb)
          /\ \A i \in 1 .. Len(ra) + Len(rb) :
               z[i] = IF i <= Len(ra) THEN ra[i] ELSE rb[i - Len(ra)]
      <4>1. ra \in Seq(Inner) /\ rb \in Seq(Inner)
        BY <2>3, <2>4
      <4> QED
        BY <4>1, ConcatProperties
    <3>2. body = z
      BY <2>1
    <3> HIDE DEF z
    <3> QED
      BY <3>1, <3>2
  <2>6. line[2] = Return
    <3>1. 1 \in 1 .. Len(body) /\ 1 + 1 = 2 /\ 1 <= Len(ra)
      BY <2>2, <2>3, <2>4, <2>5
    <3> QED
      BY <1>5, <2>3, <2>5, <3>1
  <2>7. ASSUME NEW i \in 1 .. Len(a) PROVE line[2 + i] = a[i]
    <3>1. 1 + i \in 1 .. Len(body) /\ 1 + (1 + i) = 2 + i /\ 1 + i <= Len(ra)
      BY <2>2, <2>3, <2>4, <2>5
    <3>2. line[1 + (1 + i)] = body[1 + i] /\ body[1 + i] = ra[1 + i]
      BY <1>5, <2>5, <3>1
    <3> QED
      BY <2>3, <3>1, <3>2
  <2>8. line[3 + Len(a)] = Return
    <3> DEFINE j == 2 + Len(a)
    <3>1. j \in 1 .. Len(body) /\ 1 + j = 3 + Len(a) /\ ~(j <= Len(ra)) /\ j - Len(ra) = 1
      BY <2>2, <2>3, <2>4, <2>5
    <3>2. line[1 + j] = body[j] /\ body[j] = rb[j - Len(ra)]
      BY <1>5, <2>5, <3>1
    <3> QED
      BY <2>4, <3>1, <3>2
  <2>9. ASSUME NEW i \in 1 .. Len(b) PROVE line[3 + Len(a) + i] = b[i]
    <3> DEFINE j == 2 + Len(a) + i
    <3>1. /\ j \in 1 .. Len(body) /\ 1 + j = 3 + Len(a) + i
          /\ ~(j <= Len(ra)) /\ j - Len(ra) = 1 + i
      BY <2>2, <2>3, <2>4, <2>5
    <3>2. line[1 + j] = body[j] /\ body[j] = rb[j - Len(ra)]
      BY <1>5, <2>5, <3>1
    <3> QED
      BY <2>4, <3>1, <3>2
  <2>10. Len(line) = 3 + Len(a) + Len(b)
    BY <1>5, <2>2, <2>3, <2>4, <2>5
  <2>11. /\ a \in Seq(Inner) /\ b \in Seq(Inner)
         /\ Len(line) = 3 + Len(a) + Len(b)
         /\ line[2] = Return /\ line[3 + Len(a)] = Return
         /\ \A i \in 1 .. Len(a) : line[2 + i] = a[i]
         /\ \A i \in 1 .. Len(b) : line[3 + Len(a) + i] = b[i]
    BY <2>2, <2>6, <2>7, <2>8, <2>9, <2>10
  <2>12. line \in Seq(Bytes) /\ line[1] = cmd.name
    BY <1>3, <1>5
  <2>13. Len(cmd.args) # 0 /\ Len(cmd.args) # 1
    BY <1>9
  <2> QED
    BY <2>11, <2>12, <2>13, Zenon DEF line, a, b
<1>10. Len(cmd.args) = 0 \/ Len(cmd.args) = 1 \/ Len(cmd.args) = 2
  <2>1. Len(cmd.args) \in 0 .. 2
    BY ArityFacts
  <2> QED
    BY <2>1
<1> QED
  BY <1>7, <1>8, <1>9, <1>10

\* A well-formed command is what its line decodes to.
LEMMA WellFormedFields ==
  ASSUME NEW cmd, IsCommand(cmd), WellFormed(cmd)
  PROVE  Fields(LineOf(cmd)) =
           [n \in 1 .. Len(cmd.args) + 1 |-> IF n = 1 THEN <<cmd.name>> ELSE cmd.args[n - 1]]
<1> DEFINE line == LineOf(cmd)
           a == cmd.args[1]
           b == cmd.args[2]
           m == Len(cmd.args)
           fields == [n \in 1 .. m + 1 |-> IF n = 1 THEN <<cmd.name>> ELSE cmd.args[n - 1]]
<1>1. /\ m \in 0 .. 2 /\ cmd.name # Return /\ cmd.name \in Inner
      /\ cmd.args \in Seq(Seq(Inner))
  BY ArityFacts
<1>2. \A i \in 1 .. m : cmd.args[i] # <<>> /\ \A j \in DOMAIN cmd.args[i] : cmd.args[i][j] # Return
  BY <1>1 DEF WellFormed
<1>3. line \in Seq(Bytes) /\ line[1] = cmd.name
  BY LineBytes
<1>4. m = 1 => /\ a \in Seq(Inner) /\ Len(line) = 2 + Len(a) /\ line[2] = Return
               /\ \A i \in 1 .. Len(a) : line[2 + i] = a[i]
  BY LineBytes
<1>5. m = 2 => /\ a \in Seq(Inner) /\ b \in Seq(Inner)
               /\ Len(line) = 3 + Len(a) + Len(b)
               /\ line[2] = Return /\ line[3 + Len(a)] = Return
               /\ \A i \in 1 .. Len(a) : line[2 + i] = a[i]
               /\ \A i \in 1 .. Len(b) : line[3 + Len(a) + i] = b[i]
  BY LineBytes
<1>6. m = 0 => Len(line) = 1
  BY LineBytes
<1>7. ASSUME NEW x \in Seq(Inner), x # <<>>
      PROVE  Len(x) \in Nat /\ Len(x) >= 1 /\ DOMAIN x = 1 .. Len(x)
  BY <1>7, EmptySeq
<1>8. /\ m \in {1, 2} => /\ Len(a) \in Nat /\ Len(a) >= 1
                         /\ \A i \in 1 .. Len(a) : a[i] # Return
      /\ m = 2 => /\ Len(b) \in Nat /\ Len(b) >= 1
                  /\ \A i \in 1 .. Len(b) : b[i] # Return
  BY <1>2, <1>4, <1>5, <1>7
<1> HIDE DEF line, a, b
<1>9. ASSUME NEW from \in 1 .. Len(line), NEW to \in from .. Len(line), NEW s \in Seq(Inner),
             Len(s) = to - from + 1, \A i \in 1 .. Len(s) : line[from + i - 1] = s[i]
      PROVE  SubSeq(line, from, to) = s
  <2>1. from \in 1 .. Len(line) + 1 /\ to \in from - 1 .. Len(line) /\ Len(line) \in Nat
    BY <1>3
  <2>2. /\ SubSeq(line, from, to) \in Seq(Bytes)
        /\ Len(SubSeq(line, from, to)) = to - from + 1
        /\ \A i \in 1 .. to - from + 1 : SubSeq(line, from, to)[i] = line[from + i - 1]
    BY <1>3, <2>1, SubSeqTyped
  <2>3. s \in Seq(Bytes)
    <3>1. Inner \subseteq Bytes
      BY DEF Inner
    <3> QED
      BY <3>1, SeqMonotonic
  <2>4. \A i \in 1 .. Len(s) : SubSeq(line, from, to)[i] = s[i]
    BY <1>9, <2>2
  <2> QED
    BY <1>9, <2>2, <2>3, <2>4, SeqEqual
<1>10. <<cmd.name>> \in Seq(Inner) /\ Len(<<cmd.name>>) = 1 /\ <<cmd.name>>[1] = cmd.name
  BY <1>1
<1>15. Len(line) >= 1 => SubSeq(line, 1, 1) = <<cmd.name>>
  <2> SUFFICES ASSUME Len(line) >= 1 PROVE SubSeq(line, 1, 1) = <<cmd.name>>
    OBVIOUS
  <2>1. 1 \in 1 .. Len(line) /\ 1 \in 1 .. Len(line) /\ 1 = 1 - 1 + 1
    BY <1>3
  <2> DEFINE s == <<cmd.name>>
  <2>2. s \in Seq(Inner) /\ Len(s) = 1 - 1 + 1 /\ \A i \in 1 .. Len(s) : line[1 + i - 1] = s[i]
    BY <1>3, <1>10
  <2> HIDE DEF s
  <2>3. SubSeq(line, 1, 1) = s
    BY <1>9, <2>1, <2>2
  <2> QED
    BY <2>3 DEF s
<1>11. CASE m = 0
  <2> DEFINE row == [n \in 1 .. 1 |-> 1]
  <2>0. Len(line) = 1 /\ DOMAIN line = 1 .. 1
    BY <1>3, <1>6, <1>11
  <2>1. \A i : i \in FieldStarts(line) <=> i = 1
    BY <1>1, <1>3, <2>0 DEF FieldStarts
  <2>2. IsFieldEnd(line, 1, 1)
    BY <1>1, <1>3, <2>0 DEF IsFieldEnd
  <2>3. row \in [1 .. 1 -> Nat] /\ \A j, k \in 1 .. 1 : ~(j < k)
    OBVIOUS
  <2>4. \A n \in 1 .. 1 : n = 1 /\ row[n] = 1
    OBVIOUS
  <2> HIDE DEF row
  <2>5. CutAt(line, 1, row, row)
    <3>1. 1 \in 1 .. 1
      OBVIOUS
    <3> QED
      BY <2>1, <2>2, <2>3, <2>4, <3>1 DEF CutAt
  <2>6. Fields(line) = [n \in 1 .. 1 |-> SubSeq(line, row[n], row[n])]
    BY <1>3, <2>5, FieldsAt
  <2>7. SubSeq(line, 1, 1) = <<cmd.name>>
    BY <1>15, <2>0
  <2>8. m + 1 = 1
    BY <1>11
  <2>9. \A n \in 1 .. 1 : SubSeq(line, row[n], row[n]) = IF n = 1 THEN <<cmd.name>> ELSE cmd.args[n - 1]
    BY <2>4, <2>7
  <2> QED
    BY <2>6, <2>8, <2>9 DEF line
<1>12. CASE m = 1
  <2> DEFINE row == [n \in 1 .. 2 |-> IF n = 1 THEN 1 ELSE 3]
             ends == [n \in 1 .. 2 |-> IF n = 1 THEN 1 ELSE 2 + Len(a)]
  <2>0. /\ Len(a) \in Nat /\ Len(a) >= 1 /\ Len(line) = 2 + Len(a) /\ line[2] = Return
        /\ a \in Seq(Inner)
        /\ \A i \in 1 .. Len(a) : line[2 + i] = a[i]
        /\ \A i \in 1 .. Len(a) : line[2 + i] # Return
    BY <1>4, <1>8, <1>12
  <2>1. \A i \in 3 .. 2 + Len(a) : line[i] # Return
    <3> TAKE i \in 3 .. 2 + Len(a)
    <3>1. i - 2 \in 1 .. Len(a) /\ 2 + (i - 2) = i
      BY <2>0
    <3> QED
      BY <2>0, <3>1
  <2>2. FieldStarts(line) = {1, 3}
    <3>1. DOMAIN line = 1 .. 2 + Len(a)
      BY <1>3, <2>0
    <3>2. \A i \in 1 .. 2 + Len(a) :
            (line[i] # Return /\ (i = 1 \/ line[i - 1] = Return)) <=> i \in {1, 3}
      <4> TAKE i \in 1 .. 2 + Len(a)
      <4>1. i = 1 \/ i = 2 \/ i = 3 \/ (i - 1 \in 3 .. 2 + Len(a))
        BY <2>0
      <4>2. 3 \in 3 .. 2 + Len(a)
        BY <2>0
      <4> QED
        BY <1>1, <1>3, <2>0, <2>1, <4>1, <4>2
    <3>3. 1 \in 1 .. 2 + Len(a) /\ 3 \in 1 .. 2 + Len(a)
      BY <2>0
    <3> QED
      BY <3>1, <3>2, <3>3 DEF FieldStarts
  <2>3. row[1] = 1 /\ row[2] = 3 /\ ends[1] = 1 /\ ends[2] = 2 + Len(a)
    OBVIOUS
  <2>4. row \in [1 .. 2 -> Nat] /\ \A j, k \in 1 .. 2 : j < k => row[j] < row[k]
    OBVIOUS
  <2> HIDE DEF row, ends
  <2>5. \A i : i \in FieldStarts(line) <=> \E n \in 1 .. 2 : i = row[n]
    BY <2>2, <2>3
  <2>6. \A n \in 1 .. 2 : IsFieldEnd(line, row[n], ends[n])
    <3>1. IsFieldEnd(line, 1, 1)
      BY <1>1, <1>3, <2>0 DEF IsFieldEnd
    <3>2. IsFieldEnd(line, 3, 2 + Len(a))
      BY <2>0, <2>1 DEF IsFieldEnd
    <3> QED
      BY <2>3, <3>1, <3>2
  <2>7. Fields(line) = [n \in 1 .. 2 |-> SubSeq(line, row[n], ends[n])]
    <3>1. CutAt(line, 2, row, ends)
      BY <2>4, <2>5, <2>6 DEF CutAt
    <3> QED
      BY <1>3, <3>1, FieldsAt
  <2>8. SubSeq(line, 1, 1) = <<cmd.name>>
    BY <1>15, <2>0
  <2>9. SubSeq(line, 3, 2 + Len(a)) = a
    <3>1. 3 \in 1 .. Len(line) /\ 2 + Len(a) \in 3 .. Len(line) /\ Len(a) = 2 + Len(a) - 3 + 1
      BY <2>0
    <3>2. \A i \in 1 .. Len(a) : line[3 + i - 1] = a[i]
      BY <2>0
    <3> QED
      BY <1>9, <2>0, <3>1, <3>2
  <2>10. ASSUME NEW n \in 1 .. 2
         PROVE  SubSeq(line, row[n], ends[n]) = IF n = 1 THEN <<cmd.name>> ELSE cmd.args[n - 1]
    <3>1. n = 1 \/ n = 2
      OBVIOUS
    <3>2. cmd.args[2 - 1] = a
      BY DEF a
    <3> QED
      BY <2>3, <2>8, <2>9, <3>1, <3>2
  <2> QED
    BY <1>12, <2>7, <2>10 DEF line
<1>13. CASE m = 2
  <2> DEFINE p == Len(a)
             q == Len(b)
             row == [n \in 1 .. 3 |-> IF n = 1 THEN 1 ELSE IF n = 2 THEN 3 ELSE 4 + p]
             ends == [n \in 1 .. 3 |-> IF n = 1 THEN 1 ELSE IF n = 2 THEN 2 + p ELSE 3 + p + q]
  <2>0. /\ p \in Nat /\ p >= 1 /\ q \in Nat /\ q >= 1 /\ Len(line) = 3 + p + q
        /\ line[2] = Return /\ line[3 + p] = Return
        /\ a \in Seq(Inner) /\ b \in Seq(Inner)
        /\ \A i \in 1 .. p : line[2 + i] = a[i]
        /\ \A i \in 1 .. p : line[2 + i] # Return
        /\ \A i \in 1 .. q : line[3 + p + i] = b[i]
        /\ \A i \in 1 .. q : line[3 + p + i] # Return
    BY <1>5, <1>8, <1>13
  <2> HIDE DEF p, q
  <2>1. \A i \in 3 .. 2 + p : line[i] # Return
    <3> TAKE i \in 3 .. 2 + p
    <3>1. i - 2 \in 1 .. p /\ 2 + (i - 2) = i
      BY <2>0
    <3> QED
      BY <2>0, <3>1
  <2>11. \A i \in 4 + p .. 3 + p + q : line[i] # Return
    <3> TAKE i \in 4 + p .. 3 + p + q
    <3>1. i - (3 + p) \in 1 .. q /\ 3 + p + (i - (3 + p)) = i
      BY <2>0, SMTT(30)
    <3> QED
      BY <2>0, <3>1
  <2>2. FieldStarts(line) = {1, 3, 4 + p}
    <3>1. DOMAIN line = 1 .. 3 + p + q
      BY <1>3, <2>0
    <3>2. \A i \in 1 .. 3 + p + q :
            (line[i] # Return /\ (i = 1 \/ line[i - 1] = Return)) <=> i \in {1, 3, 4 + p}
      <4> TAKE i \in 1 .. 3 + p + q
      <4>1. \/ i = 1 \/ i = 2 \/ i = 3
            \/ i \in 4 .. 2 + p /\ i - 1 \in 3 .. 2 + p
            \/ i = 3 + p
            \/ i = 4 + p
            \/ i # 4 + p /\ i # 3 /\ i - 1 \in 4 + p .. 3 + p + q
        BY <2>0, SMTT(30)
      <4>2. 3 \in 3 .. 2 + p /\ 4 + p \in 4 + p .. 3 + p + q /\ (4 + p) - 1 = 3 + p
        BY <2>0
      <4>3. i \in 4 .. 2 + p => i \notin {1, 3, 4 + p} /\ i # 1
        BY <2>0
      <4>4. i = 3 + p => i \notin {1, 3, 4 + p}
        BY <2>0
      <4>5. i - 1 \in 4 + p .. 3 + p + q => i # 1
        BY <2>0
      <4>6. line[1] # Return /\ line[3] # Return /\ line[4 + p] # Return
        BY <1>1, <1>3, <2>1, <2>11, <4>2, <2>0
      <4>7. CASE i \in {1, 3, 4 + p}
        <5>1. i # 1 => line[i - 1] = Return
          BY <2>0, <4>2, <4>7, SMTT(30)
        <5> QED
          BY <4>6, <4>7, <5>1
      <4>8. CASE i = 2
        BY <2>0, <4>8
      <4>9. CASE i \in 4 .. 2 + p /\ i - 1 \in 3 .. 2 + p
        BY <2>1, <4>3, <4>9
      <4>10. CASE i = 3 + p
        BY <2>0, <4>4, <4>10
      <4>11. CASE i # 4 + p /\ i # 3 /\ i - 1 \in 4 + p .. 3 + p + q
        BY <2>11, <4>5, <4>11
      <4> QED
        BY <4>1, <4>7, <4>8, <4>9, <4>10, <4>11
    <3>3. 1 \in 1 .. 3 + p + q /\ 3 \in 1 .. 3 + p + q /\ 4 + p \in 1 .. 3 + p + q
      BY <2>0
    <3> QED
      BY <3>1, <3>2, <3>3 DEF FieldStarts
  <2>3. /\ row[1] = 1 /\ row[2] = 3 /\ row[3] = 4 + p
        /\ ends[1] = 1 /\ ends[2] = 2 + p /\ ends[3] = 3 + p + q
    OBVIOUS
  <2>4. row \in [1 .. 3 -> Nat] /\ \A j, k \in 1 .. 3 : j < k => row[j] < row[k]
    <3>1. row \in [1 .. 3 -> Nat]
      BY <2>0
    <3>2. \A j, k \in 1 .. 3 : j < k => <<j, k>> \in {<<1, 2>>, <<1, 3>>, <<2, 3>>}
      OBVIOUS
    <3>3. 1 < 3 /\ 1 < 4 + p /\ 3 < 4 + p
      BY <2>0
    <3> HIDE DEF row
    <3> QED
      BY <2>3, <3>1, <3>2, <3>3
  <2> HIDE DEF row, ends
  <2>5. \A i : i \in FieldStarts(line) <=> \E n \in 1 .. 3 : i = row[n]
    BY <2>2, <2>3
  <2>6. \A n \in 1 .. 3 : IsFieldEnd(line, row[n], ends[n])
    <3>1. IsFieldEnd(line, 1, 1)
      BY <1>1, <1>3, <2>0 DEF IsFieldEnd
    <3>2. IsFieldEnd(line, 3, 2 + p)
      <4>1. 2 + p \in 3 .. Len(line) /\ (2 + p) + 1 = 3 + p
        BY <2>0
      <4> QED
        BY <2>0, <2>1, <4>1 DEF IsFieldEnd
    <3>3. IsFieldEnd(line, 4 + p, 3 + p + q)
      BY <2>0, <2>11 DEF IsFieldEnd
    <3> QED
      BY <2>3, <3>1, <3>2, <3>3
  <2>7. Fields(line) = [n \in 1 .. 3 |-> SubSeq(line, row[n], ends[n])]
    <3>1. CutAt(line, 3, row, ends)
      BY <2>4, <2>5, <2>6 DEF CutAt
    <3> QED
      BY <1>3, <3>1, FieldsAt
  <2>8. SubSeq(line, 1, 1) = <<cmd.name>>
    BY <1>15, <2>0
  <2>9. SubSeq(line, 3, 2 + p) = a
    <3>1. 3 \in 1 .. Len(line) /\ 2 + p \in 3 .. Len(line) /\ p = 2 + p - 3 + 1
      BY <2>0
    <3>2. \A i \in 1 .. p : line[3 + i - 1] = a[i]
      BY <2>0
    <3> QED
      BY <1>9, <2>0, <3>1, <3>2 DEF p
  <2>12. SubSeq(line, 4 + p, 3 + p + q) = b
    <3>1. /\ 4 + p \in 1 .. Len(line) /\ 3 + p + q \in 4 + p .. Len(line)
          /\ q = 3 + p + q - (4 + p) + 1
      BY <2>0
    <3>2. \A i \in 1 .. q : line[4 + p + i - 1] = b[i]
      <4> TAKE i \in 1 .. q
      <4>1. 4 + p + i - 1 = 3 + p + i
        BY <2>0
      <4> QED
        BY <2>0, <4>1
    <3> QED
      BY <1>9, <2>0, <3>1, <3>2 DEF q
  <2>10. ASSUME NEW n \in 1 .. 3
         PROVE  SubSeq(line, row[n], ends[n]) = IF n = 1 THEN <<cmd.name>> ELSE cmd.args[n - 1]
    <3>1. n = 1 \/ n = 2 \/ n = 3
      OBVIOUS
    <3>2. cmd.args[2 - 1] = a /\ cmd.args[3 - 1] = b
      BY DEF a, b
    <3> QED
      BY <2>3, <2>8, <2>9, <2>12, <3>1, <3>2
  <2> QED
    BY <1>13, <2>7, <2>10 DEF line
<1>14. m = 0 \/ m = 1 \/ m = 2
  BY <1>1
<1> QED
  BY <1>11, <1>12, <1>13, <1>14

LEMMA WellFormedDecodes ==
  ASSUME NEW cmd, IsCommand(cmd), WellFormed(cmd)
  PROVE  Decode(LineOf(cmd)) = [ok |-> TRUE, cmd |-> cmd]
<1> DEFINE m == Len(cmd.args)
           fields == [n \in 1 .. m + 1 |-> IF n = 1 THEN <<cmd.name>> ELSE cmd.args[n - 1]]
<1>1. /\ m \in 0 .. 2 /\ cmd.name \in Inner /\ cmd.args \in Seq(Seq(Inner))
      /\ \A i \in 1 .. m : cmd.args[i] \in Seq(Inner)
  BY ArityFacts
<1>2. cmd = [name |-> cmd.name, args |-> cmd.args] /\ cmd.name \in DOMAIN Arity
      /\ m = Arity[cmd.name]
  BY DEF IsCommand
<1>3. fields \in Seq(Seq(Inner)) /\ Len(fields) = m + 1 /\ fields # <<>>
      /\ fields[1] = <<cmd.name>>
      /\ \A i \in 1 .. m : fields[i + 1] = cmd.args[i]
  <2>1. <<cmd.name>> \in Seq(Inner)
    BY <1>1
  <2>2. \A n \in 1 .. m + 1 : n # 1 => n - 1 \in 1 .. m
    BY <1>1
  <2>3. m + 1 \in Nat /\ 1 \in 1 .. m + 1
    BY <1>1
  <2>4. \A n \in 1 .. m + 1 : fields[n] \in Seq(Inner)
    BY <1>1, <2>1, <2>2
  <2>5. fields \in Seq(Seq(Inner)) /\ Len(fields) = m + 1
    <3>1. fields \in [1 .. m + 1 -> Seq(Inner)] /\ DOMAIN fields = 1 .. m + 1
      BY <2>4
    <3> HIDE DEF fields
    <3> QED
      BY <2>3, <3>1
  <2>6. \A i \in 1 .. m : i + 1 \in 1 .. m + 1 /\ i + 1 # 1 /\ (i + 1) - 1 = i
    BY <1>1
  <2>7. fields # <<>>
    <3> HIDE DEF fields
    <3> QED
      BY <2>3, <2>5
  <2> QED
    BY <2>3, <2>5, <2>6, <2>7
<1>4. Fields(LineOf(cmd)) = fields
  BY WellFormedFields
<1> HIDE DEF fields
<1>5. Tail(fields) = cmd.args
  <2>1. /\ Tail(fields) \in Seq(Seq(Inner)) /\ Len(Tail(fields)) = m
        /\ \A i \in 1 .. m : Tail(fields)[i] = fields[i + 1]
    <3>1. Len(fields) - 1 = m
      BY <1>1, <1>3
    <3> QED
      BY <1>3, <3>1, HeadTailProperties
  <2> QED
    <3> DEFINE t == Tail(fields)
               u == cmd.args
    <3>1. /\ t \in Seq(Seq(Inner)) /\ u \in Seq(Seq(Inner)) /\ Len(t) = Len(u)
          /\ \A i \in 1 .. Len(t) : t[i] = u[i]
      BY <1>1, <1>3, <2>1
    <3> HIDE DEF t, u
    <3>2. t = u
      BY <3>1, SeqEqual
    <3> QED
      BY <3>2 DEF t, u
<1>6. fields[1][1] = cmd.name
  BY <1>3
<1>7. ~(\A name \in DOMAIN Arity : fields[1] # <<name>>)
  BY <1>2, <1>3
<1>8. Len(fields) - 1 = Arity[fields[1][1]]
  BY <1>1, <1>2, <1>3, <1>6
<1> QED
  BY <1>2, <1>3, <1>4, <1>5, <1>6, <1>7, <1>8 DEF Decode

\* What decodes is well-formed.
LEMMA DecodedWellFormed ==
  ASSUME NEW line \in Seq(Bytes), Decode(line).ok
  PROVE  WellFormed(Decode(line).cmd)
<1> DEFINE fields == Fields(line)
           cmd == [name |-> fields[1][1], args |-> Tail(fields)]
<1>1. /\ fields \in Seq(Seq(Bytes))
      /\ \A n \in 1 .. Len(fields) :
           fields[n] # <<>> /\ \A j \in DOMAIN fields[n] : fields[n][j] # Return
  BY FieldsTyped
<1>2. /\ fields # <<>>
      /\ Len(fields) - 1 = Arity[fields[1][1]]
      /\ Decode(line) = [ok |-> TRUE, cmd |-> cmd]
  BY DEF Decode, Rejected
<1> HIDE DEF fields
<1>3. /\ Tail(fields) \in Seq(Seq(Bytes)) /\ Len(Tail(fields)) = Len(fields) - 1
      /\ Len(fields) \in Nat
      /\ \A i \in 1 .. Len(Tail(fields)) : Tail(fields)[i] = fields[i + 1]
  BY <1>1, <1>2, HeadTailProperties
<1>4. DOMAIN Tail(fields) = 1 .. Len(Tail(fields))
  BY <1>3
<1>5. \A i \in 1 .. Len(Tail(fields)) : i + 1 \in 1 .. Len(fields)
  BY <1>3
<1>6. WellFormed(cmd)
  BY <1>1, <1>2, <1>3, <1>4, <1>5 DEF WellFormed
<1> QED
  BY <1>2, <1>6

-----------------------------------------------------------------------------
(* Decoding line by line.                                                  *)

DecodedNext(results, f, k) ==
  IF k = 0 THEN <<>>
  ELSE IF results[k].ok THEN Append(f[k - 1], results[k].cmd)
  ELSE f[k - 1]

\* The recursion of Decoded has a solution.
LEMMA DecodedExists ==
  ASSUME NEW results, NEW m \in Nat
  PROVE  \E f : f = [k \in 0 .. m |-> DecodedNext(results, f, k)]
<1> DEFINE T == {n \in Nat : \E f : f = [k \in 0 .. n |-> DecodedNext(results, f, k)]}
<1>1. 0 \in T
  <2> DEFINE f == [k \in 0 .. 0 |-> <<>>]
  <2>1. f = [k \in 0 .. 0 |-> DecodedNext(results, f, k)]
    BY DEF DecodedNext
  <2> QED
    BY <2>1
<1>2. ASSUME NEW n \in T PROVE n + 1 \in T
  <2>1. PICK f : f = [k \in 0 .. n |-> DecodedNext(results, f, k)]
    OBVIOUS
  <2> DEFINE g == [k \in 0 .. n + 1 |->
                     IF k <= n THEN f[k] ELSE DecodedNext(results, f, k)]
  <2>2. n \in Nat
    OBVIOUS
  <2>3. ASSUME NEW k \in 0 .. n + 1
        PROVE  g[k] = DecodedNext(results, g, k)
    <3>1. k # 0 => k - 1 \in 0 .. n + 1 /\ k - 1 <= n
      BY <2>2
    <3>2. k # 0 => g[k - 1] = f[k - 1]
      BY <3>1
    <3>3. DecodedNext(results, g, k) = DecodedNext(results, f, k)
      <4> HIDE DEF g
      <4> QED
        BY <3>2 DEF DecodedNext
    <3>4. k <= n => k \in 0 .. n
      BY <2>2
    <3>5. k <= n => f[k] = DecodedNext(results, f, k)
      <4> SUFFICES ASSUME k \in 0 .. n PROVE f[k] = DecodedNext(results, f, k)
        BY <3>4
      <4> QED
        BY <2>1
    <3> QED
      BY <3>3, <3>5
  <2>4. g = [k \in 0 .. n + 1 |-> DecodedNext(results, g, k)]
    <3>1. g = [k \in 0 .. n + 1 |-> g[k]]
      OBVIOUS
    <3> HIDE DEF g
    <3> QED
      BY <2>3, <3>1
  <2> HIDE DEF g
  <2> QED
    BY <2>2, <2>4
<1>3. T = Nat
  <2> HIDE DEF T
  <2>1. T \subseteq Nat
    BY DEF T
  <2> QED
    BY <1>1, <1>2, <2>1, Induction
<1> QED
  BY <1>3

LEMMA DecodedSteps ==
  ASSUME NEW S, NEW results \in Seq(S)
  PROVE  /\ Decoded(results)[0] = <<>>
         /\ \A k \in 1 .. Len(results) :
              Decoded(results)[k] =
                IF results[k].ok THEN Append(Decoded(results)[k - 1], results[k].cmd)
                ELSE Decoded(results)[k - 1]
<1> DEFINE m == Len(results)
           D == CHOOSE f : f = [k \in 0 .. m |-> DecodedNext(results, f, k)]
<1>1. m \in Nat
  OBVIOUS
<1>2. \E f : f = [k \in 0 .. m |-> DecodedNext(results, f, k)]
  BY <1>1, DecodedExists
<1>3. Decoded(results) = D
  BY DEF Decoded, DecodedNext
<1>4. D = [k \in 0 .. m |-> DecodedNext(results, D, k)]
  BY <1>2
<1> HIDE DEF D
<1>5. D[0] = <<>>
  BY <1>1, <1>4 DEF DecodedNext
<1>6. ASSUME NEW k \in 1 .. m
      PROVE  D[k] = IF results[k].ok THEN Append(D[k - 1], results[k].cmd) ELSE D[k - 1]
  <2>1. k \in 0 .. m /\ k # 0
    BY <1>1
  <2>2. D[k] = DecodedNext(results, D, k)
    BY <1>4, <2>1
  <2> QED
    BY <2>1, <2>2 DEF DecodedNext
<1> QED
  BY <1>3, <1>5, <1>6

\* More lines change nothing about the first ones.
LEMMA DecodedAgrees ==
  ASSUME NEW S, NEW p \in Seq(S), NEW q \in Seq(S), Len(p) <= Len(q),
         \A k \in 1 .. Len(p) : p[k] = q[k],
         NEW n \in 0 .. Len(p)
  PROVE  Decoded(p)[n] = Decoded(q)[n]
<1> DEFINE T == {k \in 0 .. Len(p) : Decoded(p)[k] # Decoded(q)[k]}
<1> SUFFICES ASSUME T # {} PROVE FALSE
  OBVIOUS
<1>1. PICK k \in T : \A j \in T : k <= j
  <2>1. T \subseteq Nat
    OBVIOUS
  <2> HIDE DEF T
  <2> QED
    BY <2>1, LeastNumber
<1>2. k # 0
  BY <1>1, DecodedSteps
<1>3. k \in 1 .. Len(p) /\ k \in 1 .. Len(q) /\ k - 1 \in 0 .. Len(p)
  BY <1>2
<1>4. Decoded(p)[k - 1] = Decoded(q)[k - 1]
  BY <1>1, <1>3
<1>5. Decoded(p)[k] = Decoded(q)[k]
  BY <1>3, <1>4, DecodedSteps
<1> QED
  BY <1>5

-----------------------------------------------------------------------------
(* The stream.                                                             *)

LEMMA Associative ==
  \A r, s, t \in Seq(Bytes) : (r \o s) \o t = r \o (s \o t)
BY ConcatAssociative

LEMMA ConcatTyped ==
  \A r, s \in Seq(Bytes) : r \o s \in Seq(Bytes)
BY ConcatProperties

LEMMA Regroup ==
  \A r, s, t, u \in Seq(Bytes) : (r \o s) \o (t \o u) = (r \o (s \o t)) \o u
<1> TAKE r, s, t, u \in Seq(Bytes)
<1> DEFINE x == r \o s
<1>1. x \in Seq(Bytes)
  BY ConcatTyped
<1>2. (x \o t) \o u = x \o (t \o u)
  <2> HIDE DEF x
  <2> QED
    BY <1>1, Associative
<1>3. x \o t = r \o (s \o t)
  BY Associative
<1> QED
  BY <1>2, <1>3

WireInv == TypeOK /\ StreamExact /\ DoneBytesBounded

LEMMA WireInit == Init => WireInv
<1> SUFFICES ASSUME Init PROVE WireInv
  OBVIOUS
<1>1. <<>> \in Seq(Bytes)
  BY EmptySeq
<1>2. TypeOK
  BY <1>1, EmptyBufferUnread DEF Init, TypeOK
<1>3. StreamExact
  BY <1>1, EmptyBufferUnread, ConcatEmptySeq DEF Init, StreamExact
<1>4. HoldsLittle(EmptyBuffer)
  BY BufferAssumption DEF BufferAssumption, HoldsLittle, EmptyBuffer
<1> QED
  BY <1>2, <1>3, <1>4 DEF Init, WireInv, DoneBytesBounded

LEMMA AppendedHoldsLittle ==
  ASSUME NEW b \in Buffers, NEW bytes \in Seq(Bytes), HoldsLittle(b)
  PROVE  HoldsLittle(Appended(b, bytes))
<1>1. /\ Appended(b, bytes).offset = b.offset
      /\ Remaining(Appended(b, bytes)) = Remaining(b) + Len(bytes)
  BY AppendedUnread
<1>2. b.offset \in Nat /\ Remaining(b) \in Int /\ Len(bytes) \in Nat /\ CompactAt \in Nat
  BY BufferParts, BufferAssumption DEF BufferAssumption, Remaining
<1> QED
  BY <1>1, <1>2 DEF HoldsLittle

LEMMA WireStep == WireInv /\ [Next]_vars => WireInv'
<1> SUFFICES ASSUME WireInv, [Next]_vars
             PROVE  WireInv'
  OBVIOUS
<1> DEFINE u == Unread(recv)
           v == Unread(send)
<1>1. /\ send \in Buffers /\ recv \in Buffers
      /\ stream \in Seq(Bytes) /\ encoded \in Seq(Bytes) /\ taken \in Seq(Bytes)
      /\ HoldsLittle(send) /\ HoldsLittle(recv)
      /\ ((taken \o u) \o stream) \o v = encoded
  BY DEF WireInv, TypeOK, StreamExact, DoneBytesBounded
<1>2. u \in Seq(Bytes) /\ v \in Seq(Bytes)
  BY <1>1, DoneAndUnread
<1>3. taken \o u \in Seq(Bytes) /\ (taken \o u) \o stream \in Seq(Bytes)
  BY <1>1, <1>2, ConcatProperties
<1>4. CASE UNCHANGED vars
  BY <1>4 DEF vars, WireInv, TypeOK, StreamExact, DoneBytesBounded
<1>5. ASSUME NEW cmd \in Sendable, SendCommand(cmd)
      PROVE  WireInv'
  <2> DEFINE e == Encode(cmd)
  <2>1. e \in Seq(Bytes)
    BY SendableAssumption, EncodedLine DEF SendableAssumption
  <2> HIDE DEF e
  <2>2. /\ send' = Appended(send, e) /\ encoded' = encoded \o e
        /\ UNCHANGED <<stream, recv, taken>>
    BY <1>5 DEF SendCommand, e
  <2>3. send' \in Buffers /\ Unread(send') = v \o e /\ HoldsLittle(send')
    BY <1>1, <2>1, <2>2, AppendedUnread, AppendedHoldsLittle
  <2>4. encoded' \in Seq(Bytes)
    BY <1>1, <2>1, <2>2, ConcatProperties
  <2>5. ((taken \o u) \o stream) \o (v \o e) = encoded \o e
    <3> DEFINE x == (taken \o u) \o stream
    <3>1. x \in Seq(Bytes) /\ x \o v = encoded
      BY <1>1, <1>3
    <3> HIDE DEF x, u, v
    <3>2. (x \o v) \o e = x \o (v \o e)
      BY <3>1, <1>2, <2>1, Associative, Zenon
    <3>3. x \o (v \o e) = encoded \o e
      BY <3>1, <3>2
    <3> QED
      BY <3>3 DEF x
  <2> QED
    BY <1>1, <2>2, <2>3, <2>4, <2>5 DEF WireInv, TypeOK, StreamExact, DoneBytesBounded
<1>6. ASSUME NEW n \in 0 .. Remaining(send), Flush(n)
      PROVE  WireInv'
  <2> DEFINE t == SubSeq(v, 1, n)
             w == Unread(send')
  <2>1. /\ send' = Flushed(send, n) /\ stream' = stream \o t
        /\ UNCHANGED <<recv, encoded, taken>>
    BY <1>6 DEF Flush
  <2>2. /\ send' \in Buffers /\ t \in Seq(Bytes) /\ HoldsLittle(send')
        /\ v = t \o w
    BY <1>1, <2>1, FlushedUnread
  <2>3. w \in Seq(Bytes)
    BY <2>2, DoneAndUnread
  <2> HIDE DEF t, w
  <2>4. stream' \in Seq(Bytes)
    BY <1>1, <2>1, <2>2, ConcatProperties
  <2>5. ((taken \o u) \o (stream \o t)) \o w = encoded
    <3> DEFINE x == taken \o u
    <3>1. x \in Seq(Bytes) /\ (x \o stream) \o (t \o w) = encoded
      BY <1>1, <1>3, <2>2
    <3> HIDE DEF x, u, v
    <3>2. (x \o stream) \o (t \o w) = (x \o (stream \o t)) \o w
      <4>1. /\ x \in Seq(Bytes) /\ stream \in Seq(Bytes)
            /\ t \in Seq(Bytes) /\ w \in Seq(Bytes)
        BY <3>1, <1>1, <2>2, <2>3
      <4> QED
        BY <4>1, Regroup, SMTT(60)
    <3>3. (x \o (stream \o t)) \o w = encoded
      BY <3>1, <3>2
    <3> QED
      BY <3>3 DEF x
  <2> QED
    BY <1>1, <2>1, <2>2, <2>4, <2>5 DEF WireInv, TypeOK, StreamExact, DoneBytesBounded, w
<1>7. ASSUME NEW n \in 1 .. Len(stream), Drain(n)
      PROVE  WireInv'
  <2> DEFINE d == SubSeq(stream, 1, n)
             r == SubSeq(stream, n + 1, Len(stream))
  <2>1. /\ recv' = Appended(recv, d) /\ stream' = r
        /\ UNCHANGED <<send, encoded, taken>>
    BY <1>7 DEF Drain
  <2>2. d \in Seq(Bytes) /\ r \in Seq(Bytes) /\ d \o r = stream
    BY <1>1, CutAndJoin
  <2> HIDE DEF d, r
  <2>3. recv' \in Buffers /\ Unread(recv') = u \o d /\ HoldsLittle(recv')
    BY <1>1, <2>1, <2>2, AppendedUnread, AppendedHoldsLittle
  <2>4. (taken \o u) \o (d \o r) = (taken \o (u \o d)) \o r
    <3> HIDE DEF u
    <3>1. taken \in Seq(Bytes) /\ u \in Seq(Bytes) /\ d \in Seq(Bytes) /\ r \in Seq(Bytes)
      BY <1>1, <1>2, <2>2
    <3> QED
      BY <3>1, Regroup, SMTT(60)
  <2> QED
    BY <1>1, <2>1, <2>2, <2>3, <2>4 DEF WireInv, TypeOK, StreamExact, DoneBytesBounded
<1>8. CASE TakeLine
  <2> DEFINE l == ParsedLine(recv).line
             k == l \o <<Newline>>
             w == Unread(ParsedLine(recv).rest)
  <2>1. HasLine(recv)
    BY <1>8 DEF TakeLine
  <2>2. /\ recv' = ParsedLine(recv).rest /\ taken' = (taken \o l) \o <<Newline>>
        /\ UNCHANGED <<send, stream, encoded>>
    BY <1>8 DEF TakeLine
  <2>3. /\ recv' \in Buffers /\ l \in Seq(Bytes) /\ HoldsLittle(recv')
        /\ u = k \o w
    BY <1>1, <2>1, <2>2, ParsedUnread
  <2>4. w \in Seq(Bytes) /\ <<Newline>> \in Seq(Bytes)
    <3>1. ParsedLine(recv).rest \in Buffers
      BY <2>2, <2>3
    <3> QED
      BY <3>1, DoneAndUnread, BufferAssumption DEF BufferAssumption
  <2>5. k \in Seq(Bytes)
    BY <2>3, <2>4, ConcatProperties
  <2>6. taken' = taken \o k
    <3> HIDE DEF l
    <3>1. (taken \o l) \o <<Newline>> = taken \o (l \o <<Newline>>)
      <4>1. taken \in Seq(Bytes) /\ l \in Seq(Bytes) /\ <<Newline>> \in Seq(Bytes)
        BY <1>1, <2>3, <2>4
      <4> QED
        BY ONLY <4>1, Associative
    <3> QED
      BY <2>2, <3>1
  <2>7. Unread(recv') = w
    BY <2>2
  <2> HIDE DEF l, k, w
  <2>8. taken' \in Seq(Bytes)
    BY <1>1, <2>5, <2>6, ConcatProperties
  <2>9. taken \o (k \o w) = (taken \o k) \o w
    <3>1. taken \in Seq(Bytes) /\ k \in Seq(Bytes) /\ w \in Seq(Bytes)
      BY <1>1, <2>4, <2>5
    <3> QED
      BY ONLY <3>1, Associative
  <2> QED
    BY <1>1, <2>2, <2>3, <2>6, <2>7, <2>8, <2>9 DEF WireInv, TypeOK, StreamExact, DoneBytesBounded
<1> QED
  BY <1>4, <1>5, <1>6, <1>7, <1>8 DEF Next

\* Every byte that was encoded is, once and in order, in a line, in the
\* receive buffer, on its way or in the send buffer, wherever the stream is
\* cut and whenever the buffers cut away what they are done with.
THEOREM StreamIsExact == Spec => []StreamExact
<1>1. WireInv => StreamExact
  BY DEF WireInv
<1> QED
  BY WireInit, WireStep, <1>1, PTL DEF Spec

\* What the buffers are done with and still hold is less than the threshold
\* of compact_if_needed() or less than what is unread.
THEOREM BuffersHoldLittle == Spec => []DoneBytesBounded
<1>1. WireInv => DoneBytesBounded
  BY DEF WireInv
<1> QED
  BY WireInit, WireStep, <1>1, PTL DEF Spec

-----------------------------------------------------------------------------
(* What arrives.                                                           *)

\* The commands a line decodes to.
Commands == [name : Bytes, args : Seq(Seq(Bytes))]

LEMMA DecodedTyped ==
  ASSUME NEW line \in Seq(Bytes), Decode(line).ok
  PROVE  Decode(line).cmd \in Commands
<1> DEFINE fields == Fields(line)
<1>1. /\ fields \in Seq(Seq(Bytes))
      /\ \A n \in 1 .. Len(fields) : fields[n] # <<>>
  BY FieldsTyped
<1>2. /\ fields # <<>>
      /\ Decode(line) = [ok |-> TRUE, cmd |-> [name |-> fields[1][1], args |-> Tail(fields)]]
  BY DEF Decode, Rejected
<1> HIDE DEF fields
<1>3. Tail(fields) \in Seq(Seq(Bytes))
  BY <1>1, <1>2, HeadTailProperties
<1>4. 1 \in 1 .. Len(fields)
  BY <1>1, <1>2
<1>5. fields[1] \in Seq(Bytes) /\ fields[1] # <<>>
  BY <1>1, <1>4, ElementOfSeq
<1>6. fields[1][1] \in Bytes
  BY <1>5
<1> QED
  BY <1>2, <1>3, <1>6 DEF Commands

LEMMA ResultsTyped ==
  ASSUME NEW cmds \in Seq(Sendable)
  PROVE  /\ Results(cmds) \in Seq({Decode(LineOf(cmd)) : cmd \in Sendable})
         /\ Len(Results(cmds)) = Len(cmds)
         /\ \A i \in 1 .. Len(cmds) : Results(cmds)[i] = Decode(LineOf(cmds[i]))
<1>1. \A i \in 1 .. Len(cmds) : cmds[i] \in Sendable
  BY ElementOfSeq
<1>2. DOMAIN cmds = 1 .. Len(cmds) /\ Len(cmds) \in Nat
  OBVIOUS
<1>3. Results(cmds) = [i \in 1 .. Len(cmds) |-> Decode(LineOf(cmds[i]))]
  BY <1>2 DEF Results
<1> QED
  BY <1>1, <1>2, <1>3

\* The line of the i-th command ends with the newline at place at[i] of bytes.
Lines(cmds, bytes, at) ==
  /\ at \in [0 .. Len(cmds) -> Nat]
  /\ at[0] = 0
  /\ at[Len(cmds)] = Len(bytes)
  /\ \A i \in 1 .. Len(cmds) :
       /\ at[i] = at[i - 1] + Len(LineOf(cmds[i])) + 1
       /\ at[i] <= Len(bytes)
       /\ \A j \in 1 .. Len(LineOf(cmds[i])) : bytes[at[i - 1] + j] = LineOf(cmds[i])[j]
       /\ bytes[at[i]] = Newline

LEMMA WithinLine ==
  ASSUME NEW a \in Nat, NEW b \in Nat, NEW n \in Nat, NEW size \in Nat,
         b = a + n + 1, b <= size
  PROVE  b \in 1 .. size /\ \A j \in 1 .. n : a + j \in 1 .. size
OBVIOUS

\* Encoding one more command adds its line at the end.
LEMMA LinesExtended ==
  ASSUME NEW cmds \in Seq(Sendable), NEW bytes \in Seq(Bytes), NEW at,
         Lines(cmds, bytes, at), NEW cmd \in Sendable
  PROVE  \E more : /\ Lines(Append(cmds, cmd), bytes \o Encode(cmd), more)
                   /\ \A k \in 0 .. Len(cmds) : more[k] = at[k]
<1> DEFINE n == Len(cmds)
           line == LineOf(cmd)
           m == Len(line)
           size == Len(bytes)
           more == [k \in 0 .. n + 1 |-> IF k <= n THEN at[k] ELSE size + m + 1]
           cmds2 == Append(cmds, cmd)
           end == line \o <<Newline>>
           bytes2 == bytes \o end
<1>1. line \in Seq(Bytes) /\ Encode(cmd) = end /\ end \in Seq(Bytes)
  <2>1. IsCommand(cmd)
    BY SendableAssumption DEF SendableAssumption
  <2>2. LineOf(cmd) \in Seq(Inner)
    BY <2>1, EncodedLine
  <2>3. LineOf(cmd) \in Seq(Bytes)
    BY <2>2 DEF Inner
  <2> QED
    BY <2>1, <2>3, EncodedLine
<1>2. /\ n \in Nat /\ m \in Nat /\ size \in Nat
      /\ Newline \in Bytes
  BY <1>1, BufferAssumption DEF BufferAssumption
<1>3. /\ Len(cmds2) = n + 1
      /\ cmds2[n + 1] = cmd
      /\ \A i \in 1 .. n : cmds2[i] = cmds[i]
  BY AppendProperties
<1>4. /\ Len(end) = m + 1
      /\ end[m + 1] = Newline
      /\ \A j \in 1 .. m : end[j] = line[j]
  <2> HIDE DEF line
  <2>1. <<Newline>> \in Seq(Bytes) /\ Len(<<Newline>>) = 1 /\ <<Newline>>[1] = Newline
    BY <1>2
  <2>2. /\ Len(end) = Len(line) + 1
        /\ \A i \in 1 .. Len(line) + 1 :
             end[i] = IF i <= Len(line) THEN line[i] ELSE <<Newline>>[i - Len(line)]
    BY <1>1, <2>1, ConcatProperties
  <2> HIDE DEF end
  <2>3. /\ m + 1 \in 1 .. m + 1 /\ ~(m + 1 <= m) /\ m + 1 - m = 1
        /\ \A j \in 1 .. m : j \in 1 .. m + 1 /\ j <= m
    BY <1>2
  <2> QED
    BY <2>1, <2>2, <2>3
<1> HIDE DEF end
<1>5. /\ Len(bytes2) = size + m + 1
      /\ \A i \in 1 .. size : bytes2[i] = bytes[i]
      /\ \A j \in 1 .. m + 1 : bytes2[size + j] = end[j]
  <2>1. /\ Len(bytes2) = Len(bytes) + Len(end)
        /\ \A i \in 1 .. Len(bytes) + Len(end) :
             bytes2[i] = IF i <= Len(bytes) THEN bytes[i] ELSE end[i - Len(bytes)]
    BY <1>1, ConcatProperties
  <2> HIDE DEF bytes2, m
  <2>2. \A i \in 1 .. size : i \in 1 .. size + (m + 1) /\ i <= size
    BY <1>2
  <2>3. \A j \in 1 .. m + 1 :
          size + j \in 1 .. size + (m + 1) /\ ~(size + j <= size) /\ size + j - size = j
    BY <1>2
  <2>4. size + (m + 1) = size + m + 1
    BY <1>2
  <2> QED
    BY <1>4, <2>1, <2>2, <2>3, <2>4
<1>6. /\ at \in [0 .. n -> Nat]
      /\ at[0] = 0
      /\ at[n] = size
      /\ \A i \in 1 .. n :
           /\ at[i] = at[i - 1] + Len(LineOf(cmds[i])) + 1
           /\ at[i] <= size
           /\ \A j \in 1 .. Len(LineOf(cmds[i])) :
                bytes[at[i - 1] + j] = LineOf(cmds[i])[j]
           /\ bytes[at[i]] = Newline
  BY DEF Lines
<1>7. /\ more \in [0 .. n + 1 -> Nat]
      /\ \A k \in 0 .. n : more[k] = at[k]
      /\ more[n + 1] = size + m + 1
  <2> HIDE DEF n, m, size
  <2> QED
    BY <1>2, <1>6
<1> HIDE DEF more, bytes2, cmds2
<1>8. ASSUME NEW i \in 1 .. n
      PROVE  /\ more[i] = more[i - 1] + Len(LineOf(cmds2[i])) + 1
             /\ more[i] <= size + m + 1
             /\ \A j \in 1 .. Len(LineOf(cmds2[i])) :
                  bytes2[more[i - 1] + j] = LineOf(cmds2[i])[j]
             /\ bytes2[more[i]] = Newline
  <2> DEFINE l == LineOf(cmds[i])
  <2>1. /\ LineOf(cmds2[i]) = l
        /\ i \in 0 .. n /\ i - 1 \in 0 .. n
    BY <1>2, <1>3
  <2>2. more[i] = at[i] /\ more[i - 1] = at[i - 1]
        /\ at[i] \in Nat /\ at[i - 1] \in Nat
    BY <1>6, <1>7, <2>1
  <2>3. /\ at[i] = at[i - 1] + Len(l) + 1
        /\ at[i] <= size
        /\ \A j \in 1 .. Len(l) : bytes[at[i - 1] + j] = l[j]
        /\ bytes[at[i]] = Newline
    BY <1>6
  <2>4. Len(l) \in Nat
    <3>1. IsCommand(cmds[i])
      BY ElementOfSeq, SendableAssumption DEF SendableAssumption
    <3> QED
      BY <3>1, EncodedLine
  <2> HIDE DEF l, n, m, size
  <2>5. at[i] \in 1 .. size /\ \A j \in 1 .. Len(l) : at[i - 1] + j \in 1 .. size
    <3>1. /\ at[i] = at[i - 1] + Len(l) + 1 /\ at[i] <= size
          /\ at[i] \in Nat /\ at[i - 1] \in Nat /\ size \in Nat
      BY <1>2, <2>2, <2>3
    <3> QED
      BY ONLY <2>4, <3>1, WithinLine
  <2>6. at[i] <= size + m + 1
    BY <1>2, <2>2, <2>3
  <2>7. bytes2[at[i]] = Newline
    BY <1>5, <2>3, <2>5
  <2>8. \A j \in 1 .. Len(l) : bytes2[at[i - 1] + j] = l[j]
    BY <1>5, <2>3, <2>5
  <2>9. more[i] = more[i - 1] + Len(l) + 1
    BY <2>2, <2>3
  <2> QED
    BY <2>1, <2>2, <2>6, <2>7, <2>8, <2>9
<1>9. /\ more[n + 1] = more[n] + Len(LineOf(cmds2[n + 1])) + 1
      /\ more[n + 1] <= size + m + 1
      /\ \A j \in 1 .. Len(LineOf(cmds2[n + 1])) :
           bytes2[more[n] + j] = LineOf(cmds2[n + 1])[j]
      /\ bytes2[more[n + 1]] = Newline
  <2>1. LineOf(cmds2[n + 1]) = line
    BY <1>3
  <2>2. more[n] = size
    <3> HIDE DEF n, m, size
    <3>1. n \in 0 .. n
      BY <1>2
    <3> QED
      BY <1>6, <1>7, <3>1
  <2>3. m = Len(line)
    OBVIOUS
  <2> HIDE DEF n, m, size, line
  <2>4. m + 1 \in 1 .. m + 1 /\ size + (m + 1) = size + m + 1
        /\ \A j \in 1 .. m : j \in 1 .. m + 1
    BY <1>2
  <2> QED
    BY <1>2, <1>4, <1>5, <1>7, <2>1, <2>2, <2>3, <2>4, SMTT(30)
<1>10. Lines(cmds2, bytes2, more)
  <2>1. \A i \in 1 .. n + 1 : i \in 1 .. n \/ (i = n + 1 /\ i - 1 = n)
    BY <1>2
  <2>2. \A i \in 1 .. n + 1 :
          /\ more[i] = more[i - 1] + Len(LineOf(cmds2[i])) + 1
          /\ more[i] <= Len(bytes2)
          /\ \A j \in 1 .. Len(LineOf(cmds2[i])) :
               bytes2[more[i - 1] + j] = LineOf(cmds2[i])[j]
          /\ bytes2[more[i]] = Newline
    <3> HIDE DEF n, m, size
    <3> QED
      BY <1>5, <1>8, <1>9, <2>1
  <2> HIDE DEF m, size, n
  <2>3. more[0] = 0
    <3>1. 0 \in 0 .. n
      BY <1>2
    <3> QED
      BY <1>6, <1>7, <3>1
  <2> QED
    BY <1>3, <1>5, <1>7, <2>2, <2>3 DEF Lines
<1>11. bytes2 = bytes \o Encode(cmd)
  BY <1>1 DEF bytes2
<1> QED
  BY <1>7, <1>10, <1>11 DEF cmds2

\* k lines have been taken off bytes; up to the next newline comes l.
TakenAhead(cmds, bytes, at, k, before, l, rest) ==
  /\ cmds \in Seq(Sendable) /\ bytes \in Seq(Bytes)
  /\ Lines(cmds, bytes, at)
  /\ k \in 0 .. Len(cmds)
  /\ before \in Seq(Bytes) /\ Len(before) = at[k]
  /\ l \in Seq(Bytes) /\ \A j \in 1 .. Len(l) : l[j] # Newline
  /\ rest \in Seq(Bytes)
  /\ bytes = (before \o (l \o <<Newline>>)) \o rest

\* Then l is the line of the next command.
LEMMA NextLine ==
  ASSUME NEW cmds, NEW bytes, NEW at, NEW k, NEW before, NEW l, NEW rest,
         TakenAhead(cmds, bytes, at, k, before, l, rest)
  PROVE  /\ k + 1 \in 1 .. Len(cmds)
         /\ l = LineOf(cmds[k + 1])
         /\ Len(before \o (l \o <<Newline>>)) = at[k + 1]
<1> DEFINE c == Len(before)
           n == Len(l)
           end == l \o <<Newline>>
           past == before \o end
<1>0. /\ cmds \in Seq(Sendable) /\ bytes \in Seq(Bytes)
      /\ Lines(cmds, bytes, at)
      /\ k \in 0 .. Len(cmds)
      /\ before \in Seq(Bytes) /\ Len(before) = at[k]
      /\ l \in Seq(Bytes) /\ \A j \in 1 .. Len(l) : l[j] # Newline
      /\ rest \in Seq(Bytes)
      /\ bytes = (before \o (l \o <<Newline>>)) \o rest
  BY DEF TakenAhead
<1> USE <1>0
<1>1. Newline \in Bytes
  BY BufferAssumption DEF BufferAssumption
<1>2. /\ end \in Seq(Bytes) /\ Len(end) = n + 1
      /\ end[n + 1] = Newline /\ \A j \in 1 .. n : end[j] = l[j]
  <2>1. <<Newline>> \in Seq(Bytes) /\ Len(<<Newline>>) = 1 /\ <<Newline>>[1] = Newline
    BY <1>1
  <2>2. /\ end \in Seq(Bytes) /\ Len(end) = n + 1
        /\ \A i \in 1 .. n + 1 :
             end[i] = IF i <= n THEN l[i] ELSE <<Newline>>[i - n]
    BY <2>1, ConcatProperties
  <2>0. n \in Nat
    OBVIOUS
  <2> HIDE DEF end, n
  <2>3. /\ n + 1 \in 1 .. n + 1 /\ ~(n + 1 <= n) /\ n + 1 - n = 1
        /\ \A j \in 1 .. n : j \in 1 .. n + 1 /\ j <= n
    BY <2>0
  <2> QED
    BY <2>0, <2>1, <2>2, <2>3
<1>3. c \in Nat /\ n \in Nat /\ Len(rest) \in Nat /\ Len(cmds) \in Nat
  OBVIOUS
<1> HIDE DEF end
<1>4. /\ past \in Seq(Bytes) /\ Len(past) = c + (n + 1)
      /\ \A j \in 1 .. n + 1 : past[c + j] = end[j]
  <2>0. /\ past \in Seq(Bytes) /\ Len(past) = c + Len(end)
        /\ \A i \in 1 .. c + Len(end) :
             past[i] = IF i <= c THEN before[i] ELSE end[i - c]
    <3>1. before \in Seq(Bytes) /\ end \in Seq(Bytes)
      BY <1>2
    <3> QED
      BY ONLY <3>1, ConcatProperties
  <2> HIDE DEF past, n, c
  <2>1. /\ past \in Seq(Bytes) /\ Len(past) = c + (n + 1)
        /\ \A i \in 1 .. c + (n + 1) :
             past[i] = IF i <= c THEN before[i] ELSE end[i - c]
    BY <1>2, <2>0
  <2>2. \A j \in 1 .. n + 1 :
          c + j \in 1 .. c + (n + 1) /\ ~(c + j <= c) /\ c + j - c = j
    BY <1>3
  <2> QED
    <3>1. \A j \in 1 .. n + 1 : past[c + j] = end[j]
      BY <1>3, <2>1, <2>2
    <3> QED
      BY <2>1, <3>1
<1>5. bytes = past \o rest
  BY DEF past, end
<1> HIDE DEF past
<1>6. /\ Len(bytes) = c + (n + 1) + Len(rest)
      /\ \A j \in 1 .. n + 1 : bytes[c + j] = end[j]
  <2> HIDE DEF n, c
  <2> DEFINE all == past \o rest
  <2>0. past \in Seq(Bytes)
    BY <1>4
  <2>1. /\ Len(all) = Len(past) + Len(rest)
        /\ \A i \in 1 .. Len(past) + Len(rest) :
             all[i] = IF i <= Len(past) THEN past[i] ELSE rest[i - Len(past)]
    BY <2>0, ConcatProperties
  <2>3. all = bytes
    BY <1>5
  <2> HIDE DEF all
  <2>2. \A j \in 1 .. n + 1 :
          c + j \in 1 .. c + (n + 1) + Len(rest) /\ c + j <= c + (n + 1)
    BY <1>3
  <2> QED
    BY <1>4, <2>1, <2>2, <2>3
<1>7. /\ at[Len(cmds)] = Len(bytes)
      /\ at[k] = c
  BY DEF Lines
<1>8. k + 1 \in 1 .. Len(cmds)
  <2>1. k # Len(cmds)
    <3> HIDE DEF n, c
    <3> QED
      BY <1>3, <1>6, <1>7
  <2> QED
    BY <1>3, <2>1
<1> DEFINE m == LineOf(cmds[k + 1])
           h == Len(m)
<1>9. m \in Seq(Inner)
  <2>1. IsCommand(cmds[k + 1])
    BY <1>8, ElementOfSeq, SendableAssumption DEF SendableAssumption
  <2> QED
    BY <2>1, EncodedLine
<1>10. m \in Seq(Bytes) /\ h \in Nat /\ \A j \in 1 .. h : m[j] # Newline
  BY <1>9, ElementOfSeq DEF Inner
<1>11. /\ at[k + 1] = c + h + 1
       /\ \A j \in 1 .. h : bytes[c + j] = m[j]
       /\ bytes[c + h + 1] = Newline
  <2> DEFINE i == k + 1
  <2>1. i \in 1 .. Len(cmds) /\ i = k + 1 /\ i - 1 = k
    BY <1>8
  <2> HIDE DEF i, c
  <2>2. /\ at[i] = at[i - 1] + Len(LineOf(cmds[i])) + 1
        /\ \A j \in 1 .. Len(LineOf(cmds[i])) :
             bytes[at[i - 1] + j] = LineOf(cmds[i])[j]
        /\ bytes[at[i]] = Newline
    BY <2>1 DEF Lines
  <2>3. m = LineOf(cmds[i])
    BY <2>1
  <2> HIDE DEF m
  <2>4. /\ at[i] = c + h + 1
        /\ \A j \in 1 .. h : bytes[c + j] = m[j]
        /\ bytes[at[i]] = Newline
    BY <1>7, <2>1, <2>2, <2>3
  <2> QED
    BY <2>1, <2>4
<1> HIDE DEF m, h, n, c
<1>12. ~(n < h)
  <2> SUFFICES ASSUME n < h PROVE FALSE
    OBVIOUS
  <2>1. n + 1 \in 1 .. h /\ n + 1 \in 1 .. n + 1
    BY <1>3, <1>10
  <2>2. bytes[c + (n + 1)] = Newline
    BY <1>2, <1>6, <2>1
  <2>3. bytes[c + (n + 1)] = m[n + 1]
    BY <1>11, <2>1
  <2> QED
    BY <1>10, <2>1, <2>2, <2>3
<1>13. ~(h < n)
  <2> SUFFICES ASSUME h < n PROVE FALSE
    OBVIOUS
  <2>1. h + 1 \in 1 .. n /\ h + 1 \in 1 .. n + 1 /\ c + h + 1 = c + (h + 1)
    BY <1>3, <1>10
  <2>2. bytes[c + (h + 1)] = end[h + 1] /\ end[h + 1] = l[h + 1]
    BY <1>2, <1>6, <2>1
  <2>3. l[h + 1] # Newline
    BY <2>1 DEF n
  <2> QED
    BY <1>11, <2>1, <2>2, <2>3
<1>14. n = h
  BY <1>3, <1>10, <1>12, <1>13
<1>15. l = m
  <2>1. Len(l) = Len(m)
    BY <1>14 DEF n, h
  <2>2. \A j \in 1 .. n : j \in 1 .. n + 1 /\ j \in 1 .. h
    BY <1>3, <1>14
  <2>3. \A j \in 1 .. n : l[j] = m[j]
    BY <1>2, <1>6, <1>11, <2>2
  <2>4. \A j \in 1 .. Len(l) : l[j] = m[j]
    BY <2>3 DEF n
  <2> QED
    BY <1>10, <2>1, <2>4, SeqEqual
<1>16. Len(past) = at[k + 1]
  BY <1>3, <1>4, <1>10, <1>11, <1>14
<1> QED
  BY <1>8, <1>15, <1>16 DEF past, end, m

\* parse_line() gives what comes before the first newline.
LEMMA ParsedHasNoNewline ==
  ASSUME NEW b \in Buffers, HasLine(b)
  PROVE  \A j \in 1 .. Len(ParsedLine(b).line) : ParsedLine(b).line[j] # Newline
<1> DEFINE i == CHOOSE k \in NewlineAt(b) : TRUE
           m == b.offset + 1
           line == SubSeq(b.buf, m, i - 1)
<1>1. i \in NewlineAt(b)
  BY DEF HasLine
<1>2. i \in b.offset + 1 .. Len(b.buf) /\ \A j \in b.offset + 1 .. i - 1 : b.buf[j] # Newline
  BY <1>1 DEF NewlineAt
<1>3. b.buf \in Seq(Bytes) /\ b.offset \in Nat /\ Len(b.buf) \in Nat
  BY BufferParts
<1>4. ParsedLine(b).line = line
  BY DEF ParsedLine
<1> HIDE DEF i
<1>5. m \in 1 .. Len(b.buf) + 1 /\ i - 1 \in m - 1 .. Len(b.buf)
  BY <1>2, <1>3
<1>6. Len(line) = (i - 1) - m + 1
      /\ \A j \in 1 .. (i - 1) - m + 1 : line[j] = b.buf[m + j - 1]
  <2> HIDE DEF m
  <2> QED
    BY <1>3, <1>5, SubSeqTyped
<1> HIDE DEF line
<1>7. \A j \in 1 .. (i - 1) - m + 1 : m + j - 1 \in b.offset + 1 .. i - 1
  BY <1>2, <1>3
<1> HIDE DEF m
<1> QED
  BY <1>2, <1>4, <1>6, <1>7

\* What has been taken is whole lines, and what has been received is what
\* those decode to.
Arrived(at, k) ==
  /\ Lines(sent, encoded, at)
  /\ k \in 0 .. Len(sent)
  /\ Len(taken) = at[k]
  /\ received = Decoded(Results(sent))[k]

ArrivalInv ==
  /\ sent \in Seq(Sendable)
  /\ received \in Seq(Commands)
  /\ \A i \in DOMAIN received : WellFormed(received[i])
  /\ \E at, k : Arrived(at, k)

LEMMA ArrivalInit == Init => ArrivalInv
<1> SUFFICES ASSUME Init PROVE ArrivalInv
  OBVIOUS
<1>1. /\ sent = <<>> /\ encoded = <<>> /\ taken = <<>> /\ received = <<>>
  BY DEF Init
<1>2. /\ sent \in Seq(Sendable) /\ received \in Seq(Commands)
      /\ DOMAIN received = {} /\ Len(sent) = 0 /\ Len(encoded) = 0 /\ Len(taken) = 0
  BY <1>1
<1> DEFINE at == [k \in 0 .. 0 |-> 0]
<1>3. at \in [0 .. 0 -> Nat] /\ at[0] = 0
  OBVIOUS
<1> HIDE DEF at
<1>4. Lines(sent, encoded, at)
  BY <1>2, <1>3 DEF Lines
<1>5. Decoded(Results(sent))[0] = <<>>
  BY <1>2, ResultsTyped, DecodedSteps
<1>6. Arrived(at, 0)
  BY <1>1, <1>2, <1>3, <1>4, <1>5 DEF Arrived
<1> QED
  BY <1>2, <1>6 DEF ArrivalInv

\* One more command changes nothing about the first ones.
LEMMA DecodedOfLonger ==
  ASSUME NEW cmds \in Seq(Sendable), NEW cmd \in Sendable, NEW k \in 0 .. Len(cmds)
  PROVE  Decoded(Results(Append(cmds, cmd)))[k] = Decoded(Results(cmds))[k]
<1> DEFINE S == {Decode(LineOf(c)) : c \in Sendable}
           more == Append(cmds, cmd)
           p == Results(cmds)
           q == Results(more)
<1>1. /\ more \in Seq(Sendable) /\ Len(more) = Len(cmds) + 1
      /\ \A i \in 1 .. Len(cmds) : more[i] = cmds[i]
  BY AppendProperties
<1> HIDE DEF more
<1>2. /\ p \in Seq(S) /\ Len(p) = Len(cmds)
      /\ \A i \in 1 .. Len(cmds) : p[i] = Decode(LineOf(cmds[i]))
  BY ResultsTyped
<1>3. /\ q \in Seq(S) /\ Len(q) = Len(more)
      /\ \A i \in 1 .. Len(more) : q[i] = Decode(LineOf(more[i]))
  BY <1>1, ResultsTyped
<1> HIDE DEF p, q, S
<1>4. Len(cmds) \in Nat
  OBVIOUS
<1>5. \A i \in 1 .. Len(cmds) : i \in 1 .. Len(more)
  BY <1>1, <1>4
<1>6. Len(p) <= Len(q) /\ \A i \in 1 .. Len(p) : p[i] = q[i]
  BY <1>1, <1>2, <1>3, <1>4, <1>5
<1>7. k \in 0 .. Len(p)
  BY <1>2
<1>8. Decoded(p)[k] = Decoded(q)[k]
  BY <1>2, <1>3, <1>6, <1>7, DecodedAgrees
<1> QED
  BY <1>8 DEF p, q, more

LEMMA ArrivalStep == WireInv /\ ArrivalInv /\ [Next]_vars => ArrivalInv'
<1> SUFFICES ASSUME WireInv, ArrivalInv, [Next]_vars
             PROVE  ArrivalInv'
  OBVIOUS
<1>1. /\ sent \in Seq(Sendable) /\ received \in Seq(Commands)
      /\ \A i \in DOMAIN received : WellFormed(received[i])
  BY DEF ArrivalInv
<1>2. PICK at, k : Arrived(at, k)
  BY DEF ArrivalInv
<1>3. /\ Lines(sent, encoded, at) /\ k \in 0 .. Len(sent) /\ Len(taken) = at[k]
      /\ received = Decoded(Results(sent))[k]
  BY <1>2 DEF Arrived
<1>4. /\ recv \in Buffers /\ send \in Buffers
      /\ stream \in Seq(Bytes) /\ encoded \in Seq(Bytes) /\ taken \in Seq(Bytes)
      /\ ((taken \o Unread(recv)) \o stream) \o Unread(send) = encoded
  BY DEF WireInv, TypeOK, StreamExact
<1>5. CASE UNCHANGED <<sent, encoded, taken, received>>
  <2>1. /\ sent' = sent /\ encoded' = encoded /\ taken' = taken /\ received' = received
    BY <1>5
  <2>2. Arrived(at, k)'
    BY <1>3, <2>1 DEF Arrived
  <2> QED
    BY <1>1, <2>1, <2>2 DEF ArrivalInv
<1>6. ASSUME NEW cmd \in Sendable, SendCommand(cmd)
      PROVE  ArrivalInv'
  <2>1. /\ sent' = Append(sent, cmd) /\ encoded' = encoded \o Encode(cmd)
        /\ taken' = taken /\ received' = received
    BY <1>6 DEF SendCommand
  <2>2. PICK more : /\ Lines(Append(sent, cmd), encoded \o Encode(cmd), more)
                    /\ \A j \in 0 .. Len(sent) : more[j] = at[j]
    BY <1>1, <1>3, <1>4, LinesExtended
  <2>3. Append(sent, cmd) \in Seq(Sendable) /\ Len(Append(sent, cmd)) = Len(sent) + 1
    BY <1>1
  <2>4. k \in 0 .. Len(sent) + 1
    BY <1>1, <1>3
  <2>5. Decoded(Results(Append(sent, cmd)))[k] = Decoded(Results(sent))[k]
    BY <1>1, <1>3, DecodedOfLonger
  <2>6. Arrived(more, k)'
    BY <1>3, <2>1, <2>2, <2>3, <2>4, <2>5 DEF Arrived
  <2> QED
    BY <1>1, <2>1, <2>3, <2>6 DEF ArrivalInv
<1>7. CASE TakeLine
  <2> DEFINE l == ParsedLine(recv).line
             w == Unread(ParsedLine(recv).rest)
             rest == (w \o stream) \o Unread(send)
             end == l \o <<Newline>>
             result == Decode(l)
             results == Results(sent)
  <2>1. HasLine(recv)
    BY <1>7 DEF TakeLine
  <2>2. /\ taken' = (taken \o l) \o <<Newline>>
        /\ received' = IF result.ok THEN Append(received, result.cmd) ELSE received
        /\ sent' = sent /\ encoded' = encoded
    BY <1>7 DEF TakeLine
  <2>3. /\ ParsedLine(recv).rest \in Buffers /\ l \in Seq(Bytes)
        /\ Unread(recv) = end \o w
    BY <1>4, <2>1, ParsedUnread
  <2>4. \A j \in 1 .. Len(l) : l[j] # Newline
    BY <1>4, <2>1, ParsedHasNoNewline
  <2>5. /\ w \in Seq(Bytes) /\ Unread(send) \in Seq(Bytes) /\ <<Newline>> \in Seq(Bytes)
    BY <1>4, <2>3, DoneAndUnread, BufferAssumption DEF BufferAssumption
  <2> HIDE DEF l, w
  <2>6. end \in Seq(Bytes) /\ rest \in Seq(Bytes)
    <3>1. end \in Seq(Bytes)
      BY <2>3, <2>5, ConcatTyped
    <3>2. w \o stream \in Seq(Bytes)
      BY <1>4, <2>5, ConcatTyped
    <3>3. (w \o stream) \o Unread(send) \in Seq(Bytes)
      <4> DEFINE x == w \o stream
                 y == Unread(send)
      <4>1. x \in Seq(Bytes) /\ y \in Seq(Bytes)
        BY <2>5, <3>2
      <4> HIDE DEF x, y
      <4>2. x \o y \in Seq(Bytes)
        BY <4>1, ConcatTyped
      <4> QED
        BY <4>2 DEF x, y
    <3> QED
      BY <3>1, <3>3
  <2>7. taken' = taken \o end
    <3>1. taken \in Seq(Bytes) /\ l \in Seq(Bytes) /\ <<Newline>> \in Seq(Bytes)
      BY <1>4, <2>3, <2>5
    <3>2. (taken \o l) \o <<Newline>> = taken \o (l \o <<Newline>>)
      BY ONLY <3>1, Associative
    <3> QED
      BY <2>2, <3>2
  <2>8. encoded = (taken \o end) \o rest
    <3> DEFINE v == Unread(send)
               x == taken \o end
    <3>1. v \in Seq(Bytes)
      BY <2>5
    <3>2. ((taken \o (end \o w)) \o stream) \o v = encoded
      BY <1>4, <2>3
    <3> HIDE DEF end, v
    <3>3. x \in Seq(Bytes) /\ taken \o (end \o w) = x \o w
      <4>1. taken \o end \in Seq(Bytes)
        BY <1>4, <2>6, ConcatTyped
      <4>2. (taken \o end) \o w = taken \o (end \o w)
        <5>1. taken \in Seq(Bytes) /\ end \in Seq(Bytes) /\ w \in Seq(Bytes)
          BY <1>4, <2>5, <2>6
        <5> QED
          BY <5>1, Associative
      <4> QED
        BY <4>1, <4>2
    <3> HIDE DEF x
    <3>4. (x \o w) \o stream = x \o (w \o stream)
      <4>1. x \in Seq(Bytes) /\ w \in Seq(Bytes) /\ stream \in Seq(Bytes)
        BY <1>4, <2>5, <3>3
      <4> QED
        BY ONLY <4>1, Associative
    <3>5. (x \o (w \o stream)) \o v = x \o ((w \o stream) \o v)
      <4> DEFINE y == w \o stream
      <4>1. y \in Seq(Bytes)
        BY <1>4, <2>5, ConcatTyped
      <4> HIDE DEF y
      <4>2. (x \o y) \o v = x \o (y \o v)
        BY <3>1, <3>3, <4>1, Associative, Zenon
      <4> QED
        BY <4>2 DEF y
    <3> QED
      BY <3>2, <3>3, <3>4, <3>5 DEF x, v
  <2> HIDE DEF rest
  <2>9. /\ k + 1 \in 1 .. Len(sent)
        /\ l = LineOf(sent[k + 1])
        /\ Len(taken \o end) = at[k + 1]
    <3>1. rest \in Seq(Bytes) /\ encoded = (taken \o (l \o <<Newline>>)) \o rest
      BY <2>6, <2>8
    <3>2. /\ sent \in Seq(Sendable) /\ encoded \in Seq(Bytes) /\ taken \in Seq(Bytes)
          /\ Lines(sent, encoded, at) /\ k \in 0 .. Len(sent) /\ Len(taken) = at[k]
          /\ l \in Seq(Bytes) /\ \A j \in 1 .. Len(l) : l[j] # Newline
      BY <1>1, <1>3, <1>4, <2>3, <2>4
    <3> QED
      <4>1. TakenAhead(sent, encoded, at, k, taken, l, rest)
        BY <3>1, <3>2 DEF TakenAhead
      <4> QED
        BY <4>1, NextLine
  <2>10. results \in Seq({Decode(LineOf(cmd)) : cmd \in Sendable})
         /\ Len(results) = Len(sent) /\ results[k + 1] = result
    BY <1>1, <2>9, ResultsTyped
  <2> HIDE DEF results, result
  <2>11. Decoded(results)[k + 1] =
           IF results[k + 1].ok THEN Append(Decoded(results)[k], results[k + 1].cmd)
           ELSE Decoded(results)[k]
    <3>1. k + 1 \in 1 .. Len(results) /\ k + 1 - 1 = k
      BY <1>3, <2>9, <2>10
    <3> DEFINE j == k + 1
    <3>2. j \in 1 .. Len(results) /\ j = k + 1 /\ j - 1 = k
      BY <1>3, <3>1
    <3> HIDE DEF j
    <3>3. Decoded(results)[j] =
            IF results[j].ok THEN Append(Decoded(results)[j - 1], results[j].cmd)
            ELSE Decoded(results)[j - 1]
      BY <2>10, <3>2, DecodedSteps
    <3> QED
      BY <3>2, <3>3
  <2>12. received' = Decoded(results)[k + 1]
    BY <1>3, <2>2, <2>10, <2>11 DEF results
  <2>13. k + 1 \in 0 .. Len(sent)
    BY <2>9
  <2>14. Arrived(at, k + 1)'
    BY <1>3, <2>2, <2>7, <2>9, <2>12, <2>13 DEF Arrived, results
  <2>15. received' \in Seq(Commands) /\ \A i \in DOMAIN received' : WellFormed(received'[i])
    <3>1. CASE result.ok
      <4> DEFINE c == result.cmd
      <4>1. c \in Commands /\ WellFormed(c)
        BY <2>3, <3>1, DecodedTyped, DecodedWellFormed DEF result
      <4> HIDE DEF c
      <4>2. received' = Append(received, c)
        BY <2>2, <3>1 DEF c
      <4>3. /\ Append(received, c) \in Seq(Commands)
            /\ Len(Append(received, c)) = Len(received) + 1
            /\ Append(received, c)[Len(received) + 1] = c
            /\ \A i \in 1 .. Len(received) : Append(received, c)[i] = received[i]
        BY <1>1, <4>1, AppendProperties
      <4>4. \A i \in 1 .. Len(received) + 1 :
              i \in 1 .. Len(received) \/ i = Len(received) + 1
        BY <1>1
      <4>5. /\ DOMAIN received = 1 .. Len(received)
            /\ DOMAIN Append(received, c) = 1 .. Len(received) + 1
        BY <1>1, <4>3
      <4> QED
        BY <1>1, <4>1, <4>2, <4>3, <4>4, <4>5
    <3>2. CASE ~result.ok
      <4>1. received' = received
        BY <2>2, <3>2
      <4> QED
        BY <1>1, <4>1
    <3> QED
      BY <3>1, <3>2
  <2> QED
    BY <1>1, <2>2, <2>14, <2>15 DEF ArrivalInv
<1> QED
  <2>1. CASE UNCHANGED vars
    BY <1>5, <2>1 DEF vars
  <2>2. ASSUME NEW n \in 0 .. Remaining(send), Flush(n)
        PROVE  ArrivalInv'
    BY <1>5, <2>2 DEF Flush
  <2>3. ASSUME NEW n \in 1 .. Len(stream), Drain(n)
        PROVE  ArrivalInv'
    BY <1>5, <2>3 DEF Drain
  <2> QED
    BY <1>6, <1>7, <2>1, <2>2, <2>3 DEF Next

\* However the stream is cut, the receiver decodes what was encoded line by
\* line and in order; a well-formed command arrives as it was sent, and every
\* command that arrives is well-formed (encode(), parse_line(), decode()).
THEOREM CommandsArriveAsSent == Spec => []ReceivedAsSent
<1>1. ArrivalInv => ReceivedAsSent
  <2> SUFFICES ASSUME ArrivalInv PROVE ReceivedAsSent
    OBVIOUS
  <2>1. /\ sent \in Seq(Sendable)
        /\ \A i \in DOMAIN received : WellFormed(received[i])
    BY DEF ArrivalInv
  <2>2. \E k \in 0 .. Len(sent) : received = Decoded(Results(sent))[k]
    BY DEF ArrivalInv, Arrived
  <2>3. ASSUME NEW i \in DOMAIN sent, WellFormed(sent[i])
        PROVE  Results(sent)[i] = [ok |-> TRUE, cmd |-> sent[i]]
    <3>1. i \in 1 .. Len(sent)
      BY <2>1
    <3>2. IsCommand(sent[i])
      BY <2>1, <3>1, ElementOfSeq, SendableAssumption DEF SendableAssumption
    <3>3. Decode(LineOf(sent[i])) = [ok |-> TRUE, cmd |-> sent[i]]
      BY <2>3, <3>2, WellFormedDecodes
    <3> QED
      BY <2>1, <3>1, <3>3, ResultsTyped
  <2> QED
    BY <2>1, <2>2, <2>3 DEF ReceivedAsSent
<1>2. Init => WireInv /\ ArrivalInv
  BY WireInit, ArrivalInit
<1>3. WireInv /\ ArrivalInv /\ [Next]_vars => (WireInv /\ ArrivalInv)'
  BY WireStep, ArrivalStep
<1> QED
  BY <1>1, <1>2, <1>3, PTL DEF Spec

=============================================================================
