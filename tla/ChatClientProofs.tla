-------------------------- MODULE ChatClientProofs --------------------------
(***************************************************************************)
(* What holds of the client's two threads for whatever the user types and  *)
(* however much the kernel takes: the flag that lets commands through ends *)
(* up as the server's session, nothing typed is left behind when stdin     *)
(* ends the client, and every reply handed over is shown.                  *)
(***************************************************************************)
EXTENDS ChatClient, SequenceTheorems, TLAPS

Replies == {"login success", "login failed", "other"}

\* Replies in the order the executor will come to them.
InOrder == executing \o execute_q \o recv \o down

\* What the server's session comes to.
Settled == session /\ ~clearing

Verdict(s) == IF s THEN "login success" ELSE "login failed"

\* A flag that goes through the replies q ends up as s: the last reply to a
\* login says so, or there is none and the flag does already.
LeadsTo(flag, q, s) ==
  \/ /\ flag = s
     /\ \A i \in DOMAIN q : q[i] = "other"
  \/ \E i \in DOMAIN q :
       /\ q[i] = Verdict(s)
       /\ \A j \in DOMAIN q : j > i => q[j] = "other"

ReplyTypeOK ==
  /\ executing \in Seq(Replies) /\ execute_q \in Seq(Replies)
  /\ recv \in Seq(Replies) /\ down \in Seq(Replies)
  /\ logged_in \in BOOLEAN /\ session \in BOOLEAN /\ clearing \in BOOLEAN

\* The executor has a reply in hand exactly when it executes one.
InHand ==
  /\ exec = "execute" => Len(executing) = 1
  /\ exec # "execute" => executing = <<>>

FlagInv == ReplyTypeOK /\ InHand /\ LeadsTo(logged_in, InOrder, Settled)

\* Only the io thread stops the client: the others are asked after it is done
\* with its work, and the executor leaves with nothing to execute.
StopInv ==
  /\ stop_requested \/ error => io \in {"notify", "done"}
  /\ main \notin {"wait", "asleep"} => stop_requested
  /\ asked # {} => main \notin {"wait", "asleep"}
  /\ exec \in {"leaving", "notify", "done"} => stop_requested /\ execute_q = <<>>
  /\ main \in {"join io", "returned"} => exec = "done"

\* The io thread leaves at the end of stdin with everything executed and sent.
LeavingInv ==
  /\ error \in BOOLEAN
  /\ io = "stdin" => stdin # <<>> \/ eof_typed
  /\ stdin_eof => eof_typed /\ stdin = <<>> /\ unended # "typed"
  /\ io \in {"line", "typed", "failing"} \/ error \/ stdin_buf = <<>>
  /\ (io = "leaving" \/ (io \in {"notify", "done"} /\ ~error)) =>
       closed \/ (stdin = <<>> /\ unended # "typed" /\ send = <<>>)

-----------------------------------------------------------------------------
(* How the threads stop.                                                   *)

LEMMA StopStep == StopInv /\ [Next]_vars => StopInv'
<1> SUFFICES ASSUME StopInv, [Next]_vars
             PROVE  StopInv'
  OBVIOUS
<1> USE DEF StopInv, threads, running
<1>1. CASE Main
  <2>1. CASE WaitForStop
    BY <2>1 DEF WaitForStop, queue
  <2>2. CASE AskExecutor
    BY <2>2 DEF AskExecutor, MainGoes, queue
  <2>3. CASE NotifyExecutor
    BY <2>3 DEF NotifyExecutor, MainGoes, queue
  <2>4. CASE AskIo
    BY <2>4 DEF AskIo, MainGoes, queue
  <2>5. CASE JoinExecutor \/ JoinIo
    BY <2>5 DEF JoinExecutor, JoinIo, MainGoes, queue
  <2> QED
    BY <1>1, <2>1, <2>2, <2>3, <2>4, <2>5 DEF Main
<1>2. CASE Executor
  <2>1. CASE ExecutorChecks
    BY <2>1 DEF ExecutorChecks, Stopping
  <2>2. CASE ExecutorSleeps
    BY <2>2 DEF ExecutorSleeps, queue
  <2>3. CASE ExecutorExecutes
    BY <2>3 DEF ExecutorExecutes
  <2>4. CASE ExecutorSignals
    BY <2>4 DEF ExecutorSignals, SetStop, NotifyMain, queue
  <2> QED
    BY <1>2, <2>1, <2>2, <2>3, <2>4 DEF Executor
<1>3. CASE RequestExecute
  <2>1. io = "reply" /\ ~stop_requested
    BY <1>3 DEF RequestExecute
  <2> QED
    BY <1>3, <2>1 DEF RequestExecute
<1>4. CASE IoSignals
  BY <1>4 DEF IoSignals, SetStop, NotifyMain, queue
<1>5. ASSUME Io \/ IoFails \/ PollInterrupted, ~RequestExecute, ~IoSignals
      PROVE  StopInv'
  <2>1. /\ UNCHANGED <<main, exec, stop_requested, error, asked, execute_q>>
        /\ io \notin {"notify", "done"}
    BY <1>5 DEF Io, IoFails, CallFails, ConnectionFails, PollInterrupted, StartHandshake, IoChecks, Poll, ReadStdin, ExecuteLine, StdinDone,
          FlushTyped, ProgressHandshake, FlushPending, RecvSocket, RepliesDone, EndRound, IoGoes,
          queue
  <2> QED
    BY <2>1
<1>6. CASE \/ (\E line \in Lines : Type(line)) \/ CloseStdin \/ Server \/ ServerCloses
           \/ UNCHANGED vars
  <2>1. UNCHANGED <<main, io, exec, stop_requested, error, asked, execute_q>>
    BY <1>6 DEF Type, CloseStdin, Server, ServerFlight, ServerTakes, ServerClears, ServerCloses,
          vars, queue
  <2> QED
    BY <2>1
<1> QED
  BY <1>1, <1>2, <1>3, <1>4, <1>5, <1>6 DEF Next

-----------------------------------------------------------------------------
(* How the io thread leaves.                                               *)

LEMMA LeavingKept ==
  ASSUME LeavingInv,
         UNCHANGED <<io, error, stdin, eof_typed, unended, stdin_eof, stdin_buf, closed, send>>
  PROVE  LeavingInv'
  BY DEF LeavingInv

LEMMA LeavingStep == StopInv /\ LeavingInv /\ [Next]_vars => LeavingInv'
<1> SUFFICES ASSUME StopInv, LeavingInv, [Next]_vars
             PROVE  LeavingInv'
  OBVIOUS
<1>1. CASE Main
  <2>1. UNCHANGED <<io, error, stdin, eof_typed, unended, stdin_eof, stdin_buf, closed, send>>
    BY <1>1 DEF Main, WaitForStop, AskExecutor, NotifyExecutor, AskIo, JoinExecutor, JoinIo,
          running, input, reading
  <2> QED
    BY <2>1, LeavingKept
<1>2. CASE Executor
  <2>1. UNCHANGED <<io, error, stdin, eof_typed, unended, stdin_eof, stdin_buf, closed, send>>
    BY <1>2 DEF Executor, ExecutorChecks, ExecutorSleeps, ExecutorExecutes, ExecutorSignals,
          SetStop, running, input, reading, LeavingInv
  <2> QED
    BY <2>1, LeavingKept
<1>3. CASE \/ (\E line \in Lines : Type(line)) \/ CloseStdin
  BY <1>3 DEF Type, CloseStdin, IoReturned, LeavingInv, threads, running, reading
<1>4. CASE Server \/ ServerCloses \/ UNCHANGED vars
  <2>1. UNCHANGED <<io, error, stdin, eof_typed, unended, stdin_eof, stdin_buf, closed, send>>
    BY <1>4 DEF Server, ServerFlight, ServerTakes, ServerClears, ServerCloses, vars,
          threads, running, input, reading
  <2> QED
    BY <2>1, LeavingKept
<1>5. CASE StartHandshake \/ StdinDone \/ ProgressHandshake \/ RequestExecute
  <2>1. CASE StartHandshake \/ StdinDone
    BY <2>1 DEF StartHandshake, StdinDone, IoGoes, LeavingInv, running, input, reading
  <2>2. CASE ProgressHandshake
    BY <2>2 DEF ProgressHandshake, LeavingInv, running, input, reading
  <2>3. CASE RequestExecute
    BY <2>3 DEF RequestExecute, LeavingInv, running, input, reading
  <2> QED
    BY <1>5, <2>1, <2>2, <2>3
<1>6. CASE IoChecks
  <2>1. io' = "poll"
    BY <1>6 DEF IoChecks, StopInv
  <2> QED
    BY <1>6, <2>1 DEF IoChecks, LeavingInv, running, input, reading
<1>7. CASE Poll
  <2>1. io' = "stdin" => stdin # <<>> \/ eof_typed
    BY <1>7 DEF Poll, IoGoes, Ready
  <2> QED
    BY <1>7, <2>1 DEF Poll, IoGoes, LeavingInv, running, input, reading
<1>8. CASE IoFails \/ PollInterrupted
  BY <1>8 DEF IoFails, CallFails, ConnectionFails, PollInterrupted, IoGoes, LeavingInv, running, input, reading
<1>9. CASE ReadStdin
  <2>1. stdin_eof' => eof_typed /\ stdin = <<>>
    BY <1>9 DEF ReadStdin, IoGoes, LeavingInv
  <2>2. CASE stdin = <<>>
    <3>1. stdin_buf = <<>>
      BY <1>9 DEF ReadStdin, IoGoes, LeavingInv, StopInv
    <3>2. stdin_buf' = <<>> \o <<>>
      BY <1>9, <2>2, <3>1 DEF ReadStdin
    <3>3. <<>> \o <<>> = <<>>
      BY EmptySeq, ConcatEmptySeq
    <3> QED
      BY <1>9, <2>1, <3>2, <3>3 DEF ReadStdin, IoGoes, LeavingInv, running
  <2>3. CASE stdin # <<>>
    BY <1>9, <2>1, <2>3 DEF ReadStdin, IoGoes, LeavingInv, running
  <2> QED
    BY <2>2, <2>3
<1>10. CASE ExecuteLine \/ FlushTyped
  BY <1>10 DEF ExecuteLine, FlushTyped, IoGoes, LeavingInv, running, input, reading
<1>11. CASE FlushPending \/ RecvSocket
  BY <1>11 DEF FlushPending, RecvSocket, IoGoes, LeavingInv, running, input, reading
<1>12. CASE RepliesDone
  BY <1>12 DEF RepliesDone, IoGoes, LeavingInv, running, input, reading
<1>13. CASE EndRound
  BY <1>13 DEF EndRound, IoGoes, LeavingInv, running, input, reading
<1>14. CASE IoSignals
  BY <1>14 DEF IoSignals, SetStop, LeavingInv, running, input, reading
<1> QED
  BY <1>1, <1>2, <1>3, <1>4, <1>5, <1>6, <1>7, <1>8, <1>9, <1>10, <1>11, <1>12, <1>13, <1>14
     DEF Next, Io

-----------------------------------------------------------------------------
(* Replies: what each step does to the sequence of those under way.        *)

LEMMA HeadAndTail ==
  ASSUME NEW S, NEW t \in Seq(S), t # <<>>
  PROVE  /\ Head(t) \in S /\ Tail(t) \in Seq(S) /\ <<Head(t)>> \in Seq(S)
         /\ <<Head(t)>> \o Tail(t) = t
<1>1. Head(t) \in S /\ Tail(t) \in Seq(S)
  BY HeadTailProperties
<1>2. Len(t) \in Nat /\ Len(t) > 0 /\ Head(t) = t[1]
  BY LenProperties, EmptySeq
<1>3. 1 \in 1..Len(t) /\ Len(t) \in 1..Len(t) /\ 1 + 1 = 2
  BY <1>2
<1>4. SubSeq(t, 1, Len(t)) = <<t[1]>> \o SubSeq(t, 2, Len(t))
  BY <1>3, SubSeqRecursiveFirst
<1> QED
  BY <1>1, <1>2, <1>4, SubSeqFull, TailIsSubSeq

LEMMA HeadMoves ==
  ASSUME NEW S, NEW s \in Seq(S), NEW t \in Seq(S), t # <<>>
  PROVE  /\ Append(s, Head(t)) \in Seq(S) /\ Tail(t) \in Seq(S)
         /\ Append(s, Head(t)) \o Tail(t) = s \o t
<1>1. /\ Head(t) \in S /\ Tail(t) \in Seq(S) /\ <<Head(t)>> \in Seq(S)
      /\ <<Head(t)>> \o Tail(t) = t
  BY HeadAndTail
<1>2. Append(s, Head(t)) \in Seq(S) /\ Append(s, Head(t)) = s \o <<Head(t)>>
  BY <1>1, AppendProperties, AppendIsConcat
<1>3. (s \o <<Head(t)>>) \o Tail(t) = s \o (<<Head(t)>> \o Tail(t))
  BY <1>1, ConcatAssociative
<1> QED
  BY <1>1, <1>2, <1>3

LEMMA AppendToConcat ==
  ASSUME NEW S, NEW s \in Seq(S), NEW t \in Seq(S), NEW x \in S
  PROVE  s \o Append(t, x) = Append(s \o t, x)
<1>1. <<x>> \in Seq(S) /\ s \o t \in Seq(S)
  BY ConcatProperties
<1>2. Append(t, x) = t \o <<x>> /\ Append(s \o t, x) = (s \o t) \o <<x>>
  BY <1>1, AppendIsConcat
<1> QED
  BY <1>1, <1>2, ConcatAssociative

-----------------------------------------------------------------------------
(* The flag that goes through the replies.                                 *)

\* A reply that says what the session comes to decides, whatever was before.
LEMMA VerdictDecides ==
  ASSUME NEW q \in Seq(Replies), NEW s \in BOOLEAN, NEW flag
  PROVE  LeadsTo(flag, Append(q, Verdict(s)), s)
<1>1. Verdict(s) \in Replies
  BY DEF Verdict, Replies
<1>2. /\ Append(q, Verdict(s)) \in Seq(Replies)
      /\ Len(Append(q, Verdict(s))) = Len(q) + 1
      /\ Append(q, Verdict(s))[Len(q) + 1] = Verdict(s)
  BY <1>1, AppendProperties
<1> DEFINE r == Append(q, Verdict(s))
<1>3. DOMAIN r = 1..Len(q) + 1 /\ Len(q) \in Nat /\ r[Len(q) + 1] = Verdict(s)
  BY <1>2, LenProperties
<1> HIDE DEF r
<1>4. Len(q) + 1 \in DOMAIN r /\ \A j \in DOMAIN r : ~(j > Len(q) + 1)
  BY <1>3
<1>5. LeadsTo(flag, r, s)
  BY <1>3, <1>4 DEF LeadsTo
<1> QED
  BY <1>5 DEF r

\* A reply to another command decides nothing.
LEMMA OtherIsNeutral ==
  ASSUME NEW q \in Seq(Replies), NEW s \in BOOLEAN, NEW flag, LeadsTo(flag, q, s)
  PROVE  LeadsTo(flag, Append(q, "other"), s)
<1>0. "other" \in Replies
  BY DEF Replies
<1>1. /\ Append(q, "other") \in Seq(Replies)
      /\ Len(Append(q, "other")) = Len(q) + 1
      /\ \A i \in 1..Len(q) : Append(q, "other")[i] = q[i]
      /\ Append(q, "other")[Len(q) + 1] = "other"
  BY <1>0, AppendProperties
<1>2. DOMAIN Append(q, "other") = 1..Len(q) + 1 /\ DOMAIN q = 1..Len(q) /\ Len(q) \in Nat
  BY <1>1, LenProperties
<1> DEFINE r == Append(q, "other")
<1>3. /\ DOMAIN r = 1..Len(q) + 1 /\ r[Len(q) + 1] = "other"
      /\ \A i \in 1..Len(q) : r[i] = q[i]
  BY <1>1, <1>2
<1> HIDE DEF r
<1>4. LeadsTo(flag, r, s)
  BY <1>2, <1>3 DEF LeadsTo
<1> QED
  BY <1>4 DEF r

\* execute() of the reply that comes first.
Executed(flag, reply) ==
  CASE reply = "login success" -> TRUE
    [] reply = "login failed" -> FALSE
    [] OTHER -> flag

LEMMA FirstIsExecuted ==
  ASSUME NEW q \in Seq(Replies), NEW reply \in Replies, NEW s \in BOOLEAN,
         NEW flag \in BOOLEAN, LeadsTo(flag, <<reply>> \o q, s)
  PROVE  LeadsTo(Executed(flag, reply), q, s)
<1> DEFINE r == <<reply>> \o q
<1>1. <<reply>> \in Seq(Replies) /\ Len(<<reply>>) = 1 /\ <<reply>>[1] = reply
  OBVIOUS
<1>2. /\ r \in Seq(Replies) /\ Len(r) = 1 + Len(q)
      /\ \A i \in 1..1 + Len(q) : r[i] = IF i <= 1 THEN <<reply>>[i] ELSE q[i - 1]
  BY <1>1, ConcatProperties
<1>3. DOMAIN r = 1..1 + Len(q) /\ DOMAIN q = 1..Len(q) /\ Len(q) \in Nat
  BY <1>2, LenProperties
<1>4. LeadsTo(flag, r, s)
  OBVIOUS
<1> HIDE DEF r
<1>5. r[1] = reply /\ 1 \in DOMAIN r
  BY <1>1, <1>2, <1>3
<1>6. \A i \in DOMAIN q : i + 1 \in DOMAIN r /\ r[i + 1] = q[i]
  BY <1>2, <1>3
<1>7. \A i \in DOMAIN r : i = 1 \/ (i - 1 \in DOMAIN q /\ r[i] = q[i - 1])
  BY <1>2, <1>3
<1>8. CASE flag = s /\ \A i \in DOMAIN r : r[i] = "other"
  <2>1. reply = "other" /\ \A i \in DOMAIN q : q[i] = "other"
    BY <1>5, <1>6, <1>8
  <2> QED
    BY <1>8, <2>1 DEF LeadsTo, Executed
<1>9. ASSUME NEW i \in DOMAIN r, r[i] = Verdict(s),
             \A j \in DOMAIN r : j > i => r[j] = "other"
      PROVE  LeadsTo(Executed(flag, reply), q, s)
  <2>1. CASE i = 1
    <3>1. \A j \in DOMAIN q : q[j] = "other"
      BY <1>3, <1>6, <1>9, <2>1
    <3>2. Executed(flag, reply) = s
      BY <1>5, <1>9, <2>1 DEF Executed, Verdict
    <3> QED
      BY <3>1, <3>2 DEF LeadsTo
  <2>2. CASE i # 1
    <3>1. i - 1 \in DOMAIN q /\ q[i - 1] = Verdict(s)
      BY <1>7, <1>9, <2>2
    <3>2. \A j \in DOMAIN q : j > i - 1 => q[j] = "other"
      BY <1>3, <1>6, <1>9
    <3> QED
      BY <3>1, <3>2 DEF LeadsTo, Verdict
  <2> QED
    BY <2>1, <2>2
<1> QED
  BY <1>4, <1>8, <1>9 DEF LeadsTo, Verdict

-----------------------------------------------------------------------------
(* What each step does to the replies under way: it moves them on without  *)
(* changing their order, adds one at the end or takes the first.           *)

LEMMA ConcatTyped ==
  ASSUME NEW S, NEW a \in Seq(S), NEW b \in Seq(S)
  PROVE  a \o b \in Seq(S)
  BY ConcatProperties

LEMMA RepliesAssociate ==
  \A a, b, c \in Seq(Replies) : (a \o b) \o c = a \o (b \o c)
<1> TAKE a, b, c \in Seq(Replies)
<1> QED
  BY ConcatAssociative

LEMMA ReceivingKeepsOrder ==
  ASSUME ReplyTypeOK, UNCHANGED <<executing, execute_q>>,
         recv' = recv \o down, down' = <<>>
  PROVE  InOrder' = InOrder /\ recv' \in Seq(Replies) /\ down' \in Seq(Replies)
<1>0. /\ executing \in Seq(Replies) /\ execute_q \in Seq(Replies)
      /\ recv \in Seq(Replies) /\ down \in Seq(Replies)
  BY DEF ReplyTypeOK
<1> DEFINE a == executing \o execute_q
<1>1. a \in Seq(Replies) /\ recv \o down \in Seq(Replies)
  BY ConcatTyped DEF ReplyTypeOK
<1>2. a \o (recv \o down) \in Seq(Replies)
  BY <1>1, ConcatTyped
<1>3. (a \o (recv \o down)) \o <<>> = a \o (recv \o down)
  BY <1>2, ConcatEmptySeq
<1>4. a \o (recv \o down) = (a \o recv) \o down
  BY <1>0, <1>1, RepliesAssociate, SMTT(30)
<1>5. <<>> \in Seq(Replies)
  BY EmptySeq
<1>6. a' = a
  OBVIOUS
<1> QED
  BY <1>1, <1>3, <1>4, <1>5, <1>6 DEF InOrder

LEMMA RequestingKeepsOrder ==
  ASSUME ReplyTypeOK, recv # <<>>, UNCHANGED <<executing, down>>,
         execute_q' = Append(execute_q, Head(recv)), recv' = Tail(recv)
  PROVE  InOrder' = InOrder /\ execute_q' \in Seq(Replies) /\ recv' \in Seq(Replies)
<1> DEFINE q == Append(execute_q, Head(recv))
           r == Tail(recv)
<1>1. q \in Seq(Replies) /\ r \in Seq(Replies) /\ q \o r = execute_q \o recv
  BY HeadMoves DEF ReplyTypeOK
<1>2. q = execute_q' /\ r = recv'
  OBVIOUS
<1> HIDE DEF q, r
<1>3. (executing \o q) \o r = executing \o (q \o r)
  BY <1>1, RepliesAssociate DEF ReplyTypeOK
<1>4. (executing \o execute_q) \o recv = executing \o (execute_q \o recv)
  BY RepliesAssociate DEF ReplyTypeOK
<1> QED
  BY <1>1, <1>2, <1>3, <1>4 DEF InOrder

LEMMA TakingKeepsOrder ==
  ASSUME ReplyTypeOK, execute_q # <<>>, executing = <<>>, UNCHANGED <<recv, down>>,
         executing' = <<Head(execute_q)>>, execute_q' = Tail(execute_q)
  PROVE  /\ InOrder' = InOrder
         /\ executing' \in Seq(Replies) /\ execute_q' \in Seq(Replies) /\ Len(executing') = 1
<1>1. /\ executing' \in Seq(Replies) /\ execute_q' \in Seq(Replies)
      /\ executing' \o execute_q' = execute_q
  BY HeadAndTail DEF ReplyTypeOK
<1>2. executing \o execute_q = execute_q
  BY ConcatEmptySeq DEF ReplyTypeOK
<1> QED
  BY <1>1, <1>2 DEF InOrder

LEMMA AnswerComesLast ==
  ASSUME ReplyTypeOK, NEW reply \in Replies, UNCHANGED <<executing, execute_q, recv>>,
         down' = Append(down, reply)
  PROVE  /\ InOrder \in Seq(Replies) /\ InOrder' = Append(InOrder, reply)
         /\ down' \in Seq(Replies)
<1> DEFINE a == (executing \o execute_q) \o recv
<1>1. a \in Seq(Replies)
  BY ConcatTyped DEF ReplyTypeOK
<1>2. a \o down \in Seq(Replies) /\ Append(down, reply) \in Seq(Replies)
  BY <1>1, ConcatTyped, AppendProperties DEF ReplyTypeOK
<1>3. a \o Append(down, reply) = Append(a \o down, reply)
  BY <1>1, AppendToConcat DEF ReplyTypeOK
<1>4. a' = a
  OBVIOUS
<1> QED
  BY <1>2, <1>3, <1>4 DEF InOrder

LEMMA ExecutedComesFirst ==
  ASSUME ReplyTypeOK, Len(executing) = 1, executing' = <<>>,
         UNCHANGED <<execute_q, recv, down>>
  PROVE  /\ Head(executing) \in Replies /\ InOrder' \in Seq(Replies)
         /\ InOrder = <<Head(executing)>> \o InOrder'
<1>0. /\ executing \in Seq(Replies) /\ execute_q \in Seq(Replies)
      /\ recv \in Seq(Replies) /\ down \in Seq(Replies)
  BY DEF ReplyTypeOK
<1>1. executing # <<>> /\ executing = <<Head(executing)>> /\ Head(executing) \in Replies
  <2>1. executing \in Seq(Replies)
    BY DEF ReplyTypeOK
  <2>2. executing # <<>>
    BY EmptySeq
  <2>3. Head(executing) \in Replies /\ Head(executing) = executing[1]
    BY <2>1, <2>2, HeadTailProperties
  <2>4. <<Head(executing)>> \in Seq(Replies) /\ Len(<<Head(executing)>>) = 1
        /\ <<Head(executing)>>[1] = Head(executing)
    BY <2>3
  <2>5. executing = <<Head(executing)>>
    BY <2>1, <2>3, <2>4, SeqEqual
  <2> QED
    BY <2>2, <2>3, <2>5
<1>2. /\ execute_q \o recv \in Seq(Replies)
      /\ (execute_q \o recv) \o down \in Seq(Replies)
  BY ConcatTyped DEF ReplyTypeOK
<1>3. InOrder = executing \o ((execute_q \o recv) \o down)
  <2>1. (executing \o execute_q) \o recv = executing \o (execute_q \o recv)
    BY <1>0, RepliesAssociate
  <2>2. (executing \o (execute_q \o recv)) \o down = executing \o ((execute_q \o recv) \o down)
    BY <1>0, <1>2, RepliesAssociate, SMTT(30)
  <2> QED
    BY <2>1, <2>2 DEF InOrder
<1>4. InOrder' = (execute_q \o recv) \o down
  <2>1. <<>> \o execute_q = execute_q
    BY ConcatEmptySeq DEF ReplyTypeOK
  <2> QED
    BY <2>1 DEF InOrder
<1> QED
  BY <1>1, <1>2, <1>3, <1>4

-----------------------------------------------------------------------------
(* The flag and the session.                                               *)

LEMMA SettledTyped == ReplyTypeOK => Settled \in BOOLEAN
  BY DEF ReplyTypeOK, Settled

LEMMA FlagKept ==
  ASSUME FlagInv, exec' = exec \/ {exec, exec'} \cap {"execute"} = {},
         UNCHANGED <<executing, execute_q, recv, down, logged_in, session, clearing>>
  PROVE  FlagInv'
  BY DEF FlagInv, ReplyTypeOK, InHand, InOrder, Settled

LEMMA FlagInit == Init => FlagInv
<1> SUFFICES ASSUME Init
             PROVE  FlagInv
  OBVIOUS
<1>1. ReplyTypeOK /\ InHand
  BY EmptySeq DEF Init, ReplyTypeOK, InHand
<1>2. InOrder = <<>>
  <2>1. <<>> \o <<>> = <<>>
    BY EmptySeq, ConcatEmptySeq
  <2> QED
    BY <2>1 DEF Init, InOrder
<1>3. LeadsTo(FALSE, <<>>, FALSE)
  BY DEF LeadsTo
<1> QED
  BY <1>1, <1>2, <1>3 DEF Init, FlagInv, Settled

LEMMA FlagStep == FlagInv /\ [Next]_vars => FlagInv'
<1> SUFFICES ASSUME FlagInv, [Next]_vars
             PROVE  FlagInv'
  OBVIOUS
<1>0. /\ ReplyTypeOK /\ InHand /\ LeadsTo(logged_in, InOrder, Settled)
      /\ Settled \in BOOLEAN /\ logged_in \in BOOLEAN
  BY SettledTyped DEF FlagInv, ReplyTypeOK
<1>1. CASE Main
  <2>1. /\ exec' = exec \/ {exec, exec'} \cap {"execute"} = {}
        /\ UNCHANGED <<executing, execute_q, recv, down, logged_in, session, clearing>>
    BY <1>1 DEF Main, WaitForStop, AskExecutor, NotifyExecutor, AskIo, JoinExecutor, JoinIo,
          choice, queue, server
  <2> QED
    BY <2>1, FlagKept
<1>2. CASE ExecutorChecks
  <2>1. CASE execute_q # <<>>
    <3>1. /\ exec = "check" /\ exec' = "execute"
          /\ executing' = <<Head(execute_q)>> /\ execute_q' = Tail(execute_q)
          /\ UNCHANGED <<recv, down, logged_in, session, clearing>>
      BY <1>2, <2>1 DEF ExecutorChecks, choice, server
    <3>2. /\ InOrder' = InOrder /\ Len(executing') = 1
          /\ executing' \in Seq(Replies) /\ execute_q' \in Seq(Replies)
      BY <1>0, <2>1, <3>1, TakingKeepsOrder DEF InHand
    <3> QED
      BY <1>0, <3>1, <3>2 DEF FlagInv, ReplyTypeOK, InHand, Settled
  <2>2. CASE execute_q = <<>>
    <3>1. /\ {exec, exec'} \cap {"execute"} = {}
          /\ UNCHANGED <<executing, execute_q, recv, down, logged_in, session, clearing>>
      BY <1>2, <2>2 DEF ExecutorChecks, choice, server
    <3> QED
      BY <3>1, FlagKept
  <2> QED
    BY <2>1, <2>2
<1>3. CASE ExecutorSleeps \/ ExecutorSignals
  <2>1. /\ {exec, exec'} \cap {"execute"} = {}
        /\ UNCHANGED <<executing, execute_q, recv, down, logged_in, session, clearing>>
    BY <1>3 DEF ExecutorSleeps, ExecutorSignals, choice, queue, server
  <2> QED
    BY <2>1, FlagKept
<1>4. CASE ExecutorExecutes
  <2>1. /\ exec = "execute" /\ exec' = "check" /\ executing' = <<>>
        /\ UNCHANGED <<execute_q, recv, down, session, clearing>>
        /\ logged_in' = Executed(logged_in, Head(executing))
    BY <1>4 DEF ExecutorExecutes, server, Executed
  <2>2. /\ Head(executing) \in Replies /\ InOrder' \in Seq(Replies)
        /\ InOrder = <<Head(executing)>> \o InOrder'
    BY <1>0, <2>1, ExecutedComesFirst DEF InHand
  <2>3. LeadsTo(Executed(logged_in, Head(executing)), InOrder', Settled)
    BY <1>0, <2>2, FirstIsExecuted
  <2>4. LeadsTo(logged_in, InOrder, Settled)'
    BY <2>1, <2>3 DEF LeadsTo, Settled
  <2>5. logged_in' \in BOOLEAN /\ executing' \in Seq(Replies)
    BY <1>0, <2>1, EmptySeq DEF Executed
  <2> QED
    BY <1>0, <2>1, <2>4, <2>5 DEF FlagInv, ReplyTypeOK, InHand
<1>5. CASE RecvSocket
  <2>1. CASE Secure /\ "IN" \in revents
    <3>1. /\ recv' = recv \o down /\ down' = <<>>
          /\ UNCHANGED <<exec, executing, execute_q, logged_in, session, clearing>>
      BY <1>5, <2>1 DEF RecvSocket, choice, queue
    <3>2. InOrder' = InOrder /\ recv' \in Seq(Replies) /\ down' \in Seq(Replies)
      BY <1>0, <3>1, ReceivingKeepsOrder
    <3> QED
      BY <1>0, <3>1, <3>2 DEF FlagInv, ReplyTypeOK, InHand, Settled
  <2>2. CASE ~(Secure /\ "IN" \in revents)
    <3>1. UNCHANGED <<exec, executing, execute_q, recv, down, logged_in, session, clearing>>
      BY <1>5, <2>2 DEF RecvSocket, choice, queue
    <3> QED
      BY <3>1, FlagKept
  <2> QED
    BY <2>1, <2>2
<1>6. CASE RequestExecute
  <2>1. /\ recv # <<>> /\ execute_q' = Append(execute_q, Head(recv)) /\ recv' = Tail(recv)
        /\ exec' = exec \/ {exec, exec'} \cap {"execute"} = {}
        /\ UNCHANGED <<executing, down, logged_in, session, clearing>>
    BY <1>6 DEF RequestExecute, choice, server
  <2>2. InOrder' = InOrder /\ execute_q' \in Seq(Replies) /\ recv' \in Seq(Replies)
    BY <1>0, <2>1, RequestingKeepsOrder
  <2> QED
    BY <1>0, <2>1, <2>2 DEF FlagInv, ReplyTypeOK, InHand, Settled
<1>7. ASSUME Io \/ IoFails \/ PollInterrupted, ~RecvSocket, ~RequestExecute
      PROVE  FlagInv'
  <2>1. UNCHANGED <<exec, executing, execute_q, recv, down, logged_in, session, clearing>>
    BY <1>7 DEF Io, IoFails, CallFails, ConnectionFails, PollInterrupted, StartHandshake, IoChecks, Poll, ReadStdin, ExecuteLine, StdinDone,
          FlushTyped, ProgressHandshake, FlushPending, RepliesDone, EndRound, IoSignals, IoGoes,
          choice, queue, server
  <2> QED
    BY <2>1, FlagKept
<1>8. CASE ServerTakes
  <2>1. ~clearing /\ UNCHANGED <<exec, executing, execute_q, recv, logged_in>>
    BY <1>8 DEF ServerTakes, threads, choice, queue
  <2>2. CASE down' = Append(down, "other") /\ UNCHANGED <<session, clearing>>
    <3>1. "other" \in Replies
      BY DEF Replies
    <3>2. /\ InOrder \in Seq(Replies) /\ InOrder' = Append(InOrder, "other")
          /\ down' \in Seq(Replies)
      BY <1>0, <2>1, <2>2, <3>1, AnswerComesLast
    <3>3. LeadsTo(logged_in, Append(InOrder, "other"), Settled)
      BY <1>0, <3>2, OtherIsNeutral
    <3> QED
      BY <1>0, <2>1, <2>2, <3>2, <3>3 DEF FlagInv, ReplyTypeOK, InHand, Settled
  <2>3. CASE down' = Append(down, Verdict(Settled')) /\ {session', clearing'} \subseteq BOOLEAN
    <3>1. Verdict(Settled') \in Replies /\ Settled' \in BOOLEAN
      BY <2>3 DEF Verdict, Replies, Settled
    <3>2. /\ InOrder \in Seq(Replies) /\ InOrder' = Append(InOrder, Verdict(Settled'))
          /\ down' \in Seq(Replies)
      BY <1>0, <2>1, <2>3, <3>1, AnswerComesLast
    <3>3. LeadsTo(logged_in, Append(InOrder, Verdict(Settled')), Settled')
      BY <3>1, <3>2, VerdictDecides
    <3>4. LeadsTo(logged_in, InOrder, Settled)'
      BY <2>1, <3>2, <3>3 DEF LeadsTo
    <3> QED
      BY <1>0, <2>1, <2>3, <3>2, <3>4 DEF FlagInv, ReplyTypeOK, InHand
  <2>4. CASE session' = TRUE /\ down' = Append(down, "login success") /\ UNCHANGED clearing
    <3>1. Settled' = TRUE /\ {session', clearing'} \subseteq BOOLEAN
      BY <1>0, <2>1, <2>4 DEF Settled, ReplyTypeOK
    <3> QED
      BY <2>3, <2>4, <3>1 DEF Verdict
  <2>5. CASE session' = FALSE /\ down' = Append(down, "login failed") /\ UNCHANGED clearing
    <3>1. Settled' = FALSE /\ {session', clearing'} \subseteq BOOLEAN
      BY <1>0, <2>1, <2>5 DEF Settled, ReplyTypeOK
    <3> QED
      BY <2>3, <2>5, <3>1 DEF Verdict
  <2>6. CASE clearing' = TRUE /\ down' = Append(down, "login failed") /\ UNCHANGED session
    BY <1>0, <2>1, <2>3, <2>6 DEF Settled, Verdict, ReplyTypeOK
  <2> QED
    BY <1>8, <2>2, <2>4, <2>5, <2>6 DEF ServerTakes
<1>9. CASE ServerClears
  <2>1. /\ clearing /\ clearing' = FALSE /\ session' = FALSE
        /\ UNCHANGED <<exec, executing, execute_q, recv, down, logged_in>>
    BY <1>9 DEF ServerClears, threads, choice, queue
  <2>2. Settled = FALSE /\ Settled' = FALSE /\ InOrder' = InOrder
    BY <2>1 DEF Settled, InOrder
  <2> QED
    BY <1>0, <2>1, <2>2 DEF FlagInv, ReplyTypeOK, InHand
<1>10. CASE \/ (\E line \in Lines : Type(line)) \/ CloseStdin \/ ServerFlight \/ ServerCloses
            \/ UNCHANGED vars
  <2>1. UNCHANGED <<exec, executing, execute_q, recv, down, logged_in, session, clearing>>
    BY <1>10 DEF Type, CloseStdin, ServerFlight, ServerCloses, vars, threads, choice, queue, server
  <2> QED
    BY <2>1, FlagKept
<1> QED
  BY <1>1, <1>2, <1>3, <1>4, <1>5, <1>6, <1>7, <1>8, <1>9, <1>10 DEF Next, Executor, Server

-----------------------------------------------------------------------------
(* The theorems.                                                           *)

AllOther(q) == \A i \in DOMAIN q : q[i] = "other"

LEMMA AllOtherOfConcat ==
  ASSUME NEW a \in Seq(Replies), NEW b \in Seq(Replies)
  PROVE  AllOther(a \o b) <=> AllOther(a) /\ AllOther(b)
<1>1. /\ a \o b \in Seq(Replies) /\ Len(a \o b) = Len(a) + Len(b)
      /\ \A i \in 1..Len(a) + Len(b) : (a \o b)[i] = IF i <= Len(a) THEN a[i] ELSE b[i - Len(a)]
  BY ConcatProperties
<1> DEFINE r == a \o b
<1>2. /\ DOMAIN a = 1..Len(a) /\ DOMAIN b = 1..Len(b)
      /\ Len(a) \in Nat /\ Len(b) \in Nat
  BY LenProperties
<1>3. /\ DOMAIN r = 1..Len(a) + Len(b)
      /\ \A i \in 1..Len(a) + Len(b) : r[i] = IF i <= Len(a) THEN a[i] ELSE b[i - Len(a)]
  BY <1>1, LenProperties
<1> HIDE DEF r
<1>4. \A i \in DOMAIN a : i \in DOMAIN r /\ r[i] = a[i]
  BY <1>2, <1>3
<1>5. \A i \in DOMAIN b : i + Len(a) \in DOMAIN r /\ r[i + Len(a)] = b[i]
  BY <1>2, <1>3
<1>6. ASSUME NEW i \in DOMAIN r
      PROVE  \/ i \in DOMAIN a /\ r[i] = a[i]
             \/ i - Len(a) \in DOMAIN b /\ r[i] = b[i - Len(a)]
  <2>1. CASE i <= Len(a)
    BY <1>2, <1>3, <2>1
  <2>2. CASE i > Len(a)
    BY <1>2, <1>3, <2>2
  <2> QED
    BY <1>2, <1>3, <2>1, <2>2
<1>7. AllOther(r) <=> AllOther(a) /\ AllOther(b)
  BY <1>4, <1>5, <1>6 DEF AllOther
<1> QED
  BY <1>7 DEF r

\* The order in which they are looked at does not matter.
LEMMA UnderwayAllOther ==
  ASSUME ReplyTypeOK, AllOther(Underway)
  PROVE  AllOther(InOrder)
<1>1. down \o recv \in Seq(Replies) /\ executing \o execute_q \in Seq(Replies)
  BY ConcatTyped DEF ReplyTypeOK
<1>2. /\ (down \o recv) \o execute_q \in Seq(Replies)
      /\ (executing \o execute_q) \o recv \in Seq(Replies)
  BY <1>1, ConcatTyped DEF ReplyTypeOK
<1>3. AllOther((down \o recv) \o execute_q) /\ AllOther(executing)
  BY <1>2, AllOtherOfConcat DEF ReplyTypeOK, Underway
<1>4. AllOther(down \o recv) /\ AllOther(execute_q)
  BY <1>1, <1>3, AllOtherOfConcat DEF ReplyTypeOK
<1>5. AllOther(down) /\ AllOther(recv)
  BY <1>4, AllOtherOfConcat DEF ReplyTypeOK
<1>6. AllOther(executing \o execute_q)
  BY <1>3, <1>4, AllOtherOfConcat DEF ReplyTypeOK
<1>7. AllOther((executing \o execute_q) \o recv)
  BY <1>1, <1>5, <1>6, AllOtherOfConcat DEF ReplyTypeOK
<1> QED
  BY <1>2, <1>5, <1>7, AllOtherOfConcat DEF ReplyTypeOK, InOrder

\* The flag is what the replies under way do not change, so once none of them
\* answers a login it is the session: commands the io thread lets through by
\* it are those the server will take.  It holds because replies keep their
\* order through the socket, the queue and the executor.
THEOREM FlagFollowsSession == Spec => []GateAgrees
<1>1. FlagInv => GateAgrees
  <2> SUFFICES ASSUME FlagInv, ~clearing, AllOther(Underway)
               PROVE  logged_in = session
    BY DEF GateAgrees, AllOther
  <2>1. AllOther(InOrder)
    BY UnderwayAllOther DEF FlagInv
  <2>2. \A s : Verdict(s) # "other"
    BY DEF Verdict
  <2>3. logged_in = Settled
    BY <2>1, <2>2 DEF FlagInv, LeadsTo, AllOther
  <2> QED
    BY <2>3 DEF Settled, FlagInv, ReplyTypeOK
<1> QED
  BY FlagInit, FlagStep, <1>1, PTL DEF Spec

LEMMA StopInit == Init => StopInv /\ LeavingInv
  BY DEF Init, StopInv, LeavingInv

LEMMA StopInvariant == Spec => [](StopInv /\ LeavingInv)
  BY StopInit, StopStep, LeavingStep, PTL DEF Spec

\* When the io thread has ended at the end of stdin, everything the user
\* typed has been executed and everything that appended is with the kernel,
\* whenever the handshake was done and however little the kernel took.
THEOREM TypedIsSent == Spec => []CommandsArrive
<1>1. StopInv /\ LeavingInv => CommandsArrive
  BY DEF StopInv, LeavingInv, CommandsArrive
<1> QED
  BY <1>1, StopInvariant, PTL

\* run() joins both threads; the executor leaves only with an empty queue,
\* and by then the io thread hands nothing over.
THEOREM HandedOverIsShown == Spec => []RepliesShown
<1>1. StopInv /\ FlagInv => RepliesShown
  <2> SUFFICES ASSUME StopInv, FlagInv, main = "returned"
               PROVE  execute_q \o executing = <<>>
    BY DEF RepliesShown
  <2>1. exec = "done"
    BY DEF StopInv
  <2>2. execute_q = <<>> /\ executing = <<>>
    BY <2>1 DEF StopInv, FlagInv, InHand
  <2>3. <<>> \o <<>> = <<>>
    BY EmptySeq, ConcatEmptySeq
  <2> QED
    BY <2>2, <2>3
<1> QED
  BY <1>1, StopInvariant, FlagInit, FlagStep, PTL DEF Spec

=============================================================================
