----------------------------- MODULE ChatClient -----------------------------
(***************************************************************************)
(* The chat client: chat_client::run() and its two threads, the poll loop  *)
(* of chat_io_worker (src/client/chat_io_worker.cpp) between stdin and the *)
(* server, and the chat_executor (src/client/chat_executor.cpp) that shows *)
(* what the server says and keeps the logged_in flag.                      *)
(*                                                                         *)
(* A line the user types, a command and a reply are each one item here:    *)
(* Wire and TlsSession say what becomes of their bytes.  The server is     *)
(* what DbExecutor says of logins, no more.                                *)
(***************************************************************************)
EXTENDS Integers, Sequences, FiniteSets

CONSTANTS
  Lines,        \* what the user may type
  MaxLines,     \* bound on the lines typed, a last one that is not ended included
  UpCapacity    \* commands the kernel holds for the server

\* Commands that are let through without a login, and one that sends nothing.
Open == {"/login", "/register", "/help"}
Local == {"/help", "/select_room"}

ASSUME LinesAssumption ==
  Lines \subseteq {"/login", "/register", "/help", "/select_room", "/list_room", "text"}

VARIABLES
  main, io, exec,   \* where the threads are
  stop_requested,   \* of run(), under state_mtx
  error,            \* of run(): an error was signalled
  asked,            \* threads whose stop token says stop
  revents,          \* what poll() reported
  stdin, typed, eof_typed,  \* stdin, lines typed so far, it is at its end
  unended,          \* a last line without its end: "none", "typed", "read"
  stdin_buf, stdin_eof,     \* of the io worker
  handshake,        \* "start", "hello", "flight" (has come), "done"
  logged_in,        \* of chat_client, of both threads
  selected,         \* selected_room_id has a value
  send,             \* socket_info::send
  recv, closed,     \* socket_info::recv, recv_socket() has returned true
  execute_q, executing,     \* of the executor: its queue, the reply in hand
  up, down,         \* commands and replies on their way
  server_closed,
  session,          \* the server's session is logged in
  clearing          \* ... and will not be any more

threads == <<main, io, exec>>
running == <<stop_requested, error, asked>>
input == <<stdin, typed, eof_typed, unended>>
reading == <<stdin_buf, stdin_eof>>
choice == <<logged_in, selected>>
queue == <<execute_q, executing>>
server == <<up, down, server_closed, session, clearing>>
vars == <<threads, running, revents, input, reading, handshake, choice, send, recv, closed, queue, server>>

Init ==
  /\ main = "wait" /\ io = "start" /\ exec = "check"
  /\ stop_requested = FALSE /\ error = FALSE /\ asked = {}
  /\ revents = {}
  /\ stdin = <<>> /\ typed = 0 /\ eof_typed = FALSE /\ unended = "none"
  /\ stdin_buf = <<>> /\ stdin_eof = FALSE
  /\ handshake = "start"
  /\ logged_in = FALSE /\ selected = FALSE
  /\ send = <<>> /\ recv = <<>> /\ closed = FALSE
  /\ execute_q = <<>> /\ executing = <<>>
  /\ up = <<>> /\ down = <<>> /\ server_closed = FALSE
  /\ session = FALSE /\ clearing = FALSE

Prefix(s, n) == SubSeq(s, 1, n)
Rest(s, n) == SubSeq(s, n + 1, Len(s))

-----------------------------------------------------------------------------
(* chat_client::run().                                                     *)

SetStop(failed) ==
  /\ stop_requested' = TRUE
  /\ error' = (error \/ failed)

NotifyMain == main' = IF main = "asleep" THEN "wait" ELSE main

MainGoes(from, to) == main = from /\ main' = to

\* Under state_mtx: the check, and the sleep that releases it.
WaitForStop ==
  /\ main = "wait"
  /\ main' = IF stop_requested THEN "ask executor" ELSE "asleep"
  /\ UNCHANGED <<io, exec, running, revents, input, reading, handshake, choice, send, recv, closed,
                 queue, server>>

\* execute_thread.request_stop(): the flag ...
AskExecutor ==
  /\ MainGoes("ask executor", "notify executor")
  /\ asked' = asked \cup {"executor"}
  /\ UNCHANGED <<io, exec, stop_requested, error, revents, input, reading, handshake, choice, send,
                 recv, closed, queue, server>>

\* ... and then the stop_callback: notify_all(), without the mutex.
NotifyExecutor ==
  /\ MainGoes("notify executor", "ask io")
  /\ exec' = IF exec = "asleep" THEN "check" ELSE exec
  /\ UNCHANGED <<io, running, revents, input, reading, handshake, choice, send, recv, closed, queue,
                 server>>

IoReturned == {"leaving", "failing", "notify", "done"}

\* io_thread.request_stop(); its stop_callback, which lives as long as
\* chat_io_worker::run(), shuts the socket down.
AskIo ==
  /\ MainGoes("ask io", "join executor")
  /\ asked' = asked \cup {"io"}
  /\ server_closed' = (server_closed \/ io \notin IoReturned)
  /\ UNCHANGED <<io, exec, stop_requested, error, revents, input, reading, handshake, choice, send,
                 recv, closed, queue, up, down, session, clearing>>

JoinExecutor ==
  /\ MainGoes("join executor", "join io")
  /\ exec = "done"
  /\ UNCHANGED <<io, exec, running, revents, input, reading, handshake, choice, send, recv, closed,
                 queue, server>>

JoinIo ==
  /\ MainGoes("join io", "returned")
  /\ io = "done"
  /\ UNCHANGED <<io, exec, running, revents, input, reading, handshake, choice, send, recv, closed,
                 queue, server>>

Main == WaitForStop \/ AskExecutor \/ NotifyExecutor \/ AskIo \/ JoinExecutor \/ JoinIo

-----------------------------------------------------------------------------
(* chat_executor::run().                                                   *)

Stopping == "executor" \in asked

\* Fault: a stop ends it, whatever is queued.
ExecutorChecksStop ==
  /\ exec = "check"
  /\ IF Stopping
       THEN exec' = "leaving" /\ UNCHANGED <<executing, execute_q>>
     ELSE IF execute_q # <<>>
       THEN exec' = "execute" /\ executing' = <<Head(execute_q)>> /\ execute_q' = Tail(execute_q)
     ELSE exec' = "falling asleep" /\ UNCHANGED <<executing, execute_q>>
  /\ UNCHANGED <<main, io, running, revents, input, reading, handshake, choice, send, recv, closed,
                 server>>

\* Under the mutex: the predicate of cv.wait(), and what follows when it holds.
ExecutorChecks ==
  /\ exec = "check"
  /\ IF execute_q # <<>>
       THEN exec' = "execute" /\ executing' = <<Head(execute_q)>> /\ execute_q' = Tail(execute_q)
       ELSE /\ exec' = IF Stopping THEN "leaving" ELSE "falling asleep"
            /\ UNCHANGED <<executing, execute_q>>
  /\ UNCHANGED <<main, io, running, revents, input, reading, handshake, choice, send, recv, closed,
                 server>>

\* cv.wait() lets go of the mutex and sleeps: a notification from before is
\* not seen.
ExecutorSleeps ==
  /\ exec = "falling asleep"
  /\ exec' = "asleep"
  /\ UNCHANGED <<main, io, running, revents, input, reading, handshake, choice, send, recv, closed,
                 queue, server>>

\* execute()
ExecutorExecutes ==
  /\ exec = "execute"
  /\ exec' = "check"
  /\ executing' = <<>>
  /\ logged_in' = CASE Head(executing) = "login success" -> TRUE
                    [] Head(executing) = "login failed" -> FALSE
                    [] OTHER -> logged_in
  /\ UNCHANGED <<main, io, running, revents, input, reading, handshake, selected, send, recv, closed,
                 execute_q, server>>

ExecutorSignals ==
  /\ \/ exec = "leaving" /\ exec' = "notify" /\ SetStop(FALSE) /\ main' = main
     \/ exec = "notify" /\ exec' = "done" /\ NotifyMain /\ UNCHANGED <<stop_requested, error>>
  /\ UNCHANGED <<io, asked, revents, input, reading, handshake, choice, send, recv, closed, queue,
                 server>>

Executor == ExecutorChecks \/ ExecutorSleeps \/ ExecutorExecutes \/ ExecutorSignals

-----------------------------------------------------------------------------
(* chat_io_worker::run().                                                  *)

IoGoes(from, to) == io = from /\ io' = to

Secure == handshake = "done"

\* progress_tls_handshake() before the loop: the hello goes out.
StartHandshake ==
  /\ IoGoes("start", "check")
  /\ handshake' = "hello"
  /\ UNCHANGED <<main, exec, running, revents, input, reading, choice, send, recv, closed, queue,
                 server>>

IoChecks ==
  /\ io = "check"
  /\ io' = IF "io" \in asked THEN "leaving" ELSE "poll"
  /\ UNCHANGED <<main, exec, running, revents, input, reading, handshake, choice, send, recv, closed,
                 queue, server>>

\* Fault: EPOLLOUT is not asked for.
WantsOutNever == FALSE

\* What socket_events() asks for besides POLLIN.
WantsOut == Secure /\ send # <<>>

Ready ==
  (IF ~stdin_eof /\ (stdin # <<>> \/ eof_typed) THEN {"STDIN"} ELSE {})
    \cup (IF handshake = "flight" \/ down # <<>> \/ server_closed THEN {"IN"} ELSE {})
    \cup (IF WantsOut /\ (Len(up) < UpCapacity \/ server_closed) THEN {"OUT"} ELSE {})

Poll ==
  /\ Ready # {}
  /\ IoGoes("poll", IF "STDIN" \in Ready THEN "stdin" ELSE "handshake")
  /\ revents' = Ready
  /\ UNCHANGED <<main, exec, running, input, reading, handshake, choice, send, recv, closed, queue,
                 server>>

\* The first progress_tls_handshake(), poll() or read() fails, for whatever
\* reason.
CallFails == io \in {"start", "poll", "stdin"}

\* The connection is reset: POLLERR, or a call on the socket fails.
ConnectionFails ==
  /\ server_closed
  /\ io \in {"handshake", "flush", "recv"} \/ (io = "typed" /\ Secure /\ send # <<>>)

IoFails ==
  /\ CallFails \/ ConnectionFails
  /\ io' = "failing"
  /\ UNCHANGED <<main, exec, running, revents, input, reading, handshake, choice, send, recv, closed,
                 queue, server>>

\* A signal interrupts poll() while nothing is ready: the loop goes on.
\* (read() of what poll() reported does not wait, so it is not interrupted.)
PollInterrupted ==
  /\ Ready = {}
  /\ IoGoes("poll", "check")
  /\ UNCHANGED <<main, exec, running, revents, input, reading, handshake, choice, send, recv, closed,
                 queue, server>>

\* read() of send_stdin(): what waits, or the end.  What follows the last end
\* of line stays in stdin_buf, and with the end of stdin it is dropped.
ReadStdin ==
  LET nothing == stdin = <<>> /\ unended # "typed" IN
  /\ IoGoes("stdin", IF nothing THEN "handshake" ELSE "line")
  /\ stdin_buf' = stdin_buf \o stdin
  /\ stdin' = <<>>
  /\ unended' = IF unended = "typed" THEN "read" ELSE unended
  /\ stdin_eof' = nothing
  /\ UNCHANGED <<main, exec, running, revents, typed, eof_typed, handshake, choice, send, recv,
                 closed, queue, server>>

\* login(), signup(), ... append one command; a text needs a room.
Appends(line) == IF line \in Local \/ (line = "text" /\ ~selected) THEN <<>> ELSE <<line>>

\* execute(): what needs a login the flag does not show is refused.
ExecuteLine ==
  /\ stdin_buf # <<>>
  /\ IoGoes("line", "typed")
  /\ stdin_buf' = Tail(stdin_buf)
  /\ LET line == Head(stdin_buf)
         passes == logged_in \/ line \in Open
     IN  /\ send' = IF passes THEN send \o Appends(line) ELSE send
         /\ selected' = (selected \/ (passes /\ line = "/select_room"))
  /\ UNCHANGED <<main, exec, running, revents, input, stdin_eof, handshake, logged_in, recv, closed,
                 queue, server>>

StdinDone ==
  /\ stdin_buf = <<>>
  /\ IoGoes("line", "handshake")
  /\ UNCHANGED <<main, exec, running, revents, input, reading, handshake, choice, send, recv, closed,
                 queue, server>>

\* flush_send(): as many commands as the kernel takes.
FlushSend ==
  LET room == UpCapacity - Len(up)
      n == IF room < Len(send) THEN room ELSE Len(send)
  IN  up' = up \o Prefix(send, n) /\ send' = Rest(send, n)

\* ... after each line of stdin: not before the handshake is done.
FlushTyped ==
  /\ IoGoes("typed", "line")
  /\ IF Secure THEN FlushSend ELSE UNCHANGED <<up, send>>
  /\ UNCHANGED <<main, exec, running, revents, input, reading, handshake, choice, recv, closed, queue,
                 down, server_closed, session, clearing>>

\* progress_tls_handshake() with verify_peer(): done, or not yet, or refused,
\* or the server is gone.
ProgressHandshake ==
  /\ io = "handshake"
  /\ IF revents \cap {"IN", "OUT"} = {} \/ Secure
       THEN io' = "flush" /\ UNCHANGED handshake
     ELSE IF handshake = "flight"
       THEN \/ io' = "flush" /\ handshake' = "done"
            \/ io' = "failing" /\ UNCHANGED handshake
     ELSE /\ io' = IF server_closed THEN "failing" ELSE "flush"
          /\ UNCHANGED handshake
  /\ UNCHANGED <<main, exec, running, revents, input, reading, choice, send, recv, closed, queue,
                 server>>

FlushPending ==
  /\ IoGoes("flush", "recv")
  /\ IF Secure /\ "OUT" \in revents THEN FlushSend ELSE UNCHANGED <<up, send>>
  /\ UNCHANGED <<main, exec, running, revents, input, reading, handshake, choice, recv, closed, queue,
                 down, server_closed, session, clearing>>

\* recv_socket(): what has come, and then the server's close.
RecvSocket ==
  /\ io = "recv"
  /\ IF Secure /\ "IN" \in revents
       THEN io' = "reply" /\ recv' = recv \o down /\ down' = <<>> /\ closed' = server_closed
       ELSE io' = "round" /\ UNCHANGED <<recv, down, closed>>
  /\ UNCHANGED <<main, exec, running, revents, input, reading, handshake, choice, send, queue, up,
                 server_closed, session, clearing>>

\* Fault: the newest reply is the first to be executed.
RequestExecuteFirst ==
  /\ io = "reply" /\ recv # <<>>
  /\ exec # "falling asleep"
  /\ execute_q' = <<Head(recv)>> \o execute_q
  /\ recv' = Tail(recv)
  /\ exec' = IF exec = "asleep" THEN "check" ELSE exec
  /\ UNCHANGED <<main, io, running, revents, input, reading, handshake, choice, send, closed,
                 executing, server>>

\* request_execute(): under the mutex, which an executor on its way into
\* cv.wait() holds; then notify_one().
RequestExecute ==
  /\ io = "reply" /\ recv # <<>>
  /\ exec # "falling asleep"
  /\ execute_q' = Append(execute_q, Head(recv))
  /\ recv' = Tail(recv)
  /\ exec' = IF exec = "asleep" THEN "check" ELSE exec
  /\ UNCHANGED <<main, io, running, revents, input, reading, handshake, choice, send, closed,
                 executing, server>>

RepliesDone ==
  /\ recv = <<>>
  /\ IoGoes("reply", IF closed THEN "leaving" ELSE "round")
  /\ UNCHANGED <<main, exec, running, revents, input, reading, handshake, choice, send, recv, closed,
                 queue, server>>

\* Fault: the end of stdin is the end, whatever is still to be sent.
EndRoundAtEof ==
  /\ IoGoes("round", IF stdin_eof THEN "leaving" ELSE "check")
  /\ revents' = {}
  /\ UNCHANGED <<main, exec, running, input, reading, handshake, choice, send, recv, closed,
                 queue, server>>

\* The end of a round, with its last test.
EndRound ==
  /\ IoGoes("round", IF stdin_eof /\ Secure /\ send = <<>> THEN "leaving" ELSE "check")
  /\ revents' = {}
  /\ UNCHANGED <<main, exec, running, input, reading, handshake, choice, send, recv, closed,
                 queue, server>>

\* signal_stop(), with the error or without.
IoSignals ==
  /\ \/ io = "leaving" /\ io' = "notify" /\ SetStop(FALSE) /\ main' = main
     \/ io = "failing" /\ io' = "notify" /\ SetStop(TRUE) /\ main' = main
     \/ io = "notify" /\ io' = "done" /\ NotifyMain /\ UNCHANGED <<stop_requested, error>>
  /\ UNCHANGED <<exec, asked, revents, input, reading, handshake, choice, send, recv, closed, queue,
                 server>>

Io ==
  \/ StartHandshake \/ IoChecks \/ Poll \/ ReadStdin
  \/ ExecuteLine \/ StdinDone \/ FlushTyped \/ ProgressHandshake \/ FlushPending
  \/ RecvSocket \/ RequestExecute \/ RepliesDone \/ EndRound \/ IoSignals

-----------------------------------------------------------------------------
(* The user and the server, as long as the io thread can see what they do. *)

Type(line) ==
  /\ ~eof_typed /\ typed < MaxLines
  /\ io \notin IoReturned
  /\ stdin' = Append(stdin, line)
  /\ typed' = typed + 1
  /\ UNCHANGED <<threads, running, revents, eof_typed, unended, reading, handshake, choice, send, recv, closed,
                 queue, server>>

\* ... maybe in the middle of a line.
CloseStdin ==
  /\ ~eof_typed
  /\ io \notin IoReturned
  /\ eof_typed' = TRUE
  /\ \/ UNCHANGED <<typed, unended>>
     \/ typed < MaxLines /\ typed' = typed + 1 /\ unended' = "typed"
  /\ UNCHANGED <<threads, running, revents, stdin, reading, handshake, choice, send, recv,
                 closed, queue, server>>

ServerFlight ==
  /\ ~server_closed /\ handshake = "hello"
  /\ handshake' = "flight"
  /\ UNCHANGED <<threads, running, revents, input, reading, choice, send, recv, closed, queue, server>>

\* A command and its reply.  A login that fails for an error of the database
\* is answered before the session is cleared (DbExecutor).
ServerTakes ==
  /\ ~server_closed /\ ~clearing /\ up # <<>>
  /\ up' = Tail(up)
  /\ IF Head(up) # "/login"
       THEN down' = Append(down, "other") /\ UNCHANGED <<session, clearing>>
       ELSE \/ session' = TRUE /\ down' = Append(down, "login success") /\ UNCHANGED clearing
            \/ session' = FALSE /\ down' = Append(down, "login failed") /\ UNCHANGED clearing
            \/ clearing' = TRUE /\ down' = Append(down, "login failed") /\ UNCHANGED session
  /\ UNCHANGED <<threads, running, revents, input, reading, handshake, choice, send, recv, closed,
                 queue, server_closed>>

ServerClears ==
  /\ clearing
  /\ clearing' = FALSE /\ session' = FALSE
  /\ UNCHANGED <<threads, running, revents, input, reading, handshake, choice, send, recv, closed,
                 queue, up, down, server_closed>>

ServerCloses ==
  /\ ~server_closed
  /\ io \notin IoReturned
  /\ server_closed' = TRUE
  /\ UNCHANGED <<threads, running, revents, input, reading, handshake, choice, send, recv, closed,
                 queue, up, down, session, clearing>>

Server == ServerFlight \/ ServerTakes \/ ServerClears

Next ==
  \/ Main \/ Executor \/ Io \/ IoFails \/ PollInterrupted
  \/ (\E line \in Lines : Type(line)) \/ CloseStdin \/ Server \/ ServerCloses

\* The threads run, and the server serves as long as it is there.  Nobody
\* need type, and nothing need fail or close.
Spec ==
  /\ Init /\ [][Next]_vars
  /\ WF_vars(Main) /\ WF_vars(Executor) /\ WF_vars(Io) /\ WF_vars(Server)

-----------------------------------------------------------------------------
(* Properties.                                                             *)

\* Replies on their way to the flag.
Underway == down \o recv \o execute_q \o executing

\* The flag the io thread lets commands through by says what the server's
\* session says, once no reply to a login is on its way between them, through
\* the socket, the queue and the other thread (execute() of chat_io_worker and
\* of chat_executor): the client neither refuses for good what the server
\* would take nor lets through for good what it will refuse.
GateAgrees ==
  (~server_closed /\ io \notin IoReturned /\ ~clearing
     /\ \A i \in DOMAIN Underway : Underway[i] = "other")
  => logged_in = session

\* A client that ends at the end of its stdin, and not because of an error or
\* of the server, has executed every line and sent every command, the ones
\* typed before the handshake was done or while the kernel took no more
\* included (chat_io_worker::run()).  It has read the rest of a last line that
\* was not ended, too, and dropped it.
CommandsArrive ==
  (io = "done" /\ ~error /\ ~closed)
  => stdin = <<>> /\ unended # "typed" /\ stdin_buf = <<>> /\ send = <<>>

\* Every reply the io thread has handed over has been shown when run()
\* returns: the executor drains its queue when it is stopped, and the io
\* thread has stopped filling it by then (chat_executor::run()).
RepliesShown == main = "returned" => execute_q \o executing = <<>>

\* The end of stdin ends the io thread, whatever it comes upon: a handshake
\* not done, commands not sent (socket_events(), chat_io_worker::run()).
EofEndsIo == eof_typed ~> io = "done"

\* A client whose io thread has ended, so one that was told to close, exits
\* (test_tls_concurrent_longrun.sh:645).
ClientEnds == io = "done" ~> main = "returned"

=============================================================================
