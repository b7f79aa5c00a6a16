----------------------------- MODULE EventLoop ------------------------------
(***************************************************************************)
(* event_loop::run() (src/reactor/event_loop.cpp) around the registry: the *)
(* loop thread waits in epoll_wait(), runs work() and hands the events it  *)
(* got to the handlers of epoll_server.  Other threads wake it through the *)
(* eventfd of epoll_wakeup, after their push and outside the lock.         *)
(*                                                                         *)
(* EpollRegistry lets the loop thread do these things in any order; here   *)
(* they happen in the order of the code, and the steps of work() that      *)
(* other threads can fall between are separate.                            *)
(***************************************************************************)
EXTENDS EpollRegistry, FiniteSets

CONSTANT MaxConns   \* bound on the connections a descriptor number serves

VARIABLES
  pc,               \* where the loop thread is
  batch,            \* events epoll_wait() returned, not yet dispatched
  current,          \* the session whose event is handled, and which handler
                    \* is next
  wake,             \* the eventfd is readable
  signalling,       \* threads that have pushed (or asked to stop) and whose
                    \* request_wakeup() is to come
  stop_requested,   \* the stop_token
  conn              \* history: connections accepted on each descriptor number

loopVars == <<pc, batch, current, wake, signalling, stop_requested, conn>>
allVars == <<vars, loopVars>>

Idle == [next |-> "none"]
Before(handler, fd) == [next |-> handler, fd |-> fd]

LoopInit ==
  /\ Init
  /\ pc = "check"
  /\ batch = {}
  /\ current = Idle
  /\ wake = FALSE
  /\ signalling = {}
  /\ stop_requested = FALSE
  /\ conn = [fd \in Fds |-> 0]

At(place) == pc = place
Go(place) == pc' = place

-----------------------------------------------------------------------------
(* Other threads.                                                          *)

\* Room is left in the bounded queue for what the loop itself pushes.
MayPush == Len(Backlog) + Cardinality(Fds) < MaxQueue

\* One acceptor, one database worker, one thread that asks to stop: each
\* signals before it goes on.
Threads == {"acceptor", "worker", "stopper"}

WillSignal(thread) ==
  /\ thread \notin signalling
  /\ signalling' = signalling \cup {thread}

\* request_register() and the other request_*(): the push; Signal follows.
AcceptConnection(fd) ==
  /\ MayPush
  /\ conn[fd] < MaxConns
  /\ Accept(fd)
  /\ conn' = [conn EXCEPT ![fd] = @ + 1]
  /\ WillSignal("acceptor")
  /\ UNCHANGED <<pc, batch, current, wake, stop_requested>>

WorkerPushes(cmd) ==
  /\ MayPush
  /\ Request(cmd)
  /\ WillSignal("worker")
  /\ UNCHANGED <<pc, batch, current, wake, stop_requested, conn>>

\* request_wakeup(): write(2) to the eventfd; a counter at its limit is
\* readable as well.
Signal(thread) ==
  /\ thread \in signalling
  /\ signalling' = signalling \ {thread}
  /\ wake' = TRUE
  /\ UNCHANGED <<vars, pc, batch, current, stop_requested, conn>>

\* Fault: no stop_callback.
RequestStopSilently ==
  /\ ~stop_requested
  /\ stop_requested' = TRUE
  /\ UNCHANGED <<vars, pc, batch, current, wake, signalling, conn>>

\* request_stop(): the flag, then the stop_callback's request_wakeup().
RequestStop ==
  /\ ~stop_requested
  /\ stop_requested' = TRUE
  /\ WillSignal("stopper")
  /\ UNCHANGED <<vars, pc, batch, current, wake, conn>>

-----------------------------------------------------------------------------
(* The loop thread.                                                        *)

\* while(!stop_token.stop_requested())
Check ==
  /\ At("check")
  /\ Go(IF stop_requested THEN "done" ELSE "wait")
  /\ UNCHANGED <<vars, batch, current, wake, signalling, stop_requested, conn>>

\* epoll_wait() returns with any of the connections that are registered.
Return(fds) ==
  /\ At("wait")
  /\ batch' = {[fd |-> fd, conn |-> conn[fd]] : fd \in fds}
  /\ Go("consume")
  /\ UNCHANGED <<vars, current, wake, signalling, stop_requested, conn>>

Woken == wake /\ \E fds \in SUBSET DOMAIN infos : Return(fds)

\* A peer has sent or closed, or its socket can be written again.
SocketReady == \E fds \in SUBSET DOMAIN infos : fds # {} /\ Return(fds)

\* consume_wakeup()
Consume ==
  /\ At("consume")
  /\ wake' = FALSE
  /\ Go("swap")
  /\ UNCHANGED <<vars, batch, current, signalling, stop_requested, conn>>

\* The lock and the swap in work().
Swap ==
  /\ At("swap")
  /\ \/ Work
     \/ cmd_q = <<>> /\ UNCHANGED vars
  /\ Go("handle")
  /\ UNCHANGED <<batch, current, wake, signalling, stop_requested, conn>>

Handle ==
  /\ At("handle")
  /\ HandleCommand
  /\ UNCHANGED loopVars

\* Fault: work() goes on until the queue is empty.
EndOfWorkDraining ==
  /\ At("handle")
  /\ pending_cmd = <<>>
  /\ Go(IF cmd_q # <<>> THEN "swap"
        ELSE IF stop_requested THEN "done" ELSE "dispatch")
  /\ UNCHANGED <<vars, batch, current, wake, signalling, stop_requested, conn>>

\* Fault: the wakeup is consumed when the commands have been handled.
EndOfWorkConsumes ==
  /\ At("handle")
  /\ pending_cmd = <<>>
  /\ wake' = FALSE
  /\ Go(IF stop_requested THEN "done" ELSE "dispatch")
  /\ UNCHANGED <<vars, batch, current, signalling, stop_requested, conn>>

\* if(stop_token.stop_requested()) break
EndOfWork ==
  /\ At("handle")
  /\ pending_cmd = <<>>
  /\ Go(IF stop_requested THEN "done" ELSE "dispatch")
  /\ UNCHANGED <<vars, batch, current, wake, signalling, stop_requested, conn>>

\* An event is taken up.  Nothing is done for a descriptor that work() has
\* closed; an error, the peer's close or a failing handle_recv() disconnects
\* the session and is the end of the event.
Receive(event) ==
  /\ At("dispatch") /\ current = Idle
  /\ event \in batch
  /\ batch' = batch \ {event}
  /\ \/ /\ event.fd \notin DOMAIN infos
        /\ current' = Idle
        /\ UNCHANGED <<vars, wake>>
     \/ /\ Disconnect(event.fd) /\ wake' = TRUE
        /\ current' = Idle
     \/ /\ event.fd \in DOMAIN infos
        /\ current' = Before("send", event.fd)
        /\ UNCHANGED <<vars, wake>>
  /\ UNCHANGED <<pc, signalling, stop_requested, conn>>

\* handle_send(), when the event asks for it.  The lines received are executed
\* even if it disconnects the session.
Send ==
  /\ At("dispatch") /\ current.next = "send"
  /\ current' = Before("execute", current.fd)
  /\ \/ UNCHANGED <<vars, wake>>
     \/ FlushSend(current.fd) /\ UNCHANGED wake
     \/ Disconnect(current.fd) /\ wake' = TRUE
  /\ UNCHANGED <<pc, batch, signalling, stop_requested, conn>>

\* Fault: the loop does not wake itself for what it pushes.
RespondSilently ==
  /\ At("dispatch") /\ current.next = "execute"
  /\ MayPush
  /\ \E text \in Texts : Request([op |-> "send_one", fd |-> current.fd, text |-> text])
  /\ UNCHANGED <<pc, batch, current, wake, signalling, stop_requested, conn>>

\* handle_execute(): a client's "response" is pushed back to him by the loop
\* thread itself, which wakes itself.  (Database commands become tasks of
\* db_executor, which show here only when its worker pushes.)
Respond ==
  /\ At("dispatch") /\ current.next = "execute"
  /\ MayPush
  /\ \E text \in Texts : Request([op |-> "send_one", fd |-> current.fd, text |-> text])
  /\ wake' = TRUE
  /\ UNCHANGED <<pc, batch, current, signalling, stop_requested, conn>>

\* No line is left.
EndOfEvent ==
  /\ At("dispatch") /\ current.next = "execute"
  /\ current' = Idle
  /\ UNCHANGED <<vars, pc, batch, wake, signalling, stop_requested, conn>>

Dispatch == (\E event \in batch : Receive(event)) \/ Send \/ Respond \/ EndOfEvent

EndOfBatch ==
  /\ At("dispatch") /\ current = Idle
  /\ batch = {}
  /\ Go("check")
  /\ UNCHANGED <<vars, batch, current, wake, signalling, stop_requested, conn>>

Iterate ==
  \/ Check \/ Woken \/ Consume \/ Swap \/ Handle \/ EndOfWork
  \/ Dispatch \/ EndOfBatch

LoopNext ==
  \/ \E fd \in Fds : AcceptConnection(fd)
  \/ \E cmd \in Requests : WorkerPushes(cmd)
  \/ \E thread \in Threads : Signal(thread)
  \/ RequestStop
  \/ Iterate
  \/ SocketReady

\* A thread that has pushed goes on to wake the loop, and the loop thread
\* runs; peers need not do anything.
LoopSpec ==
  /\ LoopInit /\ [][LoopNext]_allVars
  /\ \A thread \in Threads : WF_allVars(Signal(thread))
  /\ WF_allVars(Iterate)

-----------------------------------------------------------------------------
(* Properties.                                                             *)

\* The loop never goes to sleep on a queue that holds commands, unless
\* somebody is still about to wake it: consume_wakeup() comes before the
\* swap.
NoLostWakeup ==
  At("wait") /\ cmd_q # <<>> => wake \/ signalling # {}

\* An event is dispatched to the connection it was reported for, and that has
\* not been disconnected by an earlier event.  work() closes descriptors
\* between epoll_wait() and the dispatch, and the kernel hands the numbers
\* out again; but the new connection's register command comes too late for
\* the queue that was swapped out before.
EventsFindTheirConnection ==
  At("dispatch") =>
    \A event \in batch : event.fd \in DOMAIN infos =>
      event.conn = conn[event.fd] /\ ~infos[event.fd].is_closed

\* Every command is handled, unless the loop ends: unregister commands of
\* closed sessions too, so none stays in the table.
CommandsAreHandled == cmd_q # <<>> ~> cmd_q = <<>> \/ At("done")

\* A stop request ends the loop however it falls between the check of the
\* flag and epoll_wait(), and with others pushing all the time.
StopEndsLoop == stop_requested ~> At("done")

=============================================================================
