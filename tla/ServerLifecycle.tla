-------------------------- MODULE ServerLifecycle ---------------------------
(***************************************************************************)
(* How the server ends: main() with its signal waiter (src/apps/           *)
(* server.cpp), epoll_server::run() with the acceptor and the loop thread  *)
(* (src/server/epoll_server.cpp, src/server/epoll_acceptor.cpp), and the   *)
(* destruction of the server with the database workers behind it           *)
(* (src/database/db_executor.cpp).                                         *)
(*                                                                         *)
(* The loop is here what EventLoop and EpollRegistry say in detail:        *)
(* sessions come and go through commands, a client's command becomes a     *)
(* task.  thread_pool, which no command reaches, stops as the database     *)
(* executor does and is left out.                                          *)
(***************************************************************************)
EXTENDS Integers, Sequences, FiniteSets

CONSTANTS
  Conns,        \* connections that are made
  Workers,      \* of the database executor
  Descriptors,  \* descriptors accept4() can get
  MaxTasks      \* bound on the tasks clients cause

ASSUME DescriptorsAssumption == Descriptors \in Nat /\ MaxTasks \in Nat
\* The constructor of db_executor starts one worker when it is asked for none.
ASSUME WorkersAssumption == IsFiniteSet(Workers) /\ Workers # {}

VARIABLES
  main, waiter, acceptor, loop,   \* where these threads are
  worker,           \* where each worker is
  stop_requested,   \* of run(), under state_mtx
  error_opt,        \* of run(): which thread failed first
  stop_source,      \* main()'s; request_stop() has been called
  registered,       \* on_external_stop exists
  asked,            \* jthreads whose request_stop() has been called
  wake,             \* wakeup descriptors that are readable
  signal,           \* SIGINT or SIGTERM is pending
  backlog,          \* connections the kernel holds for accept4()
  inbox,            \* the registry's command queue
  sessions,         \* connections in the session table
  left,             \* connections whose peer has closed
  run_db, tasks,    \* db_executor::run, how many ::tasks there are
  accepted_tasks,   \* history: tasks enqueued
  executed_tasks,   \* history: tasks executed
  members           \* of epoll_server, those that exist

threads == <<main, waiter, acceptor, loop>>
state == <<stop_requested, error_opt, stop_source, registered, asked, wake, signal>>
net == <<backlog, inbox, sessions, left>>
db == <<worker, run_db, tasks, accepted_tasks, executed_tasks>>
vars == <<threads, state, net, db, members>>

Init ==
  /\ main = "register" /\ waiter = "watch" /\ acceptor = "check" /\ loop = "check"
  /\ worker = [w \in Workers |-> "check"]
  /\ stop_requested = FALSE /\ error_opt = "none" /\ stop_source = FALSE
  /\ registered = FALSE /\ asked = {} /\ wake = {} /\ signal = FALSE
  /\ backlog = {} /\ inbox = {} /\ sessions = {} /\ left = {}
  /\ run_db = TRUE /\ tasks = 0 /\ accepted_tasks = 0 /\ executed_tasks = 0
  /\ members = <<"registry", "listener", "db_pool">>

\* Descriptors in use: sessions and those on their way to the table.
Commands(op) == {c \in Conns : [op |-> op, conn |-> c] \in inbox}
Free == Descriptors - Cardinality(sessions \cup Commands("register"))

-----------------------------------------------------------------------------
(* signal_stop(): the flag under the lock, then the notification.  main()  *)
(* sleeps on the condition variable with the lock released, so that the    *)
(* check and the sleep are one step.                                       *)

SetStop(error) ==
  /\ stop_requested' = TRUE
  /\ error_opt' = IF error_opt = "none" THEN error ELSE error_opt

NotifyMain == main' = IF main = "asleep" THEN "wait" ELSE main

-----------------------------------------------------------------------------
(* main() and run().                                                       *)

MainGoes(from, to) == main = from /\ main' = to

\* The constructor of on_external_stop calls signal_stop() itself when the
\* stop has been requested before.
RegisterCallback ==
  /\ MainGoes("register", "wait")
  /\ registered' = TRUE
  /\ IF stop_source THEN SetStop("none") ELSE UNCHANGED <<stop_requested, error_opt>>
  /\ UNCHANGED <<waiter, acceptor, loop, stop_source, asked, wake, signal, net, db, members>>

WaitForStop ==
  /\ main = "wait"
  /\ main' = IF stop_requested THEN "ask" ELSE "asleep"
  /\ UNCHANGED <<waiter, acceptor, loop, state, net, db, members>>

\* Fault: the acceptor is asked, not woken.
AskThreadsWakeLoop ==
  /\ MainGoes("ask", "join")
  /\ asked' = asked \cup {"loop", "acceptor"}
  /\ wake' = wake \cup {"loop"}
  /\ UNCHANGED <<waiter, acceptor, loop, stop_requested, error_opt, stop_source, registered,
                 signal, net, db, members>>

\* request_stop() of both threads, whose stop_callbacks wake them, and the
\* wakeups after it.
AskThreads ==
  /\ MainGoes("ask", "join")
  /\ asked' = asked \cup {"loop", "acceptor"}
  /\ wake' = wake \cup {"loop", "acceptor"}
  /\ UNCHANGED <<waiter, acceptor, loop, stop_requested, error_opt, stop_source, registered,
                 signal, net, db, members>>

JoinThreads ==
  /\ MainGoes("join", "unregister")
  /\ loop = "done" /\ acceptor = "done"
  /\ UNCHANGED <<waiter, acceptor, loop, state, net, db, members>>

\* Fault: the locals go first, while the callback may still be called.
UnregisterCallbackAtOnce ==
  /\ MainGoes("unregister", "returned")
  /\ registered' = FALSE
  /\ UNCHANGED <<waiter, acceptor, loop, stop_requested, error_opt, stop_source, asked, wake,
                 signal, net, db, members>>

\* run() returns.  The destructor of on_external_stop waits for the callback
\* if the signal waiter is in it; then the locals of run() go.
UnregisterCallback ==
  /\ MainGoes("unregister", "returned")
  /\ waiter \notin {"set", "notify"}
  /\ registered' = FALSE
  /\ UNCHANGED <<waiter, acceptor, loop, stop_requested, error_opt, stop_source, asked, wake,
                 signal, net, db, members>>

StopWaiter ==
  /\ MainGoes("returned", "join waiter")
  /\ asked' = asked \cup {"waiter"}
  /\ UNCHANGED <<waiter, acceptor, loop, stop_requested, error_opt, stop_source, registered, wake,
                 signal, net, db, members>>

JoinWaiter ==
  /\ MainGoes("join waiter", "destroy")
  /\ waiter = "done"
  /\ UNCHANGED <<waiter, acceptor, loop, state, net, db, members>>

LastMember(m) == members # <<>> /\ members[Len(members)] = m
MemberGone == members' = SubSeq(members, 1, Len(members) - 1)

\* ~epoll_server(): the members in reverse order of their declaration;
\* ~db_executor() is stop(): the flag under the lock, notify_all(), join.
StopDb ==
  /\ MainGoes("destroy", "notify workers")
  /\ LastMember("db_pool")
  /\ run_db' = FALSE
  /\ UNCHANGED <<waiter, acceptor, loop, state, net, worker, tasks, accepted_tasks,
                 executed_tasks, members>>

NotifyWorkers ==
  /\ MainGoes("notify workers", "join workers")
  /\ worker' = [w \in Workers |-> IF worker[w] = "asleep" THEN "check" ELSE worker[w]]
  /\ UNCHANGED <<waiter, acceptor, loop, state, net, run_db, tasks, accepted_tasks,
                 executed_tasks, members>>

JoinWorkers ==
  /\ MainGoes("join workers", "destroy")
  /\ \A w \in Workers : worker[w] = "done"
  /\ MemberGone
  /\ UNCHANGED <<waiter, acceptor, loop, state, net, db>>

DestroyMember ==
  /\ MainGoes("destroy", "destroy")
  /\ LastMember("listener") \/ LastMember("registry")
  /\ MemberGone
  /\ UNCHANGED <<waiter, acceptor, loop, state, net, db>>

Exit ==
  /\ MainGoes("destroy", "exited")
  /\ members = <<>>
  /\ UNCHANGED <<waiter, acceptor, loop, state, net, db, members>>

Main ==
  \/ RegisterCallback \/ WaitForStop \/ AskThreads \/ JoinThreads \/ UnregisterCallback
  \/ StopWaiter \/ JoinWaiter \/ StopDb \/ NotifyWorkers \/ JoinWorkers \/ DestroyMember \/ Exit

-----------------------------------------------------------------------------
(* The signal waiter: sigtimedwait() in a loop.  Both signals are blocked, *)
(* so that no other error than a timeout or an interruption can come.      *)

WaiterGoes(from, to) == waiter = from /\ waiter' = to

WaiterStops ==
  /\ WaiterGoes("watch", "done")
  /\ "waiter" \in asked
  /\ UNCHANGED <<main, acceptor, loop, state, net, db, members>>

\* request_stop() calls the stop_callback in this thread, if there is one.
TakeSignal ==
  /\ signal
  /\ WaiterGoes("watch", IF registered THEN "set" ELSE "done")
  /\ signal' = FALSE
  /\ stop_source' = TRUE
  /\ UNCHANGED <<main, acceptor, loop, stop_requested, error_opt, registered, asked, wake, net, db,
                 members>>

WaiterSets ==
  /\ WaiterGoes("set", "notify")
  /\ SetStop("none")
  /\ UNCHANGED <<main, acceptor, loop, stop_source, registered, asked, wake, signal, net, db,
                 members>>

WaiterNotifies ==
  /\ WaiterGoes("notify", "done")
  /\ NotifyMain
  /\ UNCHANGED <<acceptor, loop, state, net, db, members>>

Waiter == WaiterStops \/ TakeSignal \/ WaiterSets \/ WaiterNotifies

-----------------------------------------------------------------------------
(* The acceptor thread: epoll_acceptor::run() and handle_accept().         *)

AcceptorGoes(from, to) == acceptor = from /\ acceptor' = to

AcceptorChecks ==
  /\ acceptor = "check"
  /\ acceptor' = IF "acceptor" \in asked THEN "done" ELSE "poll"
  /\ UNCHANGED <<main, waiter, loop, state, net, db, members>>

AcceptorWakes ==
  /\ backlog # {} \/ "acceptor" \in wake
  /\ AcceptorGoes("poll", IF backlog # {} THEN "accept" ELSE "check")
  /\ wake' = wake \ {"acceptor"}
  /\ UNCHANGED <<main, waiter, loop, stop_requested, error_opt, stop_source, registered, asked,
                 signal, net, db, members>>

Accept(c) ==
  /\ acceptor = "accept"
  /\ c \in backlog
  /\ Free > 0
  /\ backlog' = backlog \ {c}
  /\ inbox' = inbox \cup {[op |-> "register", conn |-> c]}
  /\ wake' = wake \cup {"loop"}
  /\ UNCHANGED <<threads, stop_requested, error_opt, stop_source, registered, asked, signal,
                 sessions, left, db, members>>

\* Fault: a failure to accept is the end of the acceptor.
AcceptEndsAcceptor ==
  /\ backlog = {} \/ Free = 0
  /\ AcceptorGoes("accept", IF backlog = {} THEN "check" ELSE "done")
  /\ UNCHANGED <<main, waiter, loop, state, net, db, members>>

\* EAGAIN, or no descriptor: the connection stays where it is, and the
\* listener is reported again at once.
AcceptEnds ==
  /\ backlog = {} \/ Free = 0
  /\ AcceptorGoes("accept", "check")
  /\ UNCHANGED <<main, waiter, loop, state, net, db, members>>

\* epoll_wait() fails, or the listener has an error.
AcceptorFails ==
  /\ AcceptorGoes("poll", "set")
  /\ UNCHANGED <<main, waiter, loop, state, net, db, members>>

AcceptorSets ==
  /\ AcceptorGoes("set", "notify")
  /\ SetStop("acceptor")
  /\ UNCHANGED <<main, waiter, loop, stop_source, registered, asked, wake, signal, net, db, members>>

AcceptorNotifies ==
  /\ AcceptorGoes("notify", "done")
  /\ NotifyMain
  /\ UNCHANGED <<waiter, loop, state, net, db, members>>

Acceptor ==
  \/ AcceptorChecks \/ AcceptorWakes \/ (\E c \in Conns : Accept(c)) \/ AcceptEnds
  \/ AcceptorSets \/ AcceptorNotifies

-----------------------------------------------------------------------------
(* The loop thread.                                                        *)

LoopGoes(from, to) == loop = from /\ loop' = to

LoopChecks ==
  /\ loop = "check"
  /\ loop' = IF "loop" \in asked THEN "done" ELSE "poll"
  /\ UNCHANGED <<main, waiter, acceptor, state, net, db, members>>

\* Sessions whose peer has closed are reported until they are unregistered.
Closing == (sessions \cap left) \ Commands("unregister")

LoopWakes ==
  /\ "loop" \in wake \/ sessions \cap left # {}
  /\ LoopGoes("poll", "work")
  /\ UNCHANGED <<main, waiter, acceptor, state, net, db, members>>

\* A client has sent something.
LoopReads ==
  /\ sessions # {}
  /\ LoopGoes("poll", "work")
  /\ UNCHANGED <<main, waiter, acceptor, state, net, db, members>>

LoopWorks ==
  /\ LoopGoes("work", IF "loop" \in asked THEN "done" ELSE "dispatch")
  /\ sessions' = (sessions \cup Commands("register")) \ Commands("unregister")
  /\ inbox' = {}
  /\ wake' = wake \ {"loop"}
  /\ UNCHANGED <<main, waiter, acceptor, stop_requested, error_opt, stop_source, registered, asked,
                 signal, backlog, left, db, members>>

DispatchClose(c) ==
  /\ loop = "dispatch"
  /\ c \in Closing
  /\ inbox' = inbox \cup {[op |-> "unregister", conn |-> c]}
  /\ wake' = wake \cup {"loop"}
  /\ UNCHANGED <<threads, stop_requested, error_opt, stop_source, registered, asked, signal,
                 backlog, sessions, left, db, members>>

\* A command for the database: enqueue(), then notify_one().
DispatchCommand(c) ==
  /\ c \in sessions \ left
  /\ accepted_tasks < MaxTasks
  /\ LoopGoes("dispatch", "notify worker")
  /\ run_db
  /\ tasks' = tasks + 1
  /\ accepted_tasks' = accepted_tasks + 1
  /\ UNCHANGED <<main, waiter, acceptor, state, net, worker, run_db, executed_tasks, members>>

LoopNotifiesWorker ==
  /\ LoopGoes("notify worker", "dispatch")
  /\ LET asleep == {w \in Workers : worker[w] = "asleep"}
     IN  IF asleep = {} THEN worker' = worker
         ELSE \E w \in asleep : worker' = [worker EXCEPT ![w] = "check"]
  /\ UNCHANGED <<main, waiter, acceptor, state, net, run_db, tasks, accepted_tasks,
                 executed_tasks, members>>

DispatchEnds ==
  /\ Closing = {}
  /\ LoopGoes("dispatch", "check")
  /\ UNCHANGED <<main, waiter, acceptor, state, net, db, members>>

LoopFails ==
  /\ LoopGoes("poll", "set")
  /\ UNCHANGED <<main, waiter, acceptor, state, net, db, members>>

LoopSets ==
  /\ LoopGoes("set", "notify")
  /\ SetStop("loop")
  /\ UNCHANGED <<main, waiter, acceptor, stop_source, registered, asked, wake, signal, net, db,
                 members>>

LoopNotifies ==
  /\ LoopGoes("notify", "done")
  /\ NotifyMain
  /\ UNCHANGED <<waiter, acceptor, state, net, db, members>>

Loop ==
  \/ LoopChecks \/ LoopWakes \/ LoopWorks \/ (\E c \in Conns : DispatchClose(c))
  \/ LoopNotifiesWorker \/ DispatchEnds \/ LoopSets \/ LoopNotifies

-----------------------------------------------------------------------------
(* db_executor::worker_loop().                                             *)

\* Fault: a stopped worker leaves at once.
WorkerChecksRunOnly(w) ==
  /\ worker[w] = "check"
  /\ IF ~run_db
       THEN worker' = [worker EXCEPT ![w] = "done"] /\ tasks' = tasks
     ELSE IF tasks = 0
       THEN worker' = [worker EXCEPT ![w] = "asleep"] /\ tasks' = tasks
     ELSE worker' = [worker EXCEPT ![w] = "busy"] /\ tasks' = tasks - 1
  /\ UNCHANGED <<threads, state, net, run_db, accepted_tasks, executed_tasks, members>>

\* Under the lock: the predicate and the sleep, or the front of the queue.
WorkerChecks(w) ==
  /\ worker[w] = "check"
  /\ IF tasks > 0
       THEN worker' = [worker EXCEPT ![w] = "busy"] /\ tasks' = tasks - 1
     ELSE worker' = [worker EXCEPT ![w] = IF run_db THEN "asleep" ELSE "done"] /\ tasks' = tasks
  /\ UNCHANGED <<threads, state, net, run_db, accepted_tasks, executed_tasks, members>>

\* execute(): what it pushes wakes the loop, if that is there.
WorkerExecutes(w) ==
  /\ worker[w] = "busy"
  /\ worker' = [worker EXCEPT ![w] = "check"]
  /\ executed_tasks' = executed_tasks + 1
  /\ wake' = wake \cup {"loop"}
  /\ UNCHANGED <<threads, stop_requested, error_opt, stop_source, registered, asked, signal, net,
                 run_db, tasks, accepted_tasks, members>>

Worker(w) == WorkerChecks(w) \/ WorkerExecutes(w)

-----------------------------------------------------------------------------
(* The world.                                                              *)

SendSignal ==
  /\ ~signal /\ ~stop_source
  /\ main # "exited"
  /\ signal' = TRUE
  /\ UNCHANGED <<threads, stop_requested, error_opt, stop_source, registered, asked, wake, net, db,
                 members>>

\* One that comes when the acceptor is done stays with the kernel.
Connect(c) ==
  /\ acceptor # "done"
  /\ c \notin backlog \cup Commands("register") \cup sessions \cup left
  /\ backlog' = backlog \cup {c}
  /\ UNCHANGED <<threads, state, inbox, sessions, left, db, members>>

\* A peer that closes shows when its session is in the table.
Leave(c) ==
  /\ loop # "done"
  /\ c \in sessions \ left
  /\ left' = left \cup {c}
  /\ UNCHANGED <<threads, state, backlog, inbox, sessions, db, members>>

Next ==
  \/ Main \/ Waiter \/ Acceptor \/ Loop \/ (\E w \in Workers : Worker(w))
  \/ AcceptorFails \/ LoopFails \/ LoopReads \/ (\E c \in Conns : DispatchCommand(c))
  \/ SendSignal \/ \E c \in Conns : Connect(c) \/ Leave(c)

\* Every thread runs; nothing need fail, and no client need send or leave.
Spec ==
  /\ Init /\ [][Next]_vars
  /\ WF_vars(Main) /\ WF_vars(Waiter) /\ WF_vars(Acceptor) /\ WF_vars(Loop)
  /\ \A w \in Workers : WF_vars(Worker(w))

-----------------------------------------------------------------------------
(* Properties.                                                             *)

MemberSet == {members[i] : i \in DOMAIN members}
RunReturned == main \in {"returned", "join waiter", "destroy", "notify workers", "join workers", "exited"}

\* No thread uses what is gone: signal_stop() and the locals it captures live
\* until every thread that may call it is past it; the acceptor and the loop
\* have the listener and the registry; a worker that still executes what was
\* queued has the registry to push into (run(), the order of the members in
\* epoll_server.hpp).
ObjectsOutliveThreads ==
  /\ RunReturned => {waiter, acceptor, loop} \cap {"set", "notify"} = {}
  /\ acceptor # "done" => {"listener", "registry"} \subseteq MemberSet
  /\ loop # "done" => {"registry", "db_pool"} \subseteq MemberSet
  /\ \A w \in Workers :
       /\ worker[w] # "done" => "db_pool" \in MemberSet
       /\ worker[w] = "busy" => "registry" \in MemberSet

\* Every command that was accepted for the database has been executed when
\* the server has ended (~db_executor()).
AcceptedTasksAreExecuted == main = "exited" => executed_tasks = accepted_tasks

\* A signal or a failure of either thread ends the server, however it falls
\* into the start, the wait or the end of run(), and with clients that keep
\* it busy (test_server_graceful_shutdown.sh:171).
StopEndsServer == (signal \/ stop_requested) ~> main = "exited"

\* If descriptors become free again, a connection that waits is taken, unless
\* the server ends: accept4() failing does not lose it (handle_accept()).
ConnectionsAreTaken ==
  []<>(Free > 0) => \A c \in Conns : c \in backlog ~> (c \notin backlog \/ main = "exited")

=============================================================================
