----------------------- MODULE ServerLifecycleProofs ------------------------
(***************************************************************************)
(* What holds of the end of the server for every number of connections,    *)
(* workers and tasks: no thread outlives what it uses, and what was        *)
(* accepted for the database is executed.                                  *)
(***************************************************************************)
EXTENDS ServerLifecycle, FiniteSetTheorems, SequenceTheorems, TLAPS

AllMembers == <<"registry", "listener", "db_pool">>

\* What is left of the members at each step of ~epoll_server().
MemberStages ==
  {AllMembers, <<"registry", "listener">>, <<"registry">>, <<>>}

Joined == main = "unregister" \/ RunReturned

\* run() returns when both threads are done and the callback is gone; the
\* callback runs only while on_external_stop exists.
ThreadsInv ==
  /\ Joined => acceptor = "done" /\ loop = "done"
  /\ RunReturned => ~registered
  /\ waiter \in {"set", "notify"} => registered
  /\ main \in {"destroy", "notify workers", "join workers", "exited"} => waiter = "done"

\* The members go one by one in "destroy"; the first of them, db_pool, goes
\* when its workers are done.
MembersInv ==
  /\ members \in MemberStages
  /\ main # "exited" /\ main # "destroy" => members = AllMembers
  /\ main = "exited" => members = <<>>
  /\ members # AllMembers => \A w \in Workers : worker[w] = "done"

Busy == {w \in Workers : worker[w] = "busy"}

\* A task is executed, in the hands of a worker or in the queue; a worker
\* leaves only when the queue is empty and nothing more is taken.
TasksInv ==
  /\ worker \in [Workers -> {"check", "asleep", "busy", "done"}]
  /\ tasks \in Nat /\ executed_tasks \in Nat
  /\ accepted_tasks = executed_tasks + tasks + Cardinality(Busy)
  /\ \A w \in Workers : worker[w] = "done" => ~run_db /\ tasks = 0

EndInv == ThreadsInv /\ MembersInv /\ TasksInv

-----------------------------------------------------------------------------
(* Sequences and sets.                                                     *)

LEMMA StagesDiffer ==
  /\ AllMembers # <<"registry", "listener">> /\ AllMembers # <<"registry">>
  /\ AllMembers # <<>> /\ <<"registry", "listener">> # <<"registry">>
  /\ <<"registry", "listener">> # <<>> /\ <<"registry">> # <<>>
<1>1. /\ Len(AllMembers) = 3 /\ Len(<<"registry", "listener">>) = 2
      /\ Len(<<"registry">>) = 1 /\ Len(<<>>) = 0
  BY DEF AllMembers
<1> QED
  BY <1>1, SMTT(30)

LEMMA FrontOfPair ==
  ASSUME NEW a, NEW b
  PROVE  SubSeq(<<a, b>>, 1, 1) = <<a>>
<1> DEFINE s == SubSeq(<<a, b>>, 1, 1)
<1>1. \A i \in 1..1 : <<a, b>>[i] \in {a, b}
  OBVIOUS
<1>2. s \in Seq({a, b}) /\ Len(s) = 1 /\ \A i \in 1..1 : s[i] = <<a, b>>[i]
  BY <1>1, SubSeqProperties
<1>3. <<a>> \in Seq({a, b}) /\ Len(<<a>>) = 1
  OBVIOUS
<1>4. \A i \in 1..Len(s) : s[i] = <<a>>[i]
  BY <1>2
<1> HIDE DEF s
<1>5. s = <<a>>
  BY <1>2, <1>3, <1>4, SeqEqual, Zenon
<1> QED
  BY <1>5 DEF s

LEMMA FrontOfTriple ==
  ASSUME NEW a, NEW b, NEW c
  PROVE  SubSeq(<<a, b, c>>, 1, 2) = <<a, b>>
<1> DEFINE s == SubSeq(<<a, b, c>>, 1, 2)
<1>1. \A i \in 1..2 : <<a, b, c>>[i] \in {a, b, c}
  OBVIOUS
<1>2. s \in Seq({a, b, c}) /\ Len(s) = 2 /\ \A i \in 1..2 : s[i] = <<a, b, c>>[i]
  BY <1>1, SubSeqProperties
<1>3. <<a, b>> \in Seq({a, b, c}) /\ Len(<<a, b>>) = 2
  OBVIOUS
<1>4. \A i \in 1..Len(s) : s[i] = <<a, b>>[i]
  BY <1>2
<1> HIDE DEF s
<1>5. s = <<a, b>>
  BY <1>2, <1>3, <1>4, SeqEqual, Zenon
<1> QED
  BY <1>5 DEF s

LEMMA LastMemberGoes ==
  ASSUME members \in MemberStages, members # <<>>, MemberGone
  PROVE  /\ members = AllMembers => members' = <<"registry", "listener">>
         /\ members = <<"registry", "listener">> => members' = <<"registry">>
         /\ members = <<"registry">> => members' = <<>>
<1>1. CASE members = AllMembers
  <2>1. members' = SubSeq(<<"registry", "listener", "db_pool">>, 1, 2)
    BY <1>1 DEF MemberGone, AllMembers
  <2>2. members' = <<"registry", "listener">>
    BY <2>1, FrontOfTriple, Zenon
  <2> QED
    BY <1>1, <2>2, StagesDiffer
<1>2. CASE members = <<"registry", "listener">>
  <2>1. members' = SubSeq(<<"registry", "listener">>, 1, 1)
    BY <1>2 DEF MemberGone
  <2>2. members' = <<"registry">>
    BY <2>1, FrontOfPair, Zenon
  <2> QED
    BY <1>2, <2>2, StagesDiffer
<1>3. CASE members = <<"registry">>
  <2>1. members' = SubSeq(<<"registry">>, 1, 0)
    BY <1>3 DEF MemberGone
  <2>2. members' = <<>>
    BY <2>1
  <2> QED
    BY <1>3, <2>2, StagesDiffer
<1> QED
  BY <1>1, <1>2, <1>3 DEF MemberStages

LEMMA MembersOfStages ==
  /\ members = AllMembers => MemberSet = {"registry", "listener", "db_pool"}
  /\ members = <<"registry", "listener">> => MemberSet = {"registry", "listener"}
  /\ members = <<"registry">> => MemberSet = {"registry"}
  BY DEF AllMembers, MemberSet

LEMMA BusyIsFinite == IsFiniteSet(Busy) /\ Cardinality(Busy) \in Nat
  BY WorkersAssumption, FS_Subset, FS_CardinalityType DEF Busy

-----------------------------------------------------------------------------
(* The invariant.                                                          *)

LEMMA EndInit == Init => EndInv
<1> SUFFICES ASSUME Init
             PROVE  EndInv
  OBVIOUS
<1>1. ThreadsInv
  BY DEF Init, ThreadsInv, Joined, RunReturned
<1>2. MembersInv
  BY DEF Init, MembersInv, MemberStages, AllMembers
<1>3. TasksInv
  <2>1. Busy = {}
    BY DEF Init, Busy
  <2> QED
    BY <2>1, FS_EmptySet DEF Init, TasksInv
<1> QED
  BY <1>1, <1>2, <1>3 DEF EndInv

\* Who wakes main() does not bring it past the join.
LEMMA NotifiedMainIsWaiting ==
  ASSUME NotifyMain
  PROVE  main' = main \/ (main = "asleep" /\ main' = "wait")
  BY DEF NotifyMain

LEMMA ThreadsStep == ThreadsInv /\ [Next]_vars => ThreadsInv'
<1> SUFFICES ASSUME ThreadsInv, [Next]_vars
             PROVE  ThreadsInv'
  OBVIOUS
<1> USE DEF ThreadsInv, Joined, RunReturned, threads, state
<1>1. CASE Main
  <2>1. CASE RegisterCallback
    BY <2>1 DEF RegisterCallback, MainGoes
  <2>2. CASE WaitForStop
    BY <2>2 DEF WaitForStop
  <2>3. CASE AskThreads
    BY <2>3 DEF AskThreads, MainGoes
  <2>4. CASE JoinThreads
    BY <2>4 DEF JoinThreads, MainGoes
  <2>5. CASE UnregisterCallback
    BY <2>5 DEF UnregisterCallback, MainGoes
  <2>6. CASE StopWaiter
    BY <2>6 DEF StopWaiter, MainGoes
  <2>7. CASE JoinWaiter
    BY <2>7 DEF JoinWaiter, MainGoes
  <2>8. CASE StopDb \/ NotifyWorkers \/ JoinWorkers \/ DestroyMember \/ Exit
    <3>1. /\ UNCHANGED <<waiter, acceptor, loop, registered>>
          /\ main \in {"destroy", "notify workers", "join workers"}
      BY <2>8 DEF StopDb, NotifyWorkers, JoinWorkers, DestroyMember, Exit, MainGoes
    <3> QED
      BY <3>1
  <2> QED
    BY <1>1, <2>1, <2>2, <2>3, <2>4, <2>5, <2>6, <2>7, <2>8 DEF Main
<1>2. CASE Waiter
  <2>1. CASE WaiterStops
    BY <2>1 DEF WaiterStops, WaiterGoes
  <2>2. CASE TakeSignal
    BY <2>2 DEF TakeSignal, WaiterGoes
  <2>3. CASE WaiterSets
    BY <2>3 DEF WaiterSets, WaiterGoes
  <2>4. CASE WaiterNotifies
    BY <2>4, NotifiedMainIsWaiting DEF WaiterNotifies, WaiterGoes
  <2> QED
    BY <1>2, <2>1, <2>2, <2>3, <2>4 DEF Waiter
<1>3. CASE Acceptor \/ AcceptorFails
  <2>1. CASE AcceptorChecks
    BY <2>1 DEF AcceptorChecks
  <2>2. CASE AcceptorWakes \/ AcceptEnds \/ AcceptorFails \/ AcceptorSets
    BY <2>2 DEF AcceptorWakes, AcceptEnds, AcceptorFails, AcceptorSets, AcceptorGoes
  <2>3. ASSUME NEW c \in Conns, Accept(c)
        PROVE  ThreadsInv'
    BY <2>3 DEF Accept
  <2>4. CASE AcceptorNotifies
    BY <2>4, NotifiedMainIsWaiting DEF AcceptorNotifies, AcceptorGoes
  <2> QED
    BY <1>3, <2>1, <2>2, <2>3, <2>4 DEF Acceptor
<1>4. CASE Loop \/ LoopFails \/ LoopReads
  <2>1. CASE LoopChecks
    BY <2>1 DEF LoopChecks
  <2>2. CASE LoopWakes \/ LoopReads \/ LoopFails \/ DispatchEnds
    BY <2>2 DEF LoopWakes, LoopReads, LoopFails, DispatchEnds, LoopGoes
  <2>3. CASE LoopWorks \/ LoopNotifiesWorker \/ LoopSets
    BY <2>3 DEF LoopWorks, LoopNotifiesWorker, LoopSets, LoopGoes
  <2>4. ASSUME NEW c \in Conns, DispatchClose(c)
        PROVE  ThreadsInv'
    BY <2>4 DEF DispatchClose
  <2>5. CASE LoopNotifies
    BY <2>5, NotifiedMainIsWaiting DEF LoopNotifies, LoopGoes
  <2> QED
    BY <1>4, <2>1, <2>2, <2>3, <2>4, <2>5 DEF Loop
<1>5. ASSUME NEW c \in Conns, DispatchCommand(c)
      PROVE  ThreadsInv'
  BY <1>5 DEF DispatchCommand, LoopGoes
<1>6. ASSUME NEW w \in Workers, Worker(w)
      PROVE  ThreadsInv'
  <2>1. UNCHANGED <<threads, registered>>
    BY <1>6 DEF Worker, WorkerChecks, WorkerExecutes
  <2> QED
    BY <2>1
<1>7. CASE SendSignal \/ \E c \in Conns : Connect(c) \/ Leave(c)
  <2>1. UNCHANGED <<threads, registered>>
    BY <1>7 DEF SendSignal, Connect, Leave
  <2> QED
    BY <2>1
<1>8. CASE UNCHANGED vars
  BY <1>8 DEF vars
<1> QED
  BY <1>1, <1>2, <1>3, <1>4, <1>5, <1>6, <1>7, <1>8 DEF Next

\* Which step takes a member, wakes or moves a worker; the others leave both.
LEMMA MembersKept ==
  ASSUME MembersInv, UNCHANGED <<members, worker>>,
         \/ main' = main
         \/ main \notin {"destroy", "exited"} /\ main' # "exited"
  PROVE  MembersInv'
  BY DEF MembersInv

LEMMA MembersStep == MembersInv /\ TasksInv /\ [Next]_vars => MembersInv'
<1> SUFFICES ASSUME MembersInv, TasksInv, [Next]_vars
             PROVE  MembersInv'
  OBVIOUS
<1>1. CASE Main
  <2>1. CASE \/ RegisterCallback \/ WaitForStop \/ AskThreads \/ JoinThreads
             \/ UnregisterCallback \/ StopWaiter \/ JoinWaiter
    <3>1. /\ UNCHANGED <<members, worker>>
          /\ main \notin {"destroy", "exited"} /\ main' # "exited"
      BY <2>1 DEF RegisterCallback, WaitForStop, AskThreads, JoinThreads,
                  UnregisterCallback, StopWaiter, JoinWaiter, MainGoes, db
    <3> QED
      BY <3>1, MembersKept
  <2>2. CASE StopDb
    <3>1. members # <<>> /\ members[Len(members)] = "db_pool"
      BY <2>2 DEF StopDb, LastMember
    <3>2. members = AllMembers
      BY <3>1 DEF MembersInv, MemberStages
    <3> QED
      BY <2>2, <3>2 DEF StopDb, MainGoes, MembersInv
  <2>3. CASE NotifyWorkers
    <3>1. members = AllMembers
      BY <2>3 DEF NotifyWorkers, MainGoes, MembersInv
    <3> QED
      BY <2>3, <3>1 DEF NotifyWorkers, MainGoes, MembersInv
  <2>4. CASE JoinWorkers
    <3>1. members = AllMembers
      BY <2>4 DEF JoinWorkers, MainGoes, MembersInv
    <3>2. members' = <<"registry", "listener">>
      BY <2>4, <3>1, StagesDiffer, LastMemberGoes DEF JoinWorkers, MembersInv
    <3>3. main' = "destroy" /\ worker' = worker /\ \A w \in Workers : worker[w] = "done"
      BY <2>4 DEF JoinWorkers, MainGoes, db
    <3> QED
      BY <3>2, <3>3 DEF MembersInv, MemberStages
  <2>5. CASE DestroyMember
    <3>1. /\ members # <<>>
          /\ members[Len(members)] \in {"listener", "registry"}
      BY <2>5 DEF DestroyMember, LastMember
    <3>2. members # AllMembers
      BY <3>1 DEF AllMembers
    <3>3. members' \in {<<"registry">>, <<>>}
      BY <2>5, <3>1, <3>2, LastMemberGoes DEF DestroyMember, MembersInv, MemberStages
    <3>4. main' = "destroy" /\ worker' = worker
      BY <2>5 DEF DestroyMember, MainGoes, db
    <3> QED
      BY <3>2, <3>3, <3>4 DEF MembersInv, MemberStages
  <2>6. CASE Exit
    BY <2>6 DEF Exit, MainGoes, MembersInv, db
  <2> QED
    BY <1>1, <2>1, <2>2, <2>3, <2>4, <2>5, <2>6 DEF Main
<1>2. CASE \/ WaiterNotifies \/ AcceptorNotifies \/ LoopNotifies
  <2>1. UNCHANGED <<members, worker>> /\ NotifyMain
    BY <1>2 DEF WaiterNotifies, AcceptorNotifies, LoopNotifies, db
  <2> QED
    BY <2>1, MembersKept, NotifiedMainIsWaiting
<1>3. CASE WaiterStops \/ TakeSignal \/ WaiterSets
  <2>1. UNCHANGED <<main, members, worker>>
    BY <1>3 DEF WaiterStops, TakeSignal, WaiterSets, db
  <2> QED
    BY <2>1, MembersKept
<1>4. CASE \/ AcceptorChecks \/ AcceptorWakes \/ (\E c \in Conns : Accept(c))
           \/ AcceptEnds \/ AcceptorFails \/ AcceptorSets
  <2>1. UNCHANGED <<main, members, worker>>
    BY <1>4 DEF AcceptorChecks, AcceptorWakes, Accept, AcceptEnds, AcceptorFails,
                AcceptorSets, threads, db
  <2> QED
    BY <2>1, MembersKept
<1>5. CASE \/ LoopChecks \/ LoopWakes \/ LoopReads \/ LoopWorks
           \/ (\E c \in Conns : DispatchClose(c) \/ DispatchCommand(c))
           \/ DispatchEnds \/ LoopFails \/ LoopSets
  <2>1. UNCHANGED <<main, members, worker>>
    BY <1>5 DEF LoopChecks, LoopWakes, LoopReads, LoopWorks, DispatchClose,
                DispatchCommand, DispatchEnds, LoopFails, LoopSets, threads, db
  <2> QED
    BY <2>1, MembersKept
<1>6. CASE LoopNotifiesWorker
  <2>1. \A w \in Workers : worker[w] = "done" => worker'[w] = "done"
    BY <1>6 DEF LoopNotifiesWorker, TasksInv
  <2> QED
    BY <1>6, <2>1 DEF LoopNotifiesWorker, MembersInv
<1>7. ASSUME NEW w \in Workers, Worker(w)
      PROVE  MembersInv'
  <2>1. worker[w] # "done" /\ UNCHANGED <<main, members>>
    BY <1>7 DEF Worker, WorkerChecks, WorkerExecutes, threads
  <2> QED
    BY <2>1 DEF MembersInv
<1>8. CASE SendSignal \/ (\E c \in Conns : Connect(c) \/ Leave(c)) \/ UNCHANGED vars
  <2>1. UNCHANGED <<main, members, worker>>
    BY <1>8 DEF SendSignal, Connect, Leave, vars, threads, db
  <2> QED
    BY <2>1, MembersKept
<1> QED
  BY <1>1, <1>2, <1>3, <1>4, <1>5, <1>6, <1>7, <1>8
     DEF Next, Waiter, Acceptor, Loop

LEMMA TasksKept ==
  ASSUME TasksInv, UNCHANGED db
  PROVE  TasksInv'
  BY DEF TasksInv, Busy, db

\* A worker that is woken was not busy and had not left.
LEMMA WokenKeepTasks ==
  ASSUME TasksInv,
         worker' \in [Workers -> {"check", "asleep", "busy", "done"}],
         \A w \in Workers :
           worker'[w] = worker[w] \/ (worker[w] = "asleep" /\ worker'[w] = "check"),
         UNCHANGED <<run_db, tasks, accepted_tasks, executed_tasks>>
  PROVE  TasksInv'
<1>1. Busy' = Busy
  BY DEF Busy, TasksInv
<1> QED
  BY <1>1 DEF TasksInv

LEMMA WorkerKeepsTasks ==
  ASSUME TasksInv, NEW w \in Workers, Worker(w)
  PROVE  TasksInv'
<1> USE BusyIsFinite
<1>1. CASE WorkerChecks(w) /\ tasks > 0
  <2>1. Busy' = Busy \cup {w} /\ w \notin Busy
    BY <1>1 DEF WorkerChecks, Busy, TasksInv
  <2>2. Cardinality(Busy') = Cardinality(Busy) + 1
    BY <2>1, FS_AddElement
  <2>3. \A v \in Workers : worker'[v] # "done"
    BY <1>1 DEF WorkerChecks, TasksInv
  <2> QED
    BY <1>1, <2>2, <2>3 DEF WorkerChecks, TasksInv
<1>2. CASE WorkerChecks(w) /\ ~(tasks > 0)
  <2>1. tasks = 0 /\ tasks' = 0
    BY <1>2 DEF WorkerChecks, TasksInv
  <2>2. Busy' = Busy
    BY <1>2 DEF WorkerChecks, Busy, TasksInv
  <2>3. \A v \in Workers : worker'[v] = "done" => ~run_db'
    BY <1>2 DEF WorkerChecks, TasksInv
  <2> QED
    BY <1>2, <2>1, <2>2, <2>3 DEF WorkerChecks, TasksInv
<1>3. CASE WorkerExecutes(w)
  <2>1. Busy' = Busy \ {w} /\ w \in Busy
    BY <1>3 DEF WorkerExecutes, Busy, TasksInv
  <2>2. Cardinality(Busy') = Cardinality(Busy) - 1
    BY <2>1, FS_RemoveElement
  <2> QED
    BY <1>3, <2>2 DEF WorkerExecutes, TasksInv
<1> QED
  BY <1>1, <1>2, <1>3 DEF Worker

LEMMA TasksStep == TasksInv /\ [Next]_vars => TasksInv'
<1> SUFFICES ASSUME TasksInv, [Next]_vars
             PROVE  TasksInv'
  OBVIOUS
<1>1. CASE Main
  <2>1. CASE StopDb
    <3>1. run_db' = FALSE /\ Busy' = Busy
      BY <2>1 DEF StopDb, Busy
    <3> QED
      BY <2>1, <3>1 DEF StopDb, TasksInv
  <2>2. CASE NotifyWorkers
    <3>1. /\ worker' \in [Workers -> {"check", "asleep", "busy", "done"}]
          /\ \A w \in Workers :
               worker'[w] = worker[w] \/ (worker[w] = "asleep" /\ worker'[w] = "check")
      BY <2>2 DEF NotifyWorkers, TasksInv
    <3> QED
      BY <2>2, <3>1, WokenKeepTasks DEF NotifyWorkers
  <2>3. ASSUME ~StopDb, ~NotifyWorkers
        PROVE  UNCHANGED db
    BY <1>1, <2>3 DEF Main, RegisterCallback, WaitForStop, AskThreads, JoinThreads,
          UnregisterCallback, StopWaiter, JoinWaiter, JoinWorkers, DestroyMember, Exit
  <2> QED
    BY <2>1, <2>2, <2>3, TasksKept
<1>2. CASE Waiter \/ Acceptor \/ AcceptorFails
  <2>1. UNCHANGED db
    BY <1>2 DEF Waiter, WaiterStops, TakeSignal, WaiterSets, WaiterNotifies,
          Acceptor, AcceptorChecks, AcceptorWakes, Accept, AcceptEnds,
          AcceptorSets, AcceptorNotifies, AcceptorFails
  <2> QED
    BY <2>1, TasksKept
<1>3. CASE LoopNotifiesWorker
  <2>1. /\ worker' \in [Workers -> {"check", "asleep", "busy", "done"}]
        /\ \A w \in Workers :
             worker'[w] = worker[w] \/ (worker[w] = "asleep" /\ worker'[w] = "check")
    BY <1>3 DEF LoopNotifiesWorker, TasksInv
  <2> QED
    BY <1>3, <2>1, WokenKeepTasks DEF LoopNotifiesWorker
<1>4. ASSUME Loop \/ LoopFails \/ LoopReads, ~LoopNotifiesWorker
      PROVE  TasksInv'
  <2>1. UNCHANGED db
    BY <1>4 DEF Loop, LoopChecks, LoopWakes, LoopWorks, DispatchClose, DispatchEnds,
          LoopSets, LoopNotifies, LoopFails, LoopReads
  <2> QED
    BY <2>1, TasksKept
<1>5. ASSUME NEW c \in Conns, DispatchCommand(c)
      PROVE  TasksInv'
  <2>1. Busy' = Busy /\ \A w \in Workers : worker[w] # "done"
    BY <1>5 DEF DispatchCommand, Busy, TasksInv
  <2>2. /\ worker' = worker /\ executed_tasks' = executed_tasks
        /\ tasks' = tasks + 1 /\ accepted_tasks' = accepted_tasks + 1
    BY <1>5 DEF DispatchCommand
  <2> QED
    BY <2>1, <2>2, BusyIsFinite DEF TasksInv
<1>6. ASSUME NEW w \in Workers, Worker(w)
      PROVE  TasksInv'
  BY <1>6, WorkerKeepsTasks
<1>7. CASE SendSignal \/ (\E c \in Conns : Connect(c) \/ Leave(c)) \/ UNCHANGED vars
  <2>1. UNCHANGED db
    BY <1>7 DEF SendSignal, Connect, Leave, vars
  <2> QED
    BY <2>1, TasksKept
<1> QED
  BY <1>1, <1>2, <1>3, <1>4, <1>5, <1>6, <1>7 DEF Next

-----------------------------------------------------------------------------
(* The theorems.                                                           *)

LEMMA EndInvariant == Spec => []EndInv
<1>1. EndInv /\ [Next]_vars => EndInv'
  BY ThreadsStep, MembersStep, TasksStep DEF EndInv
<1> QED
  BY EndInit, <1>1, PTL DEF Spec

\* Whatever makes the server end, and whenever, no thread uses a local of
\* run(), the registry, the listener or the database executor after it is
\* gone: run() joins its threads and unregisters its callback before it
\* returns, and ~db_executor() joins the workers before registry is destroyed.
THEOREM ThreadsUseWhatExists == Spec => []ObjectsOutliveThreads
<1>1. EndInv => ObjectsOutliveThreads
  <2> SUFFICES ASSUME EndInv
               PROVE  ObjectsOutliveThreads
    OBVIOUS
  <2>1. RunReturned => {waiter, acceptor, loop} \cap {"set", "notify"} = {}
    BY DEF EndInv, ThreadsInv, Joined
  <2>2. CASE members = AllMembers
    BY <2>1, <2>2, MembersOfStages DEF ObjectsOutliveThreads
  <2>3. CASE members # AllMembers
    <3>1. main \in {"destroy", "exited"} /\ \A w \in Workers : worker[w] = "done"
      BY <2>3 DEF EndInv, MembersInv
    <3>2. acceptor = "done" /\ loop = "done"
      BY <3>1 DEF EndInv, ThreadsInv, Joined, RunReturned
    <3> QED
      BY <2>1, <3>1, <3>2 DEF ObjectsOutliveThreads
  <2> QED
    BY <2>2, <2>3
<1> QED
  BY <1>1, EndInvariant, PTL

\* stop() lets the workers empty the queue: every command enqueue() has taken
\* has been executed when the process ends.
THEOREM NoAcceptedTaskIsDropped == Spec => []AcceptedTasksAreExecuted
<1>1. EndInv => AcceptedTasksAreExecuted
  <2> SUFFICES ASSUME EndInv, main = "exited"
               PROVE  executed_tasks = accepted_tasks
    BY DEF AcceptedTasksAreExecuted
  <2>1. \A w \in Workers : worker[w] = "done"
    BY StagesDiffer DEF EndInv, MembersInv
  <2>2. tasks = 0
    BY <2>1, WorkersAssumption DEF EndInv, TasksInv
  <2>3. Busy = {}
    BY <2>1 DEF Busy
  <2> QED
    BY <2>2, <2>3, FS_EmptySet DEF EndInv, TasksInv
<1> QED
  BY <1>1, EndInvariant, PTL

=============================================================================
