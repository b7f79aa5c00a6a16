-------------------------- MODULE EventLoopProofs ---------------------------
(***************************************************************************)
(* What holds of the event loop for every number of connections and any    *)
(* commands: it never sleeps on a queue, and it does to the registry only  *)
(* what EpollRegistry lets it, so that everything proved of the registry   *)
(* holds under the loop.                                                   *)
(***************************************************************************)
EXTENDS EventLoop, EpollRegistryProofs

\* From the consume to the swap the loop need not be woken: the swap takes
\* whatever was pushed.
WakeupInv ==
  pc \in {"consume", "swap"} \/ cmd_q = <<>> \/ wake \/ signalling # {}

LEMMA WakeupInit == LoopInit => WakeupInv
  BY DEF LoopInit, Init, WakeupInv

\* The commands handled come from pending_cmd; cmd_q is left alone.
LEMMA HandleKeepsQueue ==
  ASSUME HandleCommand
  PROVE  cmd_q' = cmd_q
  BY DEF HandleCommand, HandleRegister, HandleUnregister, HandleSendOne,
         HandleChangeNickname, HandleSetUserId, HandleSetJoinedRooms,
         HandleSetJoinedRoomsForUser, HandleSendFriendList,
         HandleRoomBroadcast, Take

LEMMA WakeupStep == WakeupInv /\ [LoopNext]_allVars => WakeupInv'
<1> SUFFICES ASSUME WakeupInv, [LoopNext]_allVars
             PROVE  WakeupInv'
  OBVIOUS
<1>1. CASE UNCHANGED allVars
  BY <1>1 DEF WakeupInv, allVars, vars, loopVars
<1>2. ASSUME NEW fd \in Fds, AcceptConnection(fd)
      PROVE  WakeupInv'
  BY <1>2 DEF AcceptConnection, WillSignal, WakeupInv
<1>3. ASSUME NEW cmd \in Requests, WorkerPushes(cmd)
      PROVE  WakeupInv'
  BY <1>3 DEF WorkerPushes, WillSignal, WakeupInv
<1>4. ASSUME NEW thread \in Threads, Signal(thread)
      PROVE  WakeupInv'
  BY <1>4 DEF Signal, WakeupInv
<1>5. CASE RequestStop
  BY <1>5 DEF RequestStop, WillSignal, WakeupInv
<1>6. CASE Check
  BY <1>6 DEF Check, At, Go, vars, WakeupInv
<1>7. ASSUME NEW fds, Return(fds)
      PROVE  WakeupInv'
  BY <1>7 DEF Return, At, Go, WakeupInv
<1>8. CASE Consume
  BY <1>8 DEF Consume, At, Go, WakeupInv
<1>9. CASE Swap
  BY <1>9 DEF Swap, Work, vars, WakeupInv
<1>10. CASE Handle
  BY <1>10, HandleKeepsQueue DEF Handle, At, loopVars, WakeupInv
<1>11. CASE EndOfWork
  BY <1>11 DEF EndOfWork, At, Go, vars, WakeupInv
<1>12. CASE Dispatch
  <2>1. ASSUME NEW event \in batch, Receive(event)
        PROVE  WakeupInv'
    BY <2>1 DEF Receive, At, vars, WakeupInv
  <2>2. CASE Send
    BY <2>2 DEF Send, At, FlushSend, vars, WakeupInv
  <2>3. CASE Respond \/ EndOfEvent
    BY <2>3 DEF Respond, EndOfEvent, At, vars, WakeupInv
  <2> QED
    BY <1>12, <2>1, <2>2, <2>3 DEF Dispatch
<1>13. CASE EndOfBatch
  BY <1>13 DEF EndOfBatch, At, Go, vars, WakeupInv
<1> QED
  BY <1>1, <1>2, <1>3, <1>4, <1>5, <1>6, <1>7, <1>8, <1>9, <1>10, <1>11,
     <1>12, <1>13 DEF LoopNext, Iterate, Woken, SocketReady

\* The loop never goes to sleep on commands unless a wakeup is under way,
\* whatever threads push and however pushes and wakeups interleave with
\* consume_wakeup() and the swap in work().
THEOREM WakeupsAreNotLost == LoopSpec => []NoLostWakeup
<1>1. LoopInit => WakeupInv
  BY WakeupInit
<1>2. WakeupInv /\ [LoopNext]_allVars => WakeupInv'
  BY WakeupStep
<1>3. WakeupInv => NoLostWakeup
  BY DEF WakeupInv, NoLostWakeup, At
<1> QED
  BY <1>1, <1>2, <1>3, PTL DEF LoopSpec

-----------------------------------------------------------------------------
(* The loop and the registry.                                              *)

LEMMA LoopStepsAreRegistrySteps ==
  TypeOK /\ [LoopNext]_allVars => [Next]_vars
<1> SUFFICES ASSUME TypeOK, [LoopNext]_allVars
             PROVE  [Next]_vars
  OBVIOUS
<1>1. CASE UNCHANGED allVars
  BY <1>1 DEF allVars
<1>2. ASSUME NEW fd \in Fds, AcceptConnection(fd)
      PROVE  Next
  BY <1>2 DEF AcceptConnection, Next
<1>3. ASSUME NEW cmd \in Requests, WorkerPushes(cmd)
      PROVE  Next
  BY <1>3 DEF WorkerPushes, Next
<1>4. ASSUME NEW thread \in Threads, Signal(thread)
      PROVE  UNCHANGED vars
  BY <1>4 DEF Signal
<1>5. ASSUME NEW fds, Return(fds)
      PROVE  UNCHANGED vars
  BY <1>5 DEF Return
<1>6. CASE Swap
  BY <1>6 DEF Swap, Next
<1>7. CASE Handle
  BY <1>7 DEF Handle, Next
<1>8. CASE Dispatch
  <2>1. ASSUME NEW fd, FlushSend(fd) \/ Disconnect(fd)
        PROVE  Next
    <3>1. fd \in Fds
      BY <2>1 DEF FlushSend, Disconnect, TypeOK
    <3> QED
      BY <2>1, <3>1 DEF Next
  <2>2. ASSUME NEW event \in batch, Receive(event)
        PROVE  [Next]_vars
    BY <2>1, <2>2 DEF Receive
  <2>3. CASE Send
    BY <2>1, <2>3 DEF Send
  <2>4. CASE Respond
    BY <2>4 DEF Respond, Request, Next
  <2>5. CASE EndOfEvent
    BY <2>5 DEF EndOfEvent
  <2> QED
    BY <1>8, <2>2, <2>3, <2>4, <2>5 DEF Dispatch
<1>9. CASE RequestStop \/ Check \/ Consume \/ EndOfWork \/ EndOfBatch
  BY <1>9 DEF RequestStop, Check, Consume, EndOfWork, EndOfBatch
<1> QED
  BY <1>1, <1>2, <1>3, <1>4, <1>5, <1>6, <1>7, <1>8, <1>9
     DEF LoopNext, Iterate, Woken, SocketReady

\* The loop thread of the code, with its order of steps, is one of those
\* EpollRegistry allows for: every invariant of the registry holds under it.
THEOREM LoopImplementsRegistry == LoopSpec => Spec
<1>1. LoopInit => Init /\ TypeOK
  BY TypeInit DEF LoopInit
<1>2. TypeOK /\ [LoopNext]_allVars => TypeOK' /\ [Next]_vars
  BY LoopStepsAreRegistrySteps, TypeStep
<1> QED
  BY <1>1, <1>2, PTL DEF LoopSpec, Spec

-----------------------------------------------------------------------------
(* Events and connections.                                                 *)

\* The descriptors events were reported for are sessions until the swap; in
\* what is swapped out nobody registers under such a number, and everybody
\* who was disconnected before is unregistered.
EventInv ==
  /\ conn \in [Fds -> Nat]
  /\ pc # "handle" => pending_cmd = <<>>
  /\ pc \in {"consume", "swap"} =>
       \A e \in batch : e.fd \in DOMAIN infos /\ e.conn = conn[e.fd]
  /\ pc = "handle" =>
       \A e \in batch, i \in DOMAIN pending_cmd :
         ~(IsRegister(pending_cmd[i]) /\ pending_cmd[i].fd = e.fd)
  /\ pc \in {"handle", "dispatch"} =>
       \A e \in batch : e.fd \in DOMAIN infos => e.conn = conn[e.fd]
  /\ pc = "handle" => \A i \in DOMAIN cmd_q : cmd_q[i].op # "unregister"
  /\ pc = "dispatch" =>
       \A e \in batch, i \in DOMAIN cmd_q :
         cmd_q[i] # [op |-> "unregister", fd |-> e.fd]
  /\ \A e, f \in batch : e.fd = f.fd => e = f
  /\ pc # "dispatch" => current = Idle
  /\ current = Idle \/ \A e \in batch : e.fd # current.fd

LEMMA EventInit == LoopInit => EventInv
  BY DEF LoopInit, Init, EventInv

\* Only a register command brings a session.
LEMMA SessionsAreRegistered ==
  ASSUME TypeOK, HandleCommand, NEW fd \in DOMAIN infos' \ DOMAIN infos
  PROVE  IsRegister(Head(pending_cmd)) /\ Head(pending_cmd).fd = fd
<1>1. CASE HandleRegister
  BY <1>1 DEF HandleRegister, Take, IsRegister
<1>2. CASE HandleUnregister
  BY <1>2 DEF HandleUnregister, Ignore, tables
<1>3. ASSUME NEW targets, NEW failed, AppendSend(targets, failed)
      PROVE  FALSE
  BY <1>3 DEF AppendSend
<1>4. CASE HandleSendOne
  BY <1>3, <1>4 DEF HandleSendOne, Ignore, tables
<1>5. CASE HandleSendFriendList
  BY <1>3, <1>5 DEF HandleSendFriendList, Ignore, tables
<1>6. CASE HandleRoomBroadcast
  BY <1>3, <1>6 DEF HandleRoomBroadcast
<1>7. ASSUME NEW fds, NEW room_ids, SetFdJoinedRooms(fds, room_ids)
      PROVE  FALSE
  BY <1>7 DEF SetFdJoinedRooms
<1>8. CASE HandleSetJoinedRooms
  BY <1>7, <1>8 DEF HandleSetJoinedRooms, Ignore, tables
<1>9. CASE HandleSetJoinedRoomsForUser
  BY <1>7, <1>9 DEF HandleSetJoinedRoomsForUser
<1>10. CASE HandleChangeNickname
  BY <1>10 DEF HandleChangeNickname, Ignore, tables
<1>11. CASE HandleSetUserId
  BY <1>11 DEF HandleSetUserId, Ignore, tables
<1> QED
  BY <1>1, <1>2, <1>4, <1>5, <1>6, <1>8, <1>9, <1>10, <1>11 DEF HandleCommand

\* A push of anything but an unregister command, outside the loop thread.
LEMMA PushKeepsEvents ==
  ASSUME TypeOK, EventInv, NEW cmd, cmd.op # "unregister",
         cmd_q' = Append(cmd_q, cmd),
         UNCHANGED <<pc, batch, current, infos, pending_cmd>>,
         conn' \in [Fds -> Nat],
         \A fd \in DOMAIN infos : conn'[fd] = conn[fd]
  PROVE  EventInv'
<1>1. cmd_q \in Seq(Commands)
  BY DEF TypeOK
<1>2. ASSUME NEW i \in DOMAIN cmd_q'
      PROVE  \/ i \in DOMAIN cmd_q /\ cmd_q'[i] = cmd_q[i]
             \/ cmd_q'[i] = cmd
  BY <1>1
<1>3. \A fd : cmd # [op |-> "unregister", fd |-> fd]
  OBVIOUS
<1> QED
  BY <1>2, <1>3 DEF EventInv

\* A session that disconnects, none of whose events is left.
LEMMA DisconnectKeepsEvents ==
  ASSUME TypeOK, EventInv, NEW fd, Disconnect(fd),
         pc = "dispatch", pc' = "dispatch", conn' = conn,
         batch' \subseteq batch, \A e \in batch' : e.fd # fd,
         current' = Idle \/ current'.fd = fd
  PROVE  EventInv'
<1>1. /\ DOMAIN infos' = DOMAIN infos /\ UNCHANGED pending_cmd
      /\ cmd_q' = Append(cmd_q, [op |-> "unregister", fd |-> fd])
  BY DEF Disconnect, Push
<1>2. cmd_q \in Seq(Commands)
  BY DEF TypeOK
<1>3. ASSUME NEW i \in DOMAIN cmd_q'
      PROVE  \/ i \in DOMAIN cmd_q /\ cmd_q'[i] = cmd_q[i]
             \/ cmd_q'[i] = [op |-> "unregister", fd |-> fd]
  BY <1>1, <1>2
<1>4. ASSUME NEW e \in batch', NEW i \in DOMAIN cmd_q'
      PROVE  cmd_q'[i] # [op |-> "unregister", fd |-> e.fd]
  <2>1. CASE cmd_q'[i] = [op |-> "unregister", fd |-> fd]
    <3>1. cmd_q'[i].fd = fd
      BY <2>1
    <3>2. [op |-> "unregister", fd |-> e.fd].fd = e.fd
      OBVIOUS
    <3> QED
      BY <3>1, <3>2
  <2>2. CASE i \in DOMAIN cmd_q /\ cmd_q'[i] = cmd_q[i]
    BY <2>2 DEF EventInv
  <2> QED
    BY <1>3, <2>1, <2>2
<1> QED
  BY <1>1, <1>4 DEF EventInv

LEMMA EventStep ==
  TypeOK /\ OwnershipInv /\ EventInv /\ [LoopNext]_allVars => EventInv'
<1> SUFFICES ASSUME TypeOK, OwnershipInv, EventInv, [LoopNext]_allVars
             PROVE  EventInv'
  OBVIOUS
<1>1. CASE UNCHANGED allVars
  BY <1>1 DEF EventInv, allVars, vars, loopVars
<1>2. ASSUME NEW fd \in Fds, AcceptConnection(fd)
      PROVE  EventInv'
  <2>1. fd \notin DOMAIN infos
    BY <1>2 DEF AcceptConnection, Accept, OwnershipInv, FdOwnership
  <2>2. /\ conn' \in [Fds -> Nat]
        /\ \A f \in DOMAIN infos : conn'[f] = conn[f]
    BY <1>2, <2>1 DEF AcceptConnection, EventInv, TypeOK
  <2> QED
    BY <1>2, <2>2, PushKeepsEvents DEF AcceptConnection, Accept, Push
<1>3. ASSUME NEW cmd \in Requests, WorkerPushes(cmd)
      PROVE  EventInv'
  <2>1. cmd.op # "unregister"
    BY RequestsAssumption DEF WorkerCommands
  <2> QED
    BY <1>3, <2>1, PushKeepsEvents
       DEF WorkerPushes, Request, Push, tables, EventInv
<1>4. ASSUME NEW thread \in Threads, Signal(thread)
      PROVE  EventInv'
  BY <1>4 DEF Signal, EventInv, vars
<1>5. CASE RequestStop
  BY <1>5 DEF RequestStop, EventInv, vars
<1>6. CASE Check
  BY <1>6 DEF Check, At, Go, EventInv, vars
<1>7. ASSUME NEW fds \in SUBSET DOMAIN infos, Return(fds)
      PROVE  EventInv'
  <2>1. /\ batch' = {[fd |-> fd, conn |-> conn[fd]] : fd \in fds}
        /\ pc = "wait" /\ pc' = "consume"
        /\ UNCHANGED <<conn, current, pending_cmd, infos>>
    BY <1>7 DEF Return, At, Go, vars
  <2> QED
    BY <2>1 DEF EventInv
<1>8. CASE Consume
  BY <1>8 DEF Consume, At, Go, EventInv, vars
<1>9. CASE Swap
  <2>1. /\ pc = "swap" /\ pc' = "handle" /\ pending_cmd = <<>>
        /\ UNCHANGED <<infos, batch, current, conn>>
        /\ pending_cmd' = cmd_q /\ cmd_q' = <<>>
    BY <1>9 DEF Swap, At, Go, Work, tables, vars, EventInv
  <2>2. cmd_q \in Seq(Commands)
    BY DEF TypeOK
  <2>3. Backlog = cmd_q
    BY <2>1, <2>2 DEF Backlog
  <2>4. ASSUME NEW e \in batch, NEW i \in DOMAIN cmd_q, IsRegister(cmd_q[i])
        PROVE  cmd_q[i].fd # e.fd
    BY <2>1, <2>3, <2>4 DEF EventInv, OwnershipInv, FdOwnership
  <2> QED
    BY <2>1, <2>4 DEF EventInv
<1>10. CASE Handle
  <2>1. /\ pc = "handle" /\ pc' = "handle"
        /\ UNCHANGED <<batch, current, conn, cmd_q>>
        /\ pending_cmd # <<>> /\ pending_cmd' = Tail(pending_cmd)
    BY <1>10, HandleKeepsQueue
       DEF Handle, At, loopVars, HandleCommand, HandleRegister,
           HandleUnregister, HandleSendOne, HandleChangeNickname,
           HandleSetUserId, HandleSetJoinedRooms,
           HandleSetJoinedRoomsForUser, HandleSendFriendList,
           HandleRoomBroadcast, Take
  <2>2. pending_cmd \in Seq(Commands)
    BY DEF TypeOK
  <2>3. /\ Head(pending_cmd) = pending_cmd[1] /\ 1 \in DOMAIN pending_cmd
        /\ \A i \in DOMAIN pending_cmd' :
             i + 1 \in DOMAIN pending_cmd /\ pending_cmd'[i] = pending_cmd[i + 1]
    BY <2>1, <2>2
  <2>4. \A e \in batch : e.fd \in DOMAIN infos' => e.fd \in DOMAIN infos
    BY <1>10, <2>1, <2>3, SessionsAreRegistered DEF Handle, EventInv
  <2> QED
    BY <2>1, <2>3, <2>4 DEF EventInv
<1>11. CASE EndOfWork
  <2>1. ASSUME NEW i \in DOMAIN cmd_q, NEW e \in batch
        PROVE  cmd_q[i] # [op |-> "unregister", fd |-> e.fd]
    BY <1>11 DEF EndOfWork, At, EventInv
  <2> QED
    BY <1>11, <2>1 DEF EndOfWork, At, Go, EventInv, vars
<1>12. CASE Dispatch
  <2>1. pc = "dispatch" /\ pc' = "dispatch" /\ conn' = conn
    BY <1>12 DEF Dispatch, Receive, Send, Respond, EndOfEvent, At
  <2>2. ASSUME NEW event \in batch, Receive(event)
        PROVE  EventInv'
    <3>1. /\ batch' = batch \ {event}
          /\ \A e \in batch' : e.fd # event.fd
          /\ current' = Idle \/ current'.fd = event.fd
      BY <2>2 DEF Receive, Before, EventInv
    <3>2. CASE UNCHANGED vars
      BY <2>1, <3>1, <3>2 DEF EventInv, vars
    <3>3. CASE Disconnect(event.fd)
      BY <2>1, <3>1, <3>3, DisconnectKeepsEvents
    <3> QED
      BY <2>2, <3>2, <3>3 DEF Receive, vars
  <2>3. CASE Send
    <3>1. /\ batch' = batch
          /\ current'.fd = current.fd
          /\ current # Idle
      BY <2>3 DEF Send, Before, Idle
    <3>2. \A e \in batch' : e.fd # current.fd
      BY <3>1 DEF EventInv
    <3>3. CASE UNCHANGED vars
      BY <2>1, <3>1, <3>2, <3>3 DEF EventInv, vars
    <3>4. CASE FlushSend(current.fd)
      <4>1. DOMAIN infos' = DOMAIN infos /\ UNCHANGED <<cmd_q, pending_cmd>>
        BY <3>4 DEF FlushSend
      <4> QED
        BY <2>1, <3>1, <3>2, <4>1 DEF EventInv
    <3>5. CASE Disconnect(current.fd)
      BY <2>1, <3>1, <3>2, <3>5, DisconnectKeepsEvents
    <3> QED
      BY <2>3, <3>3, <3>4, <3>5 DEF Send, vars
  <2>4. CASE Respond
    <3>1. PICK text \in Texts :
            Request([op |-> "send_one", fd |-> current.fd, text |-> text])
      BY <2>4 DEF Respond
    <3>2. /\ UNCHANGED <<pc, batch, current, conn, infos, pending_cmd>>
          /\ cmd_q' = Append(cmd_q, [op |-> "send_one", fd |-> current.fd, text |-> text])
      BY <2>4, <3>1 DEF Respond, Request, Push, tables
    <3> QED
      BY <3>2, PushKeepsEvents DEF EventInv
  <2>5. CASE EndOfEvent
    BY <2>5 DEF EndOfEvent, EventInv, vars
  <2> QED
    BY <1>12, <2>2, <2>3, <2>4, <2>5 DEF Dispatch
<1>13. CASE EndOfBatch
  BY <1>13 DEF EndOfBatch, At, Go, EventInv, vars
<1> QED
  BY <1>1, <1>2, <1>3, <1>4, <1>5, <1>6, <1>7, <1>8, <1>9, <1>10, <1>11,
     <1>12, <1>13 DEF LoopNext, Iterate, Woken, SocketReady

\* No event is ever handed to a connection it was not reported for, nor to
\* one that was disconnected, although descriptor numbers are closed and
\* handed out again between epoll_wait() and the dispatch.
THEOREM EventsReachTheirConnection == LoopSpec => []EventsFindTheirConnection
<1>1. LoopInit => EventInv
  BY EventInit
<1>2. TypeOK /\ OwnershipInv /\ EventInv /\ [LoopNext]_allVars => EventInv'
  BY EventStep
<1>3. TypeOK /\ OwnershipInv /\ EventInv => EventsFindTheirConnection
  <2> SUFFICES ASSUME TypeOK, OwnershipInv, EventInv, pc = "dispatch",
                      NEW e \in batch, e.fd \in DOMAIN infos
               PROVE  e.conn = conn[e.fd] /\ ~infos[e.fd].is_closed
    BY DEF EventsFindTheirConnection, At
  <2>1. cmd_q \in Seq(Commands) /\ pending_cmd = <<>>
    BY DEF TypeOK, EventInv
  <2>2. Backlog = cmd_q
    BY <2>1 DEF Backlog
  <2>3. \A i \in DOMAIN Backlog : Backlog[i] # [op |-> "unregister", fd |-> e.fd]
    BY <2>2 DEF EventInv
  <2> HIDE DEF Backlog
  <2>4. ~infos[e.fd].is_closed
    BY <2>3 DEF OwnershipInv, UnregisterMeetsItsSession, TypeOK, SocketInfo
  <2> QED
    BY <2>4 DEF EventInv
<1>4. Spec => [](TypeOK /\ OwnershipInv)
  <2>1. Spec => []TypeOK
    BY TypeCorrect
  <2>2. Spec => []OwnershipInv
    BY DescriptorsOwned DEF OwnershipInv
  <2> QED
    BY <2>1, <2>2, PTL
<1>5. LoopSpec => [](TypeOK /\ OwnershipInv)
  BY <1>4, LoopImplementsRegistry, PTL
<1> QED
  BY <1>1, <1>2, <1>3, <1>5, PTL DEF LoopSpec

=============================================================================
