----------------------------- MODULE ChatServer -----------------------------
(***************************************************************************)
(* The server as its clients see it: connections whose commands become     *)
(* tasks of db_executor, the one worker that executes them against the     *)
(* tables and pushes commands for the registry, and the event loop that    *)
(* obeys those.                                                            *)
(*                                                                         *)
(* The registry appears as Presence, which EpollRegistry is checked to     *)
(* implement.  The descriptors EpollRegistry keeps account of are those    *)
(* of sessions and of register commands in the queue (its FdOwnership),    *)
(* and a session is closed when an unregister command for it is in the     *)
(* queue (its UnregisterMeetsItsSession).                                  *)
(*                                                                         *)
(* A session that on_send() disconnects still executes the lines it had    *)
(* received in the same event.  Reading them touches neither queue nor     *)
(* sessions, so it is modelled as happening before.                        *)
(***************************************************************************)
EXTENDS DbExecutor

CONSTANTS
  Script,     \* the commands clients send
  Starts,     \* quiet states to start from: [db, sessions, conn, reads, outages]
  MaxConns,   \* bound on the connections a descriptor number serves
  MaxReads,   \* bound on the commands read
  MaxOutages  \* bound on the times the database fails

VARIABLES
  sessions, queue, delivered,   \* of Presence
  conn,      \* history: connections accepted on each descriptor number
  reads,     \* history: commands read
  outages,   \* history: times the database began to fail
  calm       \* history: descriptors on which nothing disturbs the latest
             \* connection (see Disturbances)

vars == <<db, failing, tasks, todo, sessions, queue, delivered,
          conn, reads, outages, calm>>

R == INSTANCE Presence

Tasks ==
  [cmd : ClientCommands \cup [op : {"response"}], fd : Fds,
   user_id : Users \cup {Empty}, conn : 1..MaxConns, number : 1..MaxReads]

\* Replies and room messages of any task.
TaskTexts ==
       [says : Sayings, task : Tasks]
  \cup [says : {"text"}, task : Tasks, members : SUBSET Users]

\* Tables whose rows have the columns' types and refer to rows that exist,
\* as DbService keeps them.
Tables(d) ==
  /\ DOMAIN d = {"users", "friendships", "friend_requests", "rooms",
                 "room_members", "messages", "next_room", "next_message"}
  /\ DOMAIN d.users \subseteq Users
  /\ d.users \in [DOMAIN d.users -> [pw : Passwords, nickname : Nicks]]
  /\ d.next_room \in Nat \ {0}
  /\ DOMAIN d.rooms \subseteq 1..(d.next_room - 1)
  /\ d.rooms \in [DOMAIN d.rooms -> Users]
  /\ d.room_members \subseteq (DOMAIN d.rooms) \X Users
  /\ IsFiniteSet(DOMAIN d.friend_requests)
  /\ IsFiniteSet(d.messages)

SessionStates == [user_id : Users \cup {Empty}, nickname : Nicks, rooms : SUBSET Rooms]

\* A session is listed under the existing rooms its user is a member of.  (An
\* owner may be missing: create_room refreshes only the session that asked.)
ListedRightly(d, s) ==
  \A r \in DOMAIN d.rooms :
    /\ r \in s.rooms => Db!Member(d, r, s.user_id)
    /\ Db!Member(d, r, s.user_id) /\ d.rooms[r] # s.user_id => r \in s.rooms

\* Rooms has an id for every room that the commands left can create.
Quiet(start) ==
  /\ Tables(start.db)
  /\ start.conn \in [Fds -> 0..MaxConns]
  /\ start.reads \in 0..MaxReads
  /\ start.outages \in 0..MaxOutages
  /\ 1..(start.db.next_room - 1 + MaxReads - start.reads) \subseteq Rooms
  /\ DOMAIN start.sessions \subseteq {fd \in Fds : start.conn[fd] > 0}
  /\ start.sessions \in [DOMAIN start.sessions -> SessionStates]
  /\ \A fd \in DOMAIN start.sessions :
       /\ ListedRightly(start.db, start.sessions[fd])
       /\ start.sessions[fd].rooms \subseteq 1..(start.db.next_room - 1)

ASSUME ScriptAssumption ==
  Script \subseteq ClientCommands \cup [op : {"response"}]
ASSUME TextsAssumption == TaskTexts \subseteq Texts
ASSUME StartsAssumption == \A start \in Starts : Quiet(start)
ASSUME BoundsAssumption == MaxConns \in Nat /\ MaxReads \in Nat /\ MaxOutages \in Nat

Init ==
  /\ \E start \in Starts :
       /\ db = start.db
       /\ sessions = start.sessions
       /\ conn = start.conn
       /\ reads = start.reads
       /\ outages = start.outages
  /\ failing = FALSE
  /\ calm = Fds
  /\ tasks = <<>>
  /\ todo = <<>>
  /\ queue = <<>>
  /\ delivered = Nothing

-----------------------------------------------------------------------------
(* Disturbances: three things after which a session may be listed under    *)
(* rooms of which its user is not a member, or not under one of which he   *)
(* is: a descriptor number handed out again while commands for or from an  *)
(* earlier connection on it are under way, a command read before an earlier*)
(* login of the same session was answered, and a database that fails.      *)

\* A task from fd, or a command that names fd, is under way.
UnderWay(fd) ==
  LET ahead == queue \o todo IN
  \/ \E i \in DOMAIN tasks : tasks[i].fd = fd
  \/ \E i \in DOMAIN ahead : ahead[i].op # "set_joined_rooms_for_user" /\ ahead[i].fd = fd

\* A login from fd, or the answer to one, is under way.
AwaitsLogin(fd) ==
  LET ahead == queue \o todo IN
  \/ \E i \in DOMAIN tasks : tasks[i].fd = fd /\ tasks[i].cmd.op = "login"
  \/ \E i \in DOMAIN ahead : /\ ahead[i].op = "send_one"
                             /\ ahead[i].fd = fd
                             /\ ahead[i].text.task.cmd.op = "login"

-----------------------------------------------------------------------------
(* Connections.                                                            *)

Queued(op, fd) == \E i \in DOMAIN queue : queue[i] = [op |-> op, fd |-> fd]

Push(cmd) == queue' = Append(queue, cmd)

\* epoll_acceptor
Connect(fd) ==
  /\ fd \notin DOMAIN sessions
  /\ ~Queued("register", fd)
  /\ conn[fd] < MaxConns
  /\ conn' = [conn EXCEPT ![fd] = @ + 1]
  /\ calm' = IF failing \/ UnderWay(fd) THEN calm \ {fd} ELSE calm \cup {fd}
  /\ Push([op |-> "register", fd |-> fd])
  /\ delivered' = Nothing
  /\ UNCHANGED <<db, failing, tasks, todo, sessions, reads, outages>>

Open(fd) == fd \in DOMAIN sessions /\ ~Queued("unregister", fd)

\* The peer closes, or an error is found: handle_disconnect()
Hangup(fd) ==
  /\ Open(fd)
  /\ Push([op |-> "unregister", fd |-> fd])
  /\ delivered' = Nothing
  /\ UNCHANGED <<db, failing, tasks, todo, sessions, conn, reads, outages, calm>>

\* handle_execute(): a database command becomes a task.
ReadCommand(fd, cmd) ==
  /\ Open(fd)
  /\ reads < MaxReads
  /\ reads' = reads + 1
  /\ calm' = IF AwaitsLogin(fd) THEN calm \ {fd} ELSE calm
  /\ Enqueue(Task(cmd, fd, sessions[fd].user_id, conn[fd], reads'))
  /\ delivered' = Nothing
  /\ UNCHANGED <<db, failing, todo, sessions, queue, conn, outages>>

\* handle_execute(): a client may send what only the server should; a
\* "response" is sent back to him by the loop itself, past the worker.
Echo(fd) ==
  /\ Open(fd)
  /\ [op |-> "response"] \in Script
  /\ reads < MaxReads
  /\ reads' = reads + 1
  /\ Push(Reply(Task([op |-> "response"], fd, sessions[fd].user_id, conn[fd],
                     reads'), "echo"))
  /\ delivered' = Nothing
  /\ UNCHANGED <<db, failing, tasks, todo, sessions, conn, outages, calm>>

-----------------------------------------------------------------------------
(* The worker and the loop.                                                *)

ExecuteTask ==
  /\ ExecuteNext
  /\ delivered' = Nothing
  /\ UNCHANGED <<failing, sessions, queue, conn, reads, outages, calm>>

\* request_*(): the worker pushes the next command.
PushNext ==
  /\ todo # <<>>
  /\ Push(Head(todo))
  /\ todo' = Tail(todo)
  /\ delivered' = Nothing
  /\ UNCHANGED <<db, failing, tasks, sessions, conn, reads, outages, calm>>

Obey ==
  R!Obey /\ UNCHANGED <<db, failing, tasks, todo, conn, reads, outages, calm>>

-----------------------------------------------------------------------------
(* The database.                                                           *)

DatabaseFails ==
  /\ ~failing
  /\ outages < MaxOutages
  /\ failing' = TRUE
  /\ outages' = outages + 1
  /\ calm' = {}
  /\ delivered' = Nothing
  /\ UNCHANGED <<db, tasks, todo, sessions, queue, conn, reads>>

DatabaseRecovers ==
  /\ failing
  /\ failing' = FALSE
  /\ delivered' = Nothing
  /\ UNCHANGED <<db, tasks, todo, sessions, queue, conn, reads, outages, calm>>

Next ==
  \/ \E fd \in Fds :
       \/ Connect(fd)
       \/ Hangup(fd)
       \/ \E cmd \in Script \cap ClientCommands : ReadCommand(fd, cmd)
       \/ Echo(fd)
  \/ ExecuteTask
  \/ PushNext
  \/ Obey
  \/ DatabaseFails
  \/ DatabaseRecovers

\* The worker and the loop go on as long as they have something to do; what
\* clients do is up to them.
Fairness == WF_vars(ExecuteTask) /\ WF_vars(PushNext) /\ WF_vars(Obey)

Spec == Init /\ [][Next]_vars
FairSpec == Spec /\ Fairness

-----------------------------------------------------------------------------
(* Properties.                                                             *)

\* Queues hold commands of the registry and tasks of connections that exist
\* or existed.
TypeOK ==
  /\ queue \in Seq(Commands)
  /\ todo \in Seq(WorkerCommands)
  /\ tasks \in Seq(Tasks)
  /\ \A i \in DOMAIN tasks : /\ tasks[i].conn <= conn[tasks[i].fd]
                            /\ tasks[i].number <= reads
  /\ DOMAIN sessions \subseteq Fds
  /\ sessions \in [DOMAIN sessions -> SessionStates]
  /\ conn \in [Fds -> 0..MaxConns]
  /\ reads \in 0..MaxReads
  /\ outages \in 0..MaxOutages
  /\ failing \in BOOLEAN
  /\ calm \subseteq Fds

\* A client that reads "login success" is logged in, under the id it sent:
\* db_executor pushes the identity before the reply.  So the first command a
\* client sends after reading it carries the new user_id.
LoginSuccess ==
  \A fd \in DOMAIN delivered :
    LET line == delivered[fd] IN
    /\ line.kind = "response"
    /\ line.text.says = "login success"
    /\ line.text.task.conn = conn[fd]
    => sessions[fd].user_id = line.text.task.cmd.id

\* A reply from the worker.
IsReply(cmd) == cmd.op = "send_one" /\ cmd.text.says # "echo"

SameAsker(t, u) == t.fd = u.fd /\ t.conn = u.conn

\* A connection is answered in the order it asked: clients match replies to
\* commands by nothing but their order.  The replies under way, pushed or to
\* be pushed, are in that order, and older than what is not executed yet.
RepliesInOrder ==
  LET ahead == queue \o todo IN
  \A i \in DOMAIN ahead :
    IsReply(ahead[i]) =>
      LET t == ahead[i].text.task IN
      /\ \A j \in DOMAIN ahead :
           i < j /\ IsReply(ahead[j]) /\ SameAsker(t, ahead[j].text.task)
             => t.number <= ahead[j].text.task.number
      /\ \A j \in DOMAIN tasks :
           SameAsker(t, tasks[j]) => t.number < tasks[j].number

\* A room message is delivered to nobody but members of the room, as of the
\* moment it was stored: whoever left or logged out before is not listed in
\* the index any more when it is broadcast.  The sessions meant are those
\* that nothing disturbed (calm): opened while the database worked and
\* nothing was left of an earlier connection on their descriptor, with no
\* failure since, and no command read while a login was unanswered.
RoomMessagesStayInRoom ==
  \A fd \in DOMAIN delivered \cap calm :
    LET line == delivered[fd] IN
    line.kind = "room" => sessions[fd].user_id \in line.text.members

AtRest == tasks = <<>> /\ todo = <<>> /\ queue = <<>>

\* When nothing is under way, every session of a member of a room will hear
\* what is said in it, whatever session joined, left or logged in.  Again the
\* sessions meant are the calm ones: on a descriptor that was handed over with
\* nothing under way, with no failure of the database since, and no command
\* read while a login was unanswered.  An owner is left out: create_room
\* refreshes only the session that asked.
MembersHear ==
  AtRest =>
    \A fd \in DOMAIN sessions \cap calm, r \in DOMAIN db.rooms :
      /\ Db!Member(db, r, sessions[fd].user_id)
      /\ db.rooms[r] # sessions[fd].user_id
      => r \in sessions[fd].rooms

\* number was read from the present connection on fd and is not executed yet.
Asked(fd, number) ==
  \E i \in DOMAIN tasks :
    /\ tasks[i].number = number
    /\ tasks[i].fd = fd
    /\ tasks[i].conn = conn[fd]
    /\ tasks[i].cmd.op # "say"

Answered(fd, number) ==
  /\ fd \in DOMAIN delivered
  /\ \/ delivered[fd].kind = "friends"
     \/ delivered[fd].text.task.number = number

\* Every command but say is answered, unless the connection ends first.
\* (A stored message is not acknowledged; friends lines name no task.)
EveryTaskAnswered ==
  \A fd \in Fds, number \in 1..MaxReads :
    Asked(fd, number) ~> (Answered(fd, number) \/ ~Open(fd))

=============================================================================
