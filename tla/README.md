# Verification of the chat server

TLA+ modules that model the server and the client of this repository, TLC
configurations that check them on small instances, and TLAPS proofs of what holds for every value
of the constants. Paths below are relative to the root of the repository.

## The system

A TLS chat server with accounts, friends and rooms. Four kinds of threads:

* the **acceptor** (`src/server/epoll_acceptor.cpp`) accepts sockets and hands
  each descriptor to the registry inside a `register_command`;
* the **event loop** (`src/reactor/event_loop.cpp`) waits in `epoll_wait()`,
  runs `epoll_registry::work()`, which handles the commands queued for it, and
  gives the events to the handlers of `epoll_server`;
* the **database worker** (`src/database/db_executor.cpp`; one, by the default
  of the constructor) executes the clients' commands one after the other against
  PostgreSQL and pushes commands for the registry: replies, identities, room
  lists, broadcasts;
* the **main thread** with the signal waiter, which asks the others to stop.

Only the loop thread touches sessions. Everybody else pushes commands under a
mutex and writes to an eventfd. A task of the worker carries a copy of the
session's `user_id` and the bare descriptor number.

The client has two threads besides `main()`: an **io worker**
(`src/client/chat_io_worker.cpp`) that polls stdin and the socket, and an
**executor** (`src/client/chat_executor.cpp`) that shows replies and keeps the
`logged_in` flag the io worker lets commands through by. Client and server share
the buffers, the TLS session, the line parser and the codec.

| component | state | operations | hard about it |
|---|---|---|---|
| session registry | `infos`, `room_online_fds`, `user_online_fds`, `cmd_q` | nine `handle_command()`s, `register_fd`, `unregister_fd`, `append_send` | indexes against sessions, commands that name a descriptor number, sessions lost half-way through a broadcast |
| event loop, wakeup | place in the loop, the batch of events, the eventfd, the stop token | wait, consume, swap, handle, dispatch | lost wakeups, stale events, stop against sleep |
| database service | eight tables' worth of rows | sixteen transactions | two writes in one operation, in-doubt commits, cascades |
| database executor | `tasks`, what is left to push | sixteen `execute_command()`s | order of pushes, snapshots that age, refreshes that fail |
| socket handlers | `is_closed`, interest, buffers | receive, send, execute, close, error | closing at any moment, arming of EPOLLOUT, lines left in a buffer epoll does not report |
| TLS sessions | handshake and close flags, the record that waits | handshake, read, write, shutdown | WANT_READ / WANT_WRITE against epoll interest, retried writes |
| buffers, codec | bytes and an offset; fields | append, cut a line, compact; encode, decode | boundaries, a stream cut anywhere |
| server lifecycle | stop flag, first error, threads, members | run, signal_stop, join, drain, destroy | who stops whom, what is gone when |
| client | `logged_in`, selected room, queue of replies | stdin, socket, replies, stop | replies racing commands, input before the handshake, a notification without its mutex |

What makes each correct: the indexes always agree with the sessions and every
descriptor has one owner; the loop never sleeps on work and never serves an event
to a stranger; the tables stay consistent and membership consensual; replies are
in order, tell the truth, and come; room messages reach members and nobody else;
the byte stream is exact and cut into the same commands at the other end; a
connection neither forgets what it has to send nor what it has read; a stop ends
the process and nothing is used after it is gone; the client's gate follows the
server.

## Modules

    Presence  <==implements==  EpollRegistry  <==refines==  EventLoop
       |                        |  RegistryCommands, OnlineIndex
       |                        +- EpollRegistryProofs, EventLoopProofs
    ChatServer --- DbExecutor --- DbService --- DbServiceProofs
       +- ChatServerProofs
    Wire --- Codec --- OffsetBuffer        TlsSession --- OffsetBuffer
       +- WireProofs                          +- TlsSessionProofs
    ServerLifecycle --- ServerLifecycleProofs        ChatClient --- ChatClientProofs

* **RegistryCommands**: the alternatives of `epoll_registry::command` and the
  lines they put into send buffers. `broadcast_command` is absent: only branches
  that `is_db_command()` makes unreachable push it.
* **OnlineIndex**: the maps from a room or user to descriptors, with inserting
  and erasing that drops empty entries.
* **Presence** (abstract): sessions and one queue. Every question ("who is in this
  room", "is he online") is answered by looking at all sessions.
* **EpollRegistry**: `src/reactor/epoll_registry.cpp`. One push is one action
  (`Accept`, `Request`, `Disconnect`), one handled command is one action
  (`HandleX`). `infos` and the indexes belong to the loop thread, so nobody sees a
  half-handled command. A failing `epoll_ctl()` in `append_send()` removes a
  session in the middle of any send.
* **EventLoop**: extends EpollRegistry with the order of `event_loop::run()`,
  and separates what other threads can fall between: the push and the wakeup;
  the consume, the swap and the handling in `work()`; the flag and the callback of
  a stop. An event is handled in the code's order (`Receive`, `Send`, then `Respond` for
  every "response" a client sent, which the loop pushes itself and wakes itself for);
  `current` is the session whose event it is. `conn` counts the connections a
  descriptor number has served.
* **DbService**: `src/database/db_service.cpp` over the schema of
  `scripts/migrate_db_schema.sh`. An operation is the set of its outcomes (tables
  afterwards, answer, value), because it is one transaction under a mutex. Every
  transaction may also report an error, with or without having been committed
  (`pqxx::in_doubt_error`); sequences keep what a failed transaction drew. `given_up`
  is a history of the ids of deleted rooms.
* **DbExecutor**: all sixteen `execute_command()`s. A task is executed in one step
  against the tables (the one worker is the only caller of the service) and leaves
  the list of commands it pushes; they are pushed one by one.
* **ChatServer**: connections, the executor and Presence put together: connect,
  hang up, read a command, execute, push, obey. Descriptor numbers are used again,
  clients pipeline, and the database begins to fail and recovers (`failing`) at any
  moment. `calm` is a history: the descriptors whose latest connection nothing has
  disturbed (see "Where the code needs its assumptions").
* **OffsetBuffer**: `offset_buffer`, `send_buffer`, `recv_buffer` of
  `src/net/io_helper.cpp` and `src/protocol/line_parser.cpp` as operators on a
  string and an offset. `CompactAt` is 8192 in the code.
* **Codec**: `src/protocol/command_codec.cpp`. A line is a sequence of symbols, the
  name of a command being one; fields lie between carriage returns. `IsCommand` is the
  variant of `command_codec.hpp`.
* **Wire**: one direction of a connection: encode, `flush_send()`, a stream that
  is cut anywhere, `drain_recv()`, `parse_line()`, `decode()`.
* **TlsSession**: one connection of the server, one step for each TLS call the
  handlers of `src/server/epoll_server.cpp` make (`HandshakeX`, `ReadX`, `WriteX`, by
  their outcome), so that the peer and the kernel move in between. `pc` is where the
  loop thread is: `wait`, `work`, then the handlers the loop calls for the event
  in their order, `recv`/`drain`, `send`/`flush`, `exec` or `error`. The kernel's
  buffers, the SSL object's record and the peer are modelled from what the code
  relies on (partial writes, moving buffers, level-triggered epoll).
* **ServerLifecycle**: `epoll_server::run()`, `main()` with the signal waiter, the
  acceptor's and the loop's own `run()`, and the destruction of the members with
  `db_executor::stop()`. One action for each step between which another thread can
  fall; `signal_stop()` is two, the flag and the notification.
* **ChatClient**: `chat_client::run()`, `chat_io_worker::run()` and
  `chat_executor::run()`. `io` names the part of the poll round. The wait on the
  executor's condition variable is two steps, the predicate and the sleep, because
  its stop is notified without the mutex; `main()`'s wait is one, because
  `signal_stop()` sets the flag under the mutex. The calls of the io worker may fail
  (`IoFails`): the first handshake, `poll()` and `read()` at any time, the socket once
  the server is gone. stdin may end inside a line (`unended`). The server's side
  (`ServerTakes`, `ServerClears`) is the login of `db_executor.cpp`.
* **MC\*** modules and `.cfg` files: the instances. **\*Proofs**: the theorems.

Definitions whose comment begins with "Fault:" are deliberately wrong variants
of the definition that follows them. No specification uses them; putting one in
the place of the right definition must violate a property, which shows that the
property can fail.

## What is checked

| run | instance | what it shows |
|---|---|---|
| `MCEpollRegistry.cfg` | 2 descriptors, 2 users, room 1 and the never indexed 0, every kind of command, 2 commands in the queues | type invariant; both indexes exact, no empty entries; one owner per descriptor; bytes to send are always armed; an unregister command meets the session that asked; the registry implements Presence |
| `MCEventLoop.cfg` | 2 descriptors serving 2 connections each, 3 pushing threads | no lost wakeup; no event for a stranger; every command handled; a stop ends the loop |
| `MCDbService.cfg` | 3 users, 1 room, 1 message | references, ownership, consent, invitations |
| `MCDbRooms.cfg` | 2 users, 2 rooms, 2 messages | the id of a deleted room never names a room again |
| `MCChatLogin.cfg` | 1 descriptor serving 2 connections, 3 commands pipelined or not, a database that fails and recovers | "login success" is true; replies in order |
| `MCChatRooms.cfg` | 3 sessions of 2 users; 2 sessions and a database that fails and recovers; 2 sessions one of whose numbers is used again; each with 2 commands. The owner's session with 3. All about rooms and logins, pipelined or not | room messages stay in the room; members hear |
| `MCChatAnswers.cfg` | every command, 2 of them pipelined, a database that fails and recovers | every command is answered |
| `MCWire.cfg` | 3 commands of 0 to 2 arguments, well-formed or not, compaction at 4 bytes | the stream is exact; commands arrive as they were sent; finished bytes are few |
| `MCTlsSession.cfg` | 2 replies of 3 bytes, records of 2, a kernel that holds 2, 2 data records of the peer, close, reset and garbage | replies byte for byte; a retried write offers the record; EPOLLOUT armed exactly when needed; replies arrive; lines are executed |
| `MCServerLifecycle.cfg` | 2 connections for 1 descriptor, 1 worker, 1 task, a signal, failures of both threads | nothing outlives what it uses; queued tasks are executed; a stop ends the server; waiting connections are taken |
| `MCChatClient.cfg` | 3 lines of login, room selection and text, a kernel that holds 1 command, a server that may close | gate agrees with the server; typed commands are sent; replies are shown; the end of stdin ends the io thread |
| `MCChatClientStop.cfg` | 1 line | **violated**: the client need not exit, see Findings |

Why the bounds are enough. Registry: interactions are between two sessions and
between two commands; a stale number needs one to be closed and one to be
registered, which fits in two commands, and longer backlogs are covered by the
proofs, which have no bound. Event loop: one stale and one fresh connection per
number. Rooms: an outsider, a member and an owner; two sessions of one user are
what a refresh of only one of them needs to go wrong; one room may be created for each
command read, which is why `MCRooms` goes to 4; one outage is enough, for it may begin
and end at any place; each of the three disturbances violates a property within these
bounds if `calm` does not leave it out; `MCChatAnswers` names rooms 0 to 2, the
invalid text, the room there is and one there is not or not yet; the starts of the chat runs
are tables that sign-ups, an accepted request and an invitation leave, with the
sessions they leave. Wire: with compaction at 4 bytes each of clearing, compaction and
neither happens in both buffers, at every position of the offset. TLS: a reply is one
record and a part of another, and the kernel holds fewer than the replies make, so that a record waits while a second reply is
appended and the finished bytes are compacted; the peer's records hold a part of a
line, a line, and the end of one with a whole one. Lifecycle: one worker is what
the constructor starts; two connections for one descriptor make `accept4()` fail. Client:
one login and its reply in each direction, a second login that overtakes it, and a
kernel that takes one command at a time. `MaxQueue`, `MaxRooms`, `MaxMessages`, `MaxConns`,
`MaxReads`, `MaxOutages`, `MaxCommands`, `MaxReplies`, `MaxSends`, `MaxTasks` and `MaxLines` are the
only bounds; all stand in guards of what the environment may
start, none in a guard of what the server does with it. `CHECK_DEADLOCK FALSE`
is set where the environment may have nothing left to do and where the loop ends.

Symmetry is used only in runs without liveness, over descriptors and users that
nothing compares but for equality.

Fairness. `EventLoop`: a thread that has pushed goes on to wake the loop, and the
loop thread runs; sockets need not become ready. `ChatServer`: the worker executes
and pushes, and commands are obeyed, as long as there are any (`worker_loop()`
waits on nothing else, and `EventLoop` shows that the loop does). `TlsSession`: the
loop thread runs, and a peer takes what the kernel holds for it; without that no reply
could arrive, and nothing else is asked of it. `ServerLifecycle`: every thread runs;
nothing need fail, no client need send or leave (`ConnectionsAreTaken` says what follows
if descriptors become free). `ChatClient`: its threads run and the server serves while
it is there; nobody need type or close. Beyond that, clients, peers and the database's
outcomes are never assumed to do anything.

## What is proved

For every set of descriptors, users, rooms and commands, queues of any length, any
number of workers, lines and connections, and buffers and records of any size. Each
theorem goes by an inductive invariant, which TLC has checked on the small instance
first; where the property itself is not inductive, what it needs in addition is named.

* `EpollRegistryProofs`
  * `TypeCorrect`; `IndexesExact` (`UserIndexExact`, `RoomIndexExact`,
    `NoGhostEntries`) and its parts `RoomIndexIsExact` and `NoGhosts`: inductive with
    the types, whether or not a descriptor number was used again.
  * `DescriptorsOwned` (`FdOwnership`, `UnregisterMeetsItsSession`) and its part
    `UnregisterMeetsItsOwn`. The two queues are taken as one, `Backlog`. That an
    unregister command meets its session is inductive only together with ownership:
    a number that is handed out again has no session, and its register command
    stands behind every unregister command for it.
  * `PendingIsArmed` (`PendingArmed`): by itself, over the types.
  * `RegistryImplementsPresence` (`ImplementsPresence`): the initial state maps to
    Presence's, a push to giving a command, the swap and what the socket handlers do
    to nothing, and each `HandleX` to obeying the oldest command. The lookups of the
    two sides agree (`LookupsAgree`) because the indexes are exact and hold no empty
    entry; that is where `IndexesExact` is needed.
* `EventLoopProofs`: `LoopImplementsRegistry`, so the above holds under the real
  order of steps, up to Presence; `WakeupsAreNotLost`, from the invariant that outside
  "consumed, not yet swapped" a non-empty queue has a wakeup on its way;
  `EventsReachTheirConnection`, from `EventInv`: what is swapped out contains no
  register command for a number an event names, by ownership, and unregister
  commands for all sessions that were disconnected before.
* `DbServiceProofs`: `TablesTyped` (`TypeOK`); `TablesConsistent` (`ReferencesHold`,
  `OwnerIsMember`, `FriendsByConsent`) and its parts `OwnersStay` and
  `FriendsConsent`; `NoRoomInheritsAnId` (`RoomIdsNotReused`); the action property
  `NobodyComesUninvited` (`MembersAreInvited`). One lemma per operation. The invariant
  `Consistent` adds the types of the rows the operations touch, and that requests have
  accounts. An outcome that is not committed keeps the sequences and loses the rest.
  `NoRoomInheritsAnId` goes by its own invariant: all ids in `given_up` are below
  `next_room`, which no operation moves back, and name no room. That drawing from an
  identity column moves it on is taken from PostgreSQL; that no operation, committed,
  failed or in doubt, moves it back or brings a room back is what is proved.
* `WireProofs`
  * `StreamIsExact` (`StreamExact`) and `BuffersHoldLittle` (`DoneBytesBounded`): the
    inductive invariant is their conjunction with the types of the buffers; one lemma
    for each buffer operation says what it does to the unread bytes and to the
    finished ones.
  * `CommandsArriveAsSent` (`ReceivedAsSent`), from `ArrivalInv`: the newlines of the
    commands stand at certain places of the encoded bytes (`Lines`), the bytes taken
    end at one of them, and what has been received is what the lines up to there decode
    to. A newline occurs nowhere else, so the next line cut off is the next command's
    (`NextLine`). `WellFormedDecodes` works out the fields of an encoded command,
    `FieldsTyped` what every field is. `Decoded` is recursive over the lines; the three
    facts the proof needs of it (it exists, it steps, more lines do not change it) come
    from the least number of a set (`LeastNumber`, from the well-foundedness of `<`).
* `TlsSessionProofs`
  * `RetryIsAccepted` (`RetryOffersRecord`): the unread bytes begin with the record
    that waits, whatever is appended behind them or cut away before them.
  * `RepliesArriveIntact` (`RepliesExact`) needs that, because a retried write sends
    the record and moves the offset over what is in the buffer. Each step says where
    the replies are cut next: a record that goes out adds a place, one that the peer
    reads takes the first away.
  * `WaitsArmed` (`ArmedToWrite`), from `ArmedInv`: a handler may find EPOLLOUT armed
    for nothing until it syncs the interest, but never bytes without EPOLLOUT; and a
    write that waited leaves bytes, so `want_write` is not set when `flush_send()`
    finds none.
* `ServerLifecycleProofs`: `ThreadsUseWhatExists` (`ObjectsOutliveThreads`) and
  `NoAcceptedTaskIsDropped` (`AcceptedTasksAreExecuted`), from `EndInv`: who has been
  joined has ended, `db_pool` goes only when its workers are done, and the tasks
  accepted are those executed, in hand and queued.
* `ChatClientProofs`: `FlagFollowsSession` (`GateAgrees`), from `FlagInv`: the replies
  on their way lead from the flag to the session; `TypedIsSent` (`CommandsArrive`), from
  `LeavingInv`; `HandedOverIsShown` (`RepliesShown`), from `StopInv`: only the io
  thread stops the client, and the executor leaves with an empty queue.
* `ChatServerProofs`. What is in the queue and what the worker has still to push is
  one sequence, `Ahead`: a push moves nothing in it, the worker adds at its end, the
  acceptor and the loop insert before the worker's part, the loop takes the first away.
  The sixteen `execute_command()`s are gone through once per part of the invariant, and
  each part needs those before it.
  * `TypeCorrect` (`TypeOK`), from `Typed`: with the types go what the operations rely on
    about the tables (`Tables`), and that there are ids for all rooms the commands
    left can create.
  * `RepliesAreInOrder` (`RepliesInOrder`), from `Orderly`: the numbers of one asker's
    commands grow along `Ahead` and on to `tasks`. For this a connection has to be told
    from the earlier ones on its number.
  * `LoginSucceeds` (`LoginSuccess`), from `KnownSessions`: the last identity set on the
    number before a "login success" of its present connection is the one the reply
    speaks of, or the session has it already; and a number that is registered anew has
    no session, with only replies to earlier connections ahead of it.
  * `RoomMessagesReachMembersOnly` (`RoomMessagesStayInRoom`) and `MembersWillHear`
    (`MembersHear`), from `Listed`. Neither is near to inductive: sessions and tables
    disagree while commands are under way. The invariant speaks of the future instead:
    for every session there is a function that gives its user and its rooms after each
    command ahead (`Foretold`), such that at the end it is listed as the tables say
    (`Belongs`), the tasks from it will be executed as of the user it will then have
    (`AskedAs`), its user changes only while the answer to a login is ahead
    (`Settled`), and it is a member whenever a room message finds it listed
    (`HeardByMembers`). That is said of the descriptors in `calm` (`Foreseen`), and
    holds with three facts about them: nobody is calm while the database fails
    (`Spared`), a calm connection that is still to be registered has nothing of an
    earlier one ahead of it (`Fresh`), and no task of its session stands behind one
    of its logins (`LoginsLast`). The theorems assume nothing of any constant:
    numbers are used again, clients pipeline and the database fails and recovers.

Assumptions: `NamesAssumption`, `RequestsAssumption`, `QueueAssumption`,
`DbAssumption` (the empty string is no user, "guest" is a nickname, bounds are
numbers), `BufferAssumption` (the newline is a byte, the threshold positive),
`CodecAssumption` (command names and the separator are bytes of a line, and differ),
`SendableAssumption` (what is sent are the commands of `command_codec.hpp`, with no
newline in their strings: those come from lines, from literals without one, or from rows
that were stored out of either), `SizesAssumption` (a record and a
reply hold at least a byte: `encode()` ends every line with a newline),
`WorkersAssumption` (at least one worker, as the constructor of `db_executor` sees to),
`TextsAssumption` (what tasks make the registry send is text) and `StartsAssumption`:
ChatServer starts from any tables and sessions between which nothing is under way
(`Quiet`), with empty tables and no session as one of them, and with `Rooms` large
enough for the rooms that the commands to be read can create. Nothing else.

Every safety invariant and every action property of the runs is stated by a theorem.
Only model-checked is liveness (`CommandsAreHandled`, `StopEndsLoop`,
`EveryTaskAnswered`, `RepliesArrive`, `LinesAreExecuted`, `StopEndsServer`,
`ConnectionsAreTaken`, `EofEndsIo`), which is beyond the prover, as is ENABLED.

## Findings

`MCChatClientStop.cfg`: the client may hang when it closes.
`chat_executor::run()` installs a stop callback that calls `cv.notify_all()`
(`src/client/chat_executor.cpp:15`) without `mtx`, and waits with the plain `cv.wait()`
(lines 21-23). The executor evaluates its predicate, `request_stop()` sets the flag and
notifies, the executor goes to sleep: nobody wakes it again, and
`execute_thread.join()` (`src/client/chat_client.cpp:93`) waits for ever. The tests
expect the opposite (`scripts/test/test_tls_concurrent_longrun.sh:645`, "client did not
exit within close timeout"). Taking the mutex in the callback, or waiting on a
`condition_variable_any` with the stop token, closes the gap. The server's workers are
not affected: `db_executor::stop()` sets its flag under the mutex.

## Where the code needs its assumptions

Recorded as hazards, because no document of the repository promises otherwise:

* Three things may leave a session listed under rooms of which its user is not a member,
  or not listed under one of which he is. `calm` leaves out the sessions they happen to,
  and no others; `RoomMessagesStayInRoom` and `MembersHear` hold for all that remain.
  If any one of the three were not left out, one of them would be violated.
  * Registry commands from the worker name a descriptor number, not a connection. When
    the peer leaves and the number is used again while a task or command for it is
    under way, `set_user_id` or `set_joined_rooms` reach the next connection. (A
    number used again later is calm.)
  * A task copies `user_id` when it is read. A command read before an earlier login of
    the session is answered acts for the user before it, and `create_room` then puts his rooms
    on the session. (Pipelining anything else is calm.)
  * When `list_rooms()` fails after a committed change, the reply says success and the
    index keeps the old rooms until the next refresh. The sessions open when the
    database fails, or opened before it works again, are not calm; those opened
    after it are.
* `create_room` and `delete_room` refresh one session only. Other sessions of the
  owner do not hear a new room; members stay listed under a deleted one, which is
  harmless because its id never comes back (`RoomIdsNotReused`).
* After `friend_remove` the accepted request remains, and its sender is refused when
  he asks again, with "already exists or already friends".
* Lines that arrive together with the peer's close are dropped: `handle_recv()` returns
  false before the loop executes them (`ReadCloses`).
* On a database error "login failed" is sent before the session's identity is cleared
  (`clearing` in ChatClient).
* Replies of tasks that are drained after the loop has ended are pushed and never sent.
* A last line of stdin without a newline, and replies still on their way when the
  client ends at the end of its stdin, are dropped.
* An argument the user types may hold a carriage return; it then counts as two
  (`MCWire` sends such a command; the receiver rejects it or drops an empty field).
* Without a free descriptor the acceptor spins on the level-triggered listener. Buffers
  and queues have no upper bound and the handshake no time limit.

## Not modelled

Left out for good: configuration parsing, path lookup, logging, address formatting
and the RAII wrappers (no state that outlives a call); opening sockets, TLS contexts
and the database connection (I/O before anything runs concurrently); the
classification of TLS errors, which only the log shows; `tls_session::shutdown()`, whose
outcome changes nothing on the server; usage messages of the client; the thread pool,
which no command reaches; deployment and test scripts.

Abstracted, and where: ChatServer takes a command as one item (Wire and TlsSession have
its bytes); TlsSession has one connection (EventLoop and EpollRegistry have many);
ServerLifecycle has no commands but register and unregister; ChatClient's server only
answers. A failing `epoll_ctl()` is modelled in EpollRegistry alone.
