------------------------ MODULE EpollRegistryProofs ------------------------
(***************************************************************************)
(* Proofs about EpollRegistry, for any number of descriptors, users and    *)
(* rooms, any set of requests and any queue bound.                         *)
(***************************************************************************)
EXTENDS EpollRegistry, TLAPS

-----------------------------------------------------------------------------
(* What Insert and Erase do to an index, for every index and every set of  *)
(* pairs: the only facts about indexes used below.                         *)


\* Inserting lists exactly the inserted pairs in addition
\* (unordered_set::insert under operator[]).
LEMMA InsertListed ==
  ASSUME NEW idx, NEW K, NEW F, NEW pairs \in SUBSET (K \X F), NEW k, NEW fd
  PROVE  Listed(Insert(idx, pairs), k, fd)
           <=> Listed(idx, k, fd) \/ <<k, fd>> \in pairs
<1>1. ASSUME <<k, fd>> \in pairs
      PROVE  /\ k \in {p[1] : p \in pairs}
             /\ fd \in {p[2] : p \in {q \in pairs : q[1] = k}}
  BY <1>1
<1>2. ASSUME fd \in {p[2] : p \in {q \in pairs : q[1] = k}}
      PROVE  <<k, fd>> \in pairs
  BY <1>2
<1>3. DOMAIN Insert(idx, pairs) = DOMAIN idx \cup {p[1] : p \in pairs}
  BY DEF Insert
<1>4. ASSUME k \in DOMAIN Insert(idx, pairs)
      PROVE  Insert(idx, pairs)[k]
               = Entry(idx, k) \cup {p[2] : p \in {q \in pairs : q[1] = k}}
  BY <1>3, <1>4 DEF Insert
<1> QED
  BY <1>1, <1>2, <1>3, <1>4 DEF Listed, Entry

\* Erasing unlists exactly the erased pairs.
LEMMA EraseListed ==
  ASSUME NEW idx, NEW pairs, NEW k, NEW fd
  PROVE  Listed(Erase(idx, pairs), k, fd)
           <=> Listed(idx, k, fd) /\ <<k, fd>> \notin pairs
  BY DEF Listed, Erase

\* Inserting never creates an entry without descriptors.
LEMMA InsertNoEmptyEntry ==
  ASSUME NEW idx, NEW K, NEW F, NEW pairs \in SUBSET (K \X F),
         NoEmptyEntry(idx)
  PROVE  NoEmptyEntry(Insert(idx, pairs))
<1> SUFFICES ASSUME NEW k \in DOMAIN Insert(idx, pairs)
             PROVE  Insert(idx, pairs)[k] # {}
  BY DEF NoEmptyEntry
<1>1. CASE k \in DOMAIN idx
  BY <1>1 DEF Insert, Entry, NoEmptyEntry
<1>2. CASE k \notin DOMAIN idx
  <2>1. PICK p \in pairs : p[1] = k
    BY <1>2 DEF Insert
  <2>2. <<k, p[2]>> \in pairs
    BY <2>1
  <2>3. Listed(Insert(idx, pairs), k, p[2])
    BY <2>2, InsertListed
  <2> QED
    BY <2>3 DEF Listed
<1> QED
  BY <1>1, <1>2

\* Erasing removes the entry it empties.
LEMMA EraseNoEmptyEntry ==
  ASSUME NEW idx, NEW pairs, NoEmptyEntry(idx)
  PROVE  NoEmptyEntry(Erase(idx, pairs))
<1> SUFFICES ASSUME NEW k \in DOMAIN Erase(idx, pairs)
             PROVE  Erase(idx, pairs)[k] # {}
  BY DEF NoEmptyEntry
<1>1. k \in DOMAIN idx /\ idx[k] # {}
  BY DEF Erase, NoEmptyEntry
<1>2. CASE \E p \in pairs : p[1] = k
  BY <1>2 DEF Erase
<1>3. CASE ~ \E p \in pairs : p[1] = k
  <2>1. Erase(idx, pairs)[k] = {fd \in idx[k] : <<k, fd>> \notin pairs}
    BY DEF Erase
  <2>2. \A fd \in idx[k] : <<k, fd>> \notin pairs
    <3> SUFFICES ASSUME NEW fd \in idx[k], <<k, fd>> \in pairs PROVE FALSE
      OBVIOUS
    <3>1. <<k, fd>>[1] = k
      OBVIOUS
    <3> QED
      BY <3>1, <1>3
  <2> QED
    BY <1>1, <2>1, <2>2
<1> QED
  BY <1>2, <1>3

\* Both keep the index an index over the same keys and descriptors.
LEMMA InsertType ==
  ASSUME NEW K, NEW F, NEW idx, IndexOver(idx, K, F),
         NEW pairs \in SUBSET (K \X F)
  PROVE  IndexOver(Insert(idx, pairs), K, F)
<1>1. \A p \in pairs : p[1] \in K /\ p[2] \in F
  OBVIOUS
<1>2. DOMAIN Insert(idx, pairs) = DOMAIN idx \cup {p[1] : p \in pairs}
  BY DEF Insert
<1>3. ASSUME NEW k \in DOMAIN Insert(idx, pairs)
      PROVE  Insert(idx, pairs)[k] \in SUBSET F
  BY <1>1 DEF Insert, Entry, IndexOver
<1>4. Insert(idx, pairs) \in [DOMAIN Insert(idx, pairs) -> SUBSET F]
  <2>1. Insert(idx, pairs) =
          [k \in DOMAIN Insert(idx, pairs) |-> Insert(idx, pairs)[k]]
    BY DEF Insert
  <2> QED
    BY <1>3, <2>1
<1> QED
  BY <1>1, <1>2, <1>4 DEF IndexOver

LEMMA EraseType ==
  ASSUME NEW K, NEW F, NEW idx, IndexOver(idx, K, F), NEW pairs
  PROVE  IndexOver(Erase(idx, pairs), K, F)
  BY DEF IndexOver, Erase

-----------------------------------------------------------------------------
(* The fields a command has, by its kind.                                  *)

LEMMA CommandFields ==
  ASSUME NEW cmd \in Commands
  PROVE  /\ cmd.op # "set_joined_rooms_for_user" => cmd.fd \in Fds
         /\ cmd.op = "change_nickname" => cmd.nick \in Nicks
         /\ cmd.op = "set_user_id" => cmd.user_id \in Users \cup {Empty}
         /\ cmd.op \in {"set_joined_rooms", "set_joined_rooms_for_user"}
              => cmd.room_ids \in SUBSET Rooms
         /\ cmd.op = "set_joined_rooms_for_user" => cmd.user_id \in Users
         /\ cmd.op = "send_friend_list" => cmd.friend_ids \in SUBSET Users
         /\ cmd.op = "room_broadcast" => cmd.room_id \in Rooms
         /\ cmd.op \in {"send_one", "room_broadcast"} => cmd.text \in Texts
  BY DEF Commands, WorkerCommands

\* Taking a command hands out one of its kind and leaves a shorter queue.
LEMMA TakeType ==
  ASSUME TypeOK, NEW op, Take(op)
  PROVE  /\ Head(pending_cmd) \in Commands
         /\ Head(pending_cmd).op = op
         /\ pending_cmd' \in Seq(Commands)
         /\ cmd_q' \in Seq(Commands)
  BY DEF TypeOK, Take

\* The pairs a set of sessions has in the indexes.
LEMMA PairsOf ==
  ASSUME TypeOK, NEW fds \in SUBSET DOMAIN infos
  PROVE  /\ RoomPairs(fds) \in SUBSET (Rooms \X Fds)
         /\ UserPairs(fds) \in SUBSET (Users \X Fds)
         /\ \A r \in Rooms, fd \in Fds : <<r, fd>> \in RoomPairs(fds)
              <=> fd \in fds /\ r \in infos[fd].joined_room_ids
         /\ \A u \in Users, fd \in Fds : <<u, fd>> \in UserPairs(fds)
              <=> fd \in fds /\ u = infos[fd].user_id
  BY DEF TypeOK, RoomPairs, UserPairs


-----------------------------------------------------------------------------
(* The helpers of the handlers keep the types.                             *)

LEMMA ForgetType ==
  ASSUME TypeOK, NEW fds \in SUBSET DOMAIN infos, Forget(fds)
  PROVE  /\ open_fds' \subseteq Fds
         /\ IndexOver(room_online_fds', Rooms, Fds)
         /\ IndexOver(user_online_fds', Users, Fds)
  BY EraseType DEF TypeOK, Forget

LEMMA AppendSendType ==
  ASSUME TypeOK, NEW targets \in SUBSET DOMAIN infos,
         NEW failed \in SUBSET targets, AppendSend(targets, failed)
  PROVE  /\ DOMAIN infos' \subseteq Fds
         /\ infos' \in [DOMAIN infos' -> SocketInfo]
         /\ open_fds' \subseteq Fds
         /\ IndexOver(room_online_fds', Rooms, Fds)
         /\ IndexOver(user_online_fds', Users, Fds)
<1>1. Forget(failed) /\ failed \in SUBSET DOMAIN infos
  BY DEF AppendSend
<1>2. DOMAIN infos' = DOMAIN infos \ failed
  BY DEF AppendSend
<1>3. ASSUME NEW fd \in DOMAIN infos' PROVE infos'[fd] \in SocketInfo
  <2>1. infos[fd] \in SocketInfo
    BY <1>2, <1>3 DEF TypeOK
  <2>2. CASE fd \in targets
    <3>1. infos'[fd] = [infos[fd] EXCEPT !.has_pending = TRUE,
                          !.epollout = @ \/ ~infos[fd].has_pending]
      BY <1>2, <2>2 DEF AppendSend
    <3> QED
      BY <2>1, <3>1 DEF SocketInfo
  <2>3. CASE fd \notin targets
    BY <1>2, <2>1, <2>3 DEF AppendSend
  <2> QED
    BY <2>2, <2>3
<1>4. infos' = [fd \in DOMAIN infos' |-> infos'[fd]]
  BY DEF AppendSend
<1> QED
  BY <1>1, <1>2, <1>3, <1>4, ForgetType DEF TypeOK

LEMMA SetFdJoinedRoomsType ==
  ASSUME TypeOK, NEW fds \in SUBSET DOMAIN infos, NEW room_ids \in SUBSET Rooms,
         SetFdJoinedRooms(fds, room_ids)
  PROVE  /\ DOMAIN infos' = DOMAIN infos
         /\ infos' \in [DOMAIN infos' -> SocketInfo]
         /\ IndexOver(room_online_fds', Rooms, Fds)
<1> DEFINE joined == {r \in room_ids : r > 0}
<1>1. joined \in SUBSET Rooms /\ joined \X fds \in SUBSET (Rooms \X Fds)
  BY DEF TypeOK
<1>2. IndexOver(room_online_fds', Rooms, Fds)
  <2>1. room_online_fds' =
          Insert(Erase(room_online_fds, RoomPairs(fds)), joined \X fds)
    BY DEF SetFdJoinedRooms
  <2>2. IndexOver(Erase(room_online_fds, RoomPairs(fds)), Rooms, Fds)
    BY EraseType DEF TypeOK
  <2> HIDE DEF joined
  <2> QED
    BY <1>1, <2>1, <2>2, InsertType
<1>3. infos' = [fd \in DOMAIN infos |->
                  IF fd \in fds
                  THEN [infos[fd] EXCEPT !.joined_room_ids = joined]
                  ELSE infos[fd]]
  BY DEF SetFdJoinedRooms
<1> HIDE DEF joined
<1>4. DOMAIN infos' = DOMAIN infos
  BY <1>3
<1>5. ASSUME NEW fd \in DOMAIN infos
      PROVE  infos'[fd] \in SocketInfo
  <2>1. infos[fd] \in SocketInfo
    BY DEF TypeOK
  <2> QED
    BY <1>1, <1>3, <2>1 DEF SocketInfo
<1> QED
  BY <1>2, <1>3, <1>4, <1>5

-----------------------------------------------------------------------------
(* Type correctness.                                                       *)

LEMMA TypeInit == Init => TypeOK
<1> SUFFICES ASSUME Init PROVE TypeOK
  OBVIOUS
<1>1. infos = Nothing /\ delivered = Nothing
  BY DEF Init
<1>2. DOMAIN Nothing = {} /\ Nothing \in [{} -> SocketInfo] /\ Nothing \in [{} -> Lines]
  BY DEF Nothing
<1>3. IndexOver(EmptyIndex, Rooms, Fds) /\ IndexOver(EmptyIndex, Users, Fds)
  BY DEF IndexOver, EmptyIndex
<1> QED
  BY <1>1, <1>2, <1>3 DEF Init, TypeOK

LEMMA NothingType ==
  DOMAIN Nothing \subseteq Fds /\ Nothing \in [DOMAIN Nothing -> Lines]
  BY DEF Nothing

LEMMA PushType ==
  ASSUME TypeOK, NEW cmd \in Commands, Push(cmd)
  PROVE  cmd_q' \in Seq(Commands)
  BY DEF TypeOK, Push

LEMMA LineType ==
  ASSUME NEW text, NEW from, NEW online
  PROVE  /\ text \in Texts => Response(text) \in Lines
         /\ from \in Nicks /\ text \in Texts => Message(from, text) \in Lines
         /\ online \in SUBSET Users => FriendList(online) \in Lines
  BY DEF Response, Message, FriendList, Lines

LEMMA SenderNameType ==
  ASSUME TypeOK, NEW fd PROVE SenderName(fd) \in Nicks
  BY NamesAssumption DEF TypeOK, SenderName, SocketInfo

LEMMA TypeStep == TypeOK /\ [Next]_vars => TypeOK'
<1> SUFFICES ASSUME TypeOK, [Next]_vars PROVE TypeOK'
  OBVIOUS
<1> USE NothingType
<1>1. ASSUME NEW fd \in Fds, Accept(fd) PROVE TypeOK'
  <2>1. [op |-> "register", fd |-> fd] \in Commands
    BY DEF Commands
  <2> QED
    BY <1>1, <2>1, PushType DEF TypeOK, Accept
<1>2. ASSUME NEW fd \in Fds, Disconnect(fd) PROVE TypeOK'
  <2>1. [op |-> "unregister", fd |-> fd] \in Commands
    BY DEF Commands
  <2>2. DOMAIN infos' = DOMAIN infos /\ infos' \in [DOMAIN infos -> SocketInfo]
    BY <1>2 DEF Disconnect, TypeOK, SocketInfo
  <2> QED
    BY <1>2, <2>1, <2>2, PushType DEF TypeOK, Disconnect
<1>3. ASSUME NEW fd \in Fds, FlushSend(fd) PROVE TypeOK'
  <2>1. DOMAIN infos' = DOMAIN infos /\ infos' \in [DOMAIN infos -> SocketInfo]
    <3>1. PICK left \in BOOLEAN, needs_write \in BOOLEAN :
            infos' = [infos EXCEPT ![fd].has_pending = left,
                                   ![fd].epollout = left \/ needs_write]
      BY <1>3 DEF FlushSend
    <3>2. infos \in [DOMAIN infos -> SocketInfo] /\ fd \in DOMAIN infos
      BY <1>3 DEF TypeOK, FlushSend
    <3>3. (left \/ needs_write) \in BOOLEAN
      OBVIOUS
    <3> QED
      BY <3>1, <3>2, <3>3 DEF SocketInfo
  <2> QED
    BY <1>3, <2>1 DEF TypeOK, FlushSend
<1>4. ASSUME NEW cmd \in Requests, Request(cmd) PROVE TypeOK'
  <2>1. cmd \in Commands
    BY RequestsAssumption DEF Commands
  <2> QED
    BY <1>4, <2>1, PushType DEF TypeOK, Request, tables
<1>5. CASE Work
  BY <1>5 DEF TypeOK, Work, tables
<1>6. CASE HandleRegister
  <2>1. Head(pending_cmd).fd \in Fds
    BY <1>6, TakeType, CommandFields DEF HandleRegister
  <2>2. NewSession \in SocketInfo
    BY NamesAssumption DEF NewSession, SocketInfo
  <2>3. DOMAIN infos' \subseteq Fds /\ infos' \in [DOMAIN infos' -> SocketInfo]
    BY <1>6, <2>1, <2>2 DEF HandleRegister, TypeOK
  <2> QED
    BY <1>6, <2>1, <2>3, TakeType DEF TypeOK, HandleRegister
<1>7. CASE HandleUnregister
  <2> DEFINE fd == Head(pending_cmd).fd
  <2>1. CASE Ignore(fd)
    BY <1>7, <2>1, TakeType DEF TypeOK, HandleUnregister, Ignore, tables
  <2>2. CASE ~Ignore(fd)
    <3>1. Forget({fd}) /\ {fd} \in SUBSET DOMAIN infos
      BY <1>7, <2>2 DEF HandleUnregister
    <3>2. DOMAIN infos' \subseteq Fds /\ infos' \in [DOMAIN infos' -> SocketInfo]
      BY <1>7, <2>2 DEF HandleUnregister, TypeOK
    <3> QED
      BY <1>7, <3>1, <3>2, ForgetType, TakeType DEF TypeOK, HandleUnregister
  <2> QED
    BY <2>1, <2>2
<1>8. CASE HandleSendOne
  <2> DEFINE cmd == Head(pending_cmd)
             fd == cmd.fd
  <2>0. fd \in Fds /\ cmd.text \in Texts
    BY <1>8, TakeType, CommandFields DEF HandleSendOne
  <2>1. CASE Ignore(fd)
    BY <1>8, <2>1, TakeType DEF TypeOK, HandleSendOne, Ignore, tables
  <2>2. CASE ~Ignore(fd)
    <3>1. PICK failed \in SUBSET {fd} :
            /\ AppendSend({fd}, failed)
            /\ delivered' = [f \in {fd} \ failed |-> Response(cmd.text)]
      BY <1>8, <2>2 DEF HandleSendOne
    <3>2. fd \in DOMAIN infos
      BY <1>8, <2>2 DEF HandleSendOne
    <3>3. Response(cmd.text) \in Lines
      BY <2>0, LineType
    <3> QED
      BY <1>8, <2>0, <3>1, <3>2, <3>3, AppendSendType, TakeType
         DEF TypeOK, HandleSendOne
  <2> QED
    BY <2>1, <2>2
<1>9. CASE HandleChangeNickname
  <2> DEFINE cmd == Head(pending_cmd)
  <2>1. CASE Ignore(cmd.fd)
    BY <1>9, <2>1, TakeType DEF TypeOK, HandleChangeNickname, Ignore, tables
  <2>2. CASE ~Ignore(cmd.fd)
    <3>1. cmd.fd \in DOMAIN infos
          /\ infos' = [infos EXCEPT ![cmd.fd].nickname = cmd.nick]
      BY <1>9, <2>2 DEF HandleChangeNickname
    <3>2. cmd.nick \in Nicks
      BY <1>9, TakeType, CommandFields DEF HandleChangeNickname
    <3>3. DOMAIN infos' = DOMAIN infos /\ infos' \in [DOMAIN infos -> SocketInfo]
      BY <3>1, <3>2 DEF TypeOK, SocketInfo
    <3> QED
      BY <1>9, <2>2, <3>3, TakeType DEF TypeOK, HandleChangeNickname
  <2> QED
    BY <2>1, <2>2
<1>10. CASE HandleSetUserId
  <2> DEFINE cmd == Head(pending_cmd)
  <2>1. CASE Ignore(cmd.fd)
    BY <1>10, <2>1, TakeType DEF TypeOK, HandleSetUserId, Ignore, tables
  <2>2. CASE ~Ignore(cmd.fd)
    <3>1. cmd.fd \in DOMAIN infos /\ cmd.fd \in Fds
      BY <1>10, <2>2 DEF HandleSetUserId, TypeOK
    <3>2. cmd.user_id \in Users \cup {Empty}
      BY <1>10, TakeType, CommandFields DEF HandleSetUserId
    <3>3. infos' = [infos EXCEPT ![cmd.fd].user_id = cmd.user_id,
                                 ![cmd.fd].joined_room_ids = {}]
      BY <1>10, <2>2 DEF HandleSetUserId
    <3>4. DOMAIN infos' = DOMAIN infos /\ infos' \in [DOMAIN infos -> SocketInfo]
      BY <3>1, <3>2, <3>3 DEF TypeOK, SocketInfo
    <3>5. IndexOver(room_online_fds', Rooms, Fds)
      BY <1>10, <2>2, EraseType DEF TypeOK, HandleSetUserId
    <3>6. IndexOver(user_online_fds', Users, Fds)
      <4>1. IndexOver(Erase(user_online_fds, UserPairs({cmd.fd})), Users, Fds)
        BY EraseType DEF TypeOK
      <4>2. CASE cmd.user_id = Empty
        BY <1>10, <2>2, <4>1, <4>2 DEF HandleSetUserId
      <4>3. CASE cmd.user_id # Empty
        <5>1. {<<cmd.user_id, cmd.fd>>} \in SUBSET (Users \X Fds)
          BY <3>1, <3>2, <4>3
        <5>2. user_online_fds' =
                Insert(Erase(user_online_fds, UserPairs({cmd.fd})),
                       {<<cmd.user_id, cmd.fd>>})
          BY <1>10, <2>2, <4>3 DEF HandleSetUserId
        <5> HIDE DEF cmd
        <5> QED
          BY <4>1, <5>1, <5>2, InsertType
      <4> QED
        BY <4>2, <4>3
    <3> QED
      BY <1>10, <2>2, <3>4, <3>5, <3>6, TakeType DEF TypeOK, HandleSetUserId
  <2> QED
    BY <2>1, <2>2
<1>11. CASE HandleSetJoinedRooms
  <2> DEFINE cmd == Head(pending_cmd)
  <2>1. CASE Ignore(cmd.fd)
    BY <1>11, <2>1, TakeType DEF TypeOK, HandleSetJoinedRooms, Ignore, tables
  <2>2. CASE ~Ignore(cmd.fd)
    <3>1. {cmd.fd} \in SUBSET DOMAIN infos /\ SetFdJoinedRooms({cmd.fd}, cmd.room_ids)
      BY <1>11, <2>2 DEF HandleSetJoinedRooms
    <3>2. cmd.room_ids \in SUBSET Rooms
      BY <1>11, TakeType, CommandFields DEF HandleSetJoinedRooms
    <3> QED
      BY <1>11, <2>2, <3>1, <3>2, SetFdJoinedRoomsType, TakeType
         DEF TypeOK, HandleSetJoinedRooms
  <2> QED
    BY <2>1, <2>2
<1>12. CASE HandleSetJoinedRoomsForUser
  <2> DEFINE cmd == Head(pending_cmd)
             fds == Entry(user_online_fds, cmd.user_id) \cap DOMAIN infos
  <2>1. fds \in SUBSET DOMAIN infos /\ SetFdJoinedRooms(fds, cmd.room_ids)
    BY <1>12 DEF HandleSetJoinedRoomsForUser
  <2>2. cmd.room_ids \in SUBSET Rooms
    BY <1>12, TakeType, CommandFields DEF HandleSetJoinedRoomsForUser
  <2> QED
    BY <1>12, <2>1, <2>2, SetFdJoinedRoomsType, TakeType
       DEF TypeOK, HandleSetJoinedRoomsForUser
<1>13. CASE HandleSendFriendList
  <2> DEFINE cmd == Head(pending_cmd)
             fd == cmd.fd
             line == FriendList(cmd.friend_ids \cap DOMAIN user_online_fds)
  <2>0. fd \in Fds /\ cmd.friend_ids \in SUBSET Users
    BY <1>13, TakeType, CommandFields DEF HandleSendFriendList
  <2>1. CASE Ignore(fd)
    BY <1>13, <2>1, TakeType DEF TypeOK, HandleSendFriendList, Ignore, tables
  <2>2. CASE ~Ignore(fd)
    <3>1. PICK failed \in SUBSET {fd} :
            /\ AppendSend({fd}, failed)
            /\ delivered' = [f \in {fd} \ failed |-> line]
      BY <1>13, <2>2 DEF HandleSendFriendList
    <3>2. fd \in DOMAIN infos
      BY <1>13, <2>2 DEF HandleSendFriendList
    <3>3. line \in Lines
      BY <2>0, LineType
    <3> HIDE DEF line
    <3> QED
      BY <1>13, <2>0, <3>1, <3>2, <3>3, AppendSendType, TakeType
         DEF TypeOK, HandleSendFriendList
  <2> QED
    BY <2>1, <2>2
<1>14. CASE HandleRoomBroadcast
  <2> DEFINE cmd == Head(pending_cmd)
             targets == Entry(room_online_fds, cmd.room_id) \cap DOMAIN infos
             line == Message(SenderName(cmd.fd), cmd.text)
  <2>1. PICK failed \in SUBSET targets :
          /\ AppendSend(targets, failed)
          /\ delivered' = [f \in targets \ failed |-> line]
    BY <1>14 DEF HandleRoomBroadcast
  <2>2. line \in Lines
    BY <1>14, TakeType, CommandFields, SenderNameType, LineType
       DEF HandleRoomBroadcast
  <2>3. targets \in SUBSET DOMAIN infos
    OBVIOUS
  <2> HIDE DEF line, targets
  <2> QED
    BY <1>14, <2>1, <2>2, <2>3, AppendSendType, TakeType
       DEF TypeOK, HandleRoomBroadcast
<1>15. CASE UNCHANGED vars
  BY <1>15 DEF TypeOK, vars
<1> QED
  BY <1>1, <1>2, <1>3, <1>4, <1>5, <1>6, <1>7, <1>8, <1>9, <1>10, <1>11,
     <1>12, <1>13, <1>14, <1>15 DEF Next, HandleCommand

\* Every variable of the registry keeps the type of its C++ member, whatever
\* the other threads push and in whatever order.
THEOREM TypeCorrect == Spec => []TypeOK
<1> QED
  BY TypeInit, TypeStep, PTL DEF Spec

-----------------------------------------------------------------------------
(* The indexes.  TypeOK together with the three index properties is        *)
(* inductive: whether a descriptor number was reused does not matter here. *)

IndexInv == UserIndexExact /\ RoomIndexExact /\ NoGhostEntries

\* Unregistering some sessions, or none, and changing nothing of the others
\* that the indexes depend on.
LEMMA ForgetKeepsIndexes ==
  ASSUME TypeOK, TypeOK', IndexInv, NEW fds \in SUBSET DOMAIN infos,
         DOMAIN infos' = DOMAIN infos \ fds,
         \A fd \in DOMAIN infos' :
           /\ infos'[fd].user_id = infos[fd].user_id
           /\ infos'[fd].joined_room_ids = infos[fd].joined_room_ids,
         Forget(fds)
  PROVE  IndexInv'
<1>1. NoGhostEntries'
  BY EraseNoEmptyEntry DEF IndexInv, NoGhostEntries, Forget
<1>2. ASSUME NEW u \in Users, NEW fd \in Fds
      PROVE  Listed(user_online_fds, u, fd)'
               <=> fd \in DOMAIN infos' /\ infos'[fd].user_id = u
  <2>1. Listed(user_online_fds', u, fd)
          <=> Listed(user_online_fds, u, fd) /\ <<u, fd>> \notin UserPairs(fds)
    BY EraseListed DEF Forget
  <2>2. <<u, fd>> \in UserPairs(fds) <=> fd \in fds /\ u = infos[fd].user_id
    BY PairsOf
  <2> QED
    BY <2>1, <2>2 DEF IndexInv, UserIndexExact, Listed
<1>3. ASSUME NEW r \in Rooms, NEW fd \in Fds
      PROVE  Listed(room_online_fds, r, fd)'
               <=> fd \in DOMAIN infos' /\ r \in infos'[fd].joined_room_ids
  <2>1. Listed(room_online_fds', r, fd)
          <=> Listed(room_online_fds, r, fd) /\ <<r, fd>> \notin RoomPairs(fds)
    BY EraseListed DEF Forget
  <2>2. <<r, fd>> \in RoomPairs(fds) <=> fd \in fds /\ r \in infos[fd].joined_room_ids
    BY PairsOf
  <2> QED
    BY <2>1, <2>2 DEF IndexInv, RoomIndexExact, Listed
<1> QED
  BY <1>1, <1>2, <1>3 DEF IndexInv, UserIndexExact, RoomIndexExact

\* append_send(), with or without sessions lost on the way.
LEMMA AppendSendKeepsIndexes ==
  ASSUME TypeOK, TypeOK', IndexInv, NEW targets \in SUBSET DOMAIN infos,
         NEW failed \in SUBSET targets, AppendSend(targets, failed)
  PROVE  IndexInv'
<1>1. DOMAIN infos' = DOMAIN infos \ failed /\ Forget(failed)
  BY DEF AppendSend
<1>2. ASSUME NEW fd \in DOMAIN infos'
      PROVE  /\ infos'[fd].user_id = infos[fd].user_id
             /\ infos'[fd].joined_room_ids = infos[fd].joined_room_ids
  <2>1. infos[fd] \in SocketInfo
    BY <1>1 DEF TypeOK
  <2> QED
    BY <1>1, <2>1 DEF AppendSend, SocketInfo
<1> QED
  BY <1>1, <1>2, ForgetKeepsIndexes

\* set_fd_joined_rooms(), for one session or for all of a user.
LEMMA SetFdJoinedRoomsKeepsIndexes ==
  ASSUME TypeOK, TypeOK', IndexInv, NEW fds \in SUBSET DOMAIN infos,
         NEW room_ids \in SUBSET Rooms, SetFdJoinedRooms(fds, room_ids),
         UNCHANGED user_online_fds
  PROVE  IndexInv'
<1> DEFINE joined == {r \in room_ids : r > 0}
           bare == Erase(room_online_fds, RoomPairs(fds))
<1>1. /\ joined \X fds \in SUBSET (Rooms \X Fds)
      /\ room_online_fds' = Insert(bare, joined \X fds)
  BY DEF TypeOK, SetFdJoinedRooms
<1>2. DOMAIN infos' = DOMAIN infos
  BY DEF SetFdJoinedRooms
<1>3. ASSUME NEW fd \in DOMAIN infos
      PROVE  /\ infos'[fd].user_id = infos[fd].user_id
             /\ infos'[fd].joined_room_ids
                  = IF fd \in fds THEN joined ELSE infos[fd].joined_room_ids
  <2>1. infos[fd] \in SocketInfo
    BY DEF TypeOK
  <2> QED
    BY <2>1 DEF SetFdJoinedRooms, SocketInfo
<1>4. NoGhostEntries'
  <2>1. NoEmptyEntry(bare)
    BY EraseNoEmptyEntry DEF IndexInv, NoGhostEntries
  <2> HIDE DEF bare, joined
  <2>2. NoEmptyEntry(room_online_fds')
    BY <1>1, <2>1, InsertNoEmptyEntry
  <2> QED
    BY <2>2 DEF IndexInv, NoGhostEntries
<1>5. UserIndexExact'
  BY <1>2, <1>3 DEF IndexInv, UserIndexExact, Listed
<1>6. ASSUME NEW r \in Rooms, NEW fd \in Fds
      PROVE  Listed(room_online_fds, r, fd)'
               <=> fd \in DOMAIN infos' /\ r \in infos'[fd].joined_room_ids
  <2>1. Listed(bare, r, fd)
          <=> Listed(room_online_fds, r, fd) /\ <<r, fd>> \notin RoomPairs(fds)
    BY EraseListed
  <2>2. <<r, fd>> \in RoomPairs(fds) <=> fd \in fds /\ r \in infos[fd].joined_room_ids
    BY PairsOf
  <2>3. <<r, fd>> \in joined \X fds <=> r \in joined /\ fd \in fds
    OBVIOUS
  <2> HIDE DEF bare, joined
  <2>4. Listed(room_online_fds', r, fd)
          <=> Listed(bare, r, fd) \/ <<r, fd>> \in joined \X fds
    BY <1>1, InsertListed
  <2>5. Listed(room_online_fds, r, fd)
          <=> fd \in DOMAIN infos /\ r \in infos[fd].joined_room_ids
    BY DEF IndexInv, RoomIndexExact
  <2> QED
    BY <1>2, <1>3, <2>1, <2>2, <2>3, <2>4, <2>5
<1> QED
  BY <1>4, <1>5, <1>6 DEF IndexInv, RoomIndexExact

\* A step that leaves both indexes alone and changes no session's user or
\* rooms; sessions that appear are in no room and have no user.
LEMMA SameIdentitiesKeepIndexes ==
  ASSUME TypeOK, TypeOK', IndexInv, UNCHANGED <<room_online_fds, user_online_fds>>,
         DOMAIN infos \subseteq DOMAIN infos',
         \A fd \in DOMAIN infos :
           /\ infos'[fd].user_id = infos[fd].user_id
           /\ infos'[fd].joined_room_ids = infos[fd].joined_room_ids,
         \A fd \in DOMAIN infos' \ DOMAIN infos :
           infos'[fd].user_id = Empty /\ infos'[fd].joined_room_ids = {}
  PROVE  IndexInv'
  BY NamesAssumption DEF IndexInv, UserIndexExact, RoomIndexExact,
     NoGhostEntries, Listed

LEMMA IndexInit == Init => IndexInv
<1> SUFFICES ASSUME Init PROVE IndexInv
  OBVIOUS
<1>1. /\ DOMAIN infos = {}
      /\ DOMAIN user_online_fds = {}
      /\ DOMAIN room_online_fds = {}
  BY DEF Init, Nothing, EmptyIndex
<1> QED
  BY <1>1 DEF IndexInv, UserIndexExact, RoomIndexExact, NoGhostEntries,
     NoEmptyEntry, Listed

LEMMA IndexStep == TypeOK /\ TypeOK' /\ IndexInv /\ [Next]_vars => IndexInv'
<1> SUFFICES ASSUME TypeOK, TypeOK', IndexInv, [Next]_vars PROVE IndexInv'
  OBVIOUS
<1>1. ASSUME NEW fd \in Fds, Accept(fd) PROVE IndexInv'
  BY <1>1, SameIdentitiesKeepIndexes DEF Accept
<1>2. ASSUME NEW fd \in Fds, Disconnect(fd) PROVE IndexInv'
  <2>1. infos \in [DOMAIN infos -> SocketInfo] /\ fd \in DOMAIN infos
    BY <1>2 DEF TypeOK, Disconnect
  <2> QED
    BY <1>2, <2>1, SameIdentitiesKeepIndexes DEF Disconnect, SocketInfo
<1>3. ASSUME NEW fd \in Fds, FlushSend(fd) PROVE IndexInv'
  <2>1. PICK left \in BOOLEAN, needs_write \in BOOLEAN :
          infos' = [infos EXCEPT ![fd].has_pending = left,
                                 ![fd].epollout = left \/ needs_write]
    BY <1>3 DEF FlushSend
  <2>2. infos \in [DOMAIN infos -> SocketInfo] /\ fd \in DOMAIN infos
    BY <1>3 DEF TypeOK, FlushSend
  <2>3. /\ DOMAIN infos' = DOMAIN infos
        /\ \A f \in DOMAIN infos :
             /\ infos'[f].user_id = infos[f].user_id
             /\ infos'[f].joined_room_ids = infos[f].joined_room_ids
    BY <2>1, <2>2 DEF SocketInfo
  <2> QED
    BY <1>3, <2>3, SameIdentitiesKeepIndexes DEF FlushSend
<1>4. ASSUME NEW cmd \in Requests, Request(cmd) PROVE IndexInv'
  BY <1>4, SameIdentitiesKeepIndexes DEF Request, tables
<1>5. CASE Work
  BY <1>5, SameIdentitiesKeepIndexes DEF Work, tables
<1>6. CASE HandleRegister
  <2>1. /\ DOMAIN infos \subseteq DOMAIN infos'
        /\ \A fd \in DOMAIN infos : infos'[fd] = infos[fd]
        /\ \A fd \in DOMAIN infos' \ DOMAIN infos : infos'[fd] = NewSession
    BY <1>6 DEF HandleRegister
  <2> QED
    BY <1>6, <2>1, SameIdentitiesKeepIndexes DEF HandleRegister, NewSession
<1>7. CASE HandleUnregister
  <2> DEFINE fd == Head(pending_cmd).fd
  <2>1. CASE Ignore(fd)
    BY <2>1, SameIdentitiesKeepIndexes DEF Ignore, tables
  <2>2. CASE ~Ignore(fd)
    <3>1. /\ {fd} \in SUBSET DOMAIN infos
          /\ infos' = [f \in DOMAIN infos \ {fd} |-> infos[f]]
          /\ Forget({fd})
      BY <1>7, <2>2 DEF HandleUnregister
    <3> HIDE DEF fd
    <3> QED
      BY <3>1, ForgetKeepsIndexes
  <2> QED
    BY <2>1, <2>2
<1>8. CASE HandleSendOne
  <2> DEFINE fd == Head(pending_cmd).fd
  <2>1. CASE Ignore(fd)
    BY <2>1, SameIdentitiesKeepIndexes DEF Ignore, tables
  <2>2. CASE ~Ignore(fd)
    <3>1. PICK failed \in SUBSET {fd} : AppendSend({fd}, failed)
      BY <1>8, <2>2 DEF HandleSendOne
    <3>2. {fd} \in SUBSET DOMAIN infos
      BY <1>8, <2>2 DEF HandleSendOne
    <3> QED
      BY <3>1, <3>2, AppendSendKeepsIndexes
  <2> QED
    BY <2>1, <2>2
<1>9. CASE HandleChangeNickname
  <2> DEFINE cmd == Head(pending_cmd)
  <2>1. CASE Ignore(cmd.fd)
    BY <2>1, SameIdentitiesKeepIndexes DEF Ignore, tables
  <2>2. CASE ~Ignore(cmd.fd)
    <3>1. /\ cmd.fd \in DOMAIN infos
          /\ infos' = [infos EXCEPT ![cmd.fd].nickname = cmd.nick]
          /\ UNCHANGED <<room_online_fds, user_online_fds>>
      BY <1>9, <2>2 DEF HandleChangeNickname
    <3>2. infos \in [DOMAIN infos -> SocketInfo]
      BY DEF TypeOK
    <3> HIDE DEF cmd
    <3>3. /\ DOMAIN infos' = DOMAIN infos
          /\ \A f \in DOMAIN infos :
               /\ infos'[f].user_id = infos[f].user_id
               /\ infos'[f].joined_room_ids = infos[f].joined_room_ids
      BY <3>1, <3>2 DEF SocketInfo
    <3> QED
      BY <3>1, <3>3, SameIdentitiesKeepIndexes
  <2> QED
    BY <2>1, <2>2
<1>10. CASE HandleSetUserId
  <2> DEFINE cmd == Head(pending_cmd)
             fd == cmd.fd
             without == Erase(user_online_fds, UserPairs({fd}))
  <2>1. CASE Ignore(fd)
    BY <2>1, SameIdentitiesKeepIndexes DEF Ignore, tables
  <2>2. CASE ~Ignore(fd)
    <3>1. /\ fd \in DOMAIN infos
          /\ infos' = [infos EXCEPT ![fd].user_id = cmd.user_id,
                                    ![fd].joined_room_ids = {}]
          /\ room_online_fds' = Erase(room_online_fds, RoomPairs({fd}))
          /\ user_online_fds' = IF cmd.user_id = Empty THEN without
                                ELSE Insert(without, {<<cmd.user_id, fd>>})
      BY <1>10, <2>2 DEF HandleSetUserId
    <3>2. fd \in Fds /\ cmd.user_id \in Users \cup {Empty}
      BY <1>10, TakeType, CommandFields DEF HandleSetUserId
    <3>3. infos \in [DOMAIN infos -> SocketInfo]
      BY DEF TypeOK
    <3> HIDE DEF cmd
    <3>4. /\ DOMAIN infos' = DOMAIN infos
          /\ infos'[fd].user_id = cmd.user_id
          /\ infos'[fd].joined_room_ids = {}
          /\ \A f \in DOMAIN infos \ {fd} : infos'[f] = infos[f]
      BY <3>1, <3>3 DEF SocketInfo
    <3>5. NoEmptyEntry(without) /\ NoEmptyEntry(room_online_fds')
      BY <3>1, EraseNoEmptyEntry DEF IndexInv, NoGhostEntries
    <3>6. /\ cmd.user_id # Empty
               => {<<cmd.user_id, fd>>} \in SUBSET (Users \X Fds)
          /\ {fd} \in SUBSET DOMAIN infos
      BY <3>1, <3>2
    <3>7. NoGhostEntries'
      <4> HIDE DEF without
      <4>1. NoEmptyEntry(user_online_fds')
        BY <3>1, <3>5, <3>6, InsertNoEmptyEntry
      <4> QED
        BY <3>5, <4>1 DEF NoGhostEntries
    <3>8. ASSUME NEW r \in Rooms, NEW f \in Fds
          PROVE  Listed(room_online_fds, r, f)'
                   <=> f \in DOMAIN infos' /\ r \in infos'[f].joined_room_ids
      <4>1. Listed(room_online_fds', r, f)
              <=> Listed(room_online_fds, r, f) /\ <<r, f>> \notin RoomPairs({fd})
        BY <3>1, EraseListed
      <4>2. <<r, f>> \in RoomPairs({fd})
              <=> f \in {fd} /\ r \in infos[f].joined_room_ids
        BY <3>6, PairsOf
      <4> QED
        BY <3>4, <4>1, <4>2 DEF IndexInv, RoomIndexExact
    <3>9. ASSUME NEW u \in Users, NEW f \in Fds
          PROVE  Listed(user_online_fds, u, f)'
                   <=> f \in DOMAIN infos' /\ infos'[f].user_id = u
      <4>1. Listed(without, u, f)
              <=> Listed(user_online_fds, u, f) /\ <<u, f>> \notin UserPairs({fd})
        BY EraseListed
      <4>2. <<u, f>> \in UserPairs({fd}) <=> f \in {fd} /\ u = infos[f].user_id
        BY <3>6, PairsOf
      <4>3. Listed(without, u, f)
              <=> f \in DOMAIN infos \ {fd} /\ infos[f].user_id = u
        BY <4>1, <4>2 DEF IndexInv, UserIndexExact
      <4> HIDE DEF without
      <4>4. CASE cmd.user_id = Empty
        BY <3>1, <3>4, <4>3, <4>4, NamesAssumption
      <4>5. CASE cmd.user_id # Empty
        <5>1. Listed(user_online_fds', u, f)
                <=> Listed(without, u, f) \/ <<u, f>> \in {<<cmd.user_id, fd>>}
          BY <3>1, <3>6, <4>5, InsertListed
        <5> QED
          BY <3>1, <3>4, <4>3, <5>1
      <4> QED
        BY <4>4, <4>5
    <3> QED
      BY <3>7, <3>8, <3>9 DEF IndexInv, UserIndexExact, RoomIndexExact
  <2> QED
    BY <2>1, <2>2
<1>11. CASE HandleSetJoinedRooms
  <2> DEFINE cmd == Head(pending_cmd)
  <2>1. CASE Ignore(cmd.fd)
    BY <2>1, SameIdentitiesKeepIndexes DEF Ignore, tables
  <2>2. CASE ~Ignore(cmd.fd)
    <3>1. {cmd.fd} \in SUBSET DOMAIN infos /\ SetFdJoinedRooms({cmd.fd}, cmd.room_ids)
      BY <1>11, <2>2 DEF HandleSetJoinedRooms
    <3>2. cmd.room_ids \in SUBSET Rooms
      BY <1>11, TakeType, CommandFields DEF HandleSetJoinedRooms
    <3> QED
      BY <1>11, <2>2, <3>1, <3>2, SetFdJoinedRoomsKeepsIndexes
         DEF HandleSetJoinedRooms
  <2> QED
    BY <2>1, <2>2
<1>12. CASE HandleSetJoinedRoomsForUser
  <2> DEFINE cmd == Head(pending_cmd)
             fds == Entry(user_online_fds, cmd.user_id) \cap DOMAIN infos
  <2>1. fds \in SUBSET DOMAIN infos /\ SetFdJoinedRooms(fds, cmd.room_ids)
    BY <1>12 DEF HandleSetJoinedRoomsForUser
  <2>2. cmd.room_ids \in SUBSET Rooms
    BY <1>12, TakeType, CommandFields DEF HandleSetJoinedRoomsForUser
  <2> QED
    BY <1>12, <2>1, <2>2, SetFdJoinedRoomsKeepsIndexes
       DEF HandleSetJoinedRoomsForUser
<1>13. CASE HandleSendFriendList
  <2> DEFINE fd == Head(pending_cmd).fd
  <2>1. CASE Ignore(fd)
    BY <2>1, SameIdentitiesKeepIndexes DEF Ignore, tables
  <2>2. CASE ~Ignore(fd)
    <3>1. PICK failed \in SUBSET {fd} : AppendSend({fd}, failed)
      BY <1>13, <2>2 DEF HandleSendFriendList
    <3>2. {fd} \in SUBSET DOMAIN infos
      BY <1>13, <2>2 DEF HandleSendFriendList
    <3> QED
      BY <3>1, <3>2, AppendSendKeepsIndexes
  <2> QED
    BY <2>1, <2>2
<1>14. CASE HandleRoomBroadcast
  <2> DEFINE targets == Entry(room_online_fds, Head(pending_cmd).room_id) \cap DOMAIN infos
  <2>1. PICK failed \in SUBSET targets : AppendSend(targets, failed)
    BY <1>14 DEF HandleRoomBroadcast
  <2>2. targets \in SUBSET DOMAIN infos
    OBVIOUS
  <2> HIDE DEF targets
  <2> QED
    BY <2>1, <2>2, AppendSendKeepsIndexes
<1>15. CASE UNCHANGED vars
  BY <1>15, SameIdentitiesKeepIndexes DEF vars
<1> QED
  BY <1>1, <1>2, <1>3, <1>4, <1>5, <1>6, <1>7, <1>8, <1>9, <1>10, <1>11,
     <1>12, <1>13, <1>14, <1>15 DEF Next, HandleCommand

\* The online indexes are exact in every reachable state: looking a room or
\* a user up finds the sessions that scanning infos would find, and no entry
\* is ever empty.
THEOREM IndexesExact == Spec => [](UserIndexExact /\ RoomIndexExact /\ NoGhostEntries)
<1>1. Init => TypeOK /\ IndexInv
  BY TypeInit, IndexInit
<1>2. TypeOK /\ IndexInv /\ [Next]_vars => (TypeOK /\ IndexInv)'
  BY TypeStep, IndexStep
<1>3. TypeOK /\ IndexInv => UserIndexExact /\ RoomIndexExact /\ NoGhostEntries
  BY DEF IndexInv
<1> QED
  BY <1>1, <1>2, <1>3, PTL DEF Spec

\* The room index lists a session under a room exactly when the session has
\* joined it (room_broadcast reaches those and nobody else).
THEOREM RoomIndexIsExact == Spec => []RoomIndexExact
  BY IndexesExact, PTL

\* Neither index keeps an entry nobody is left under.
THEOREM NoGhosts == Spec => []NoGhostEntries
  BY IndexesExact, PTL

-----------------------------------------------------------------------------
(* The two queues as one: a push appends, a swap changes nothing, taking a *)
(* command removes the oldest.                                             *)

LEMMA BacklogType == TypeOK => Backlog \in Seq(Commands)
  BY DEF TypeOK, Backlog

LEMMA BacklogPush ==
  ASSUME TypeOK, NEW cmd \in Commands, Push(cmd), UNCHANGED pending_cmd
  PROVE  Backlog' = Append(Backlog, cmd)
  BY DEF TypeOK, Backlog, Push

LEMMA BacklogWork == ASSUME TypeOK, Work PROVE Backlog' = Backlog
  BY DEF TypeOK, Backlog, Work

LEMMA BacklogTake ==
  ASSUME TypeOK, NEW op, Take(op)
  PROVE  /\ Backlog # <<>>
         /\ Backlog[1] = Head(pending_cmd)
         /\ Backlog' = Tail(Backlog)
<1>1. pending_cmd \in Seq(Commands) /\ cmd_q \in Seq(Commands) /\ pending_cmd # <<>>
  BY DEF TypeOK, Take
<1>2. Backlog' = Tail(pending_cmd) \o cmd_q
  BY DEF Backlog, Take
<1> QED
  BY <1>1, <1>2 DEF Backlog

-----------------------------------------------------------------------------
(* Descriptors and leaving sessions.  A descriptor number may stand in the *)
(* backlog after its session is gone, so "the unregister command meets the *)
(* session that asked for it" needs the order of the backlog and who owns  *)
(* which descriptor.                                                       *)

OwnershipInv == FdOwnership /\ UnregisterMeetsItsSession

\* Giving a command that is neither a register nor an unregister command,
\* or handling nothing at all.
LEMMA GiveKeepsOwnership ==
  ASSUME TypeOK, OwnershipInv, NEW cmd \in Commands,
         cmd.op \notin {"register", "unregister"},
         Backlog' = Append(Backlog, cmd), UNCHANGED <<open_fds, infos>>
  PROVE  OwnershipInv'
<1>1. Backlog \in Seq(Commands)
  BY BacklogType
<1>2. /\ DOMAIN Backlog' = 1..(Len(Backlog) + 1)
      /\ DOMAIN Backlog = 1..Len(Backlog)
      /\ Len(Backlog) \in Nat
      /\ Backlog'[Len(Backlog) + 1] = cmd
      /\ \A i \in DOMAIN Backlog : Backlog'[i] = Backlog[i]
  BY <1>1
<1> HIDE DEF Backlog
<1>3. FdOwnership'
  BY <1>2 DEF OwnershipInv, FdOwnership, IsRegister
<1>4. UnregisterMeetsItsSession'
  <2>1. ASSUME NEW fd PROVE cmd # [op |-> "unregister", fd |-> fd]
    OBVIOUS
  <2> QED
    BY <1>2, <2>1 DEF OwnershipInv, UnregisterMeetsItsSession, IsRegister
<1> QED
  BY <1>3, <1>4 DEF OwnershipInv

\* Taking any command but a register command; the sessions in fds go, and
\* when it was an unregister command the one it names is gone afterwards.
LEMMA TakeKeepsOwnership ==
  ASSUME TypeOK, OwnershipInv, Backlog # <<>>, Backlog' = Tail(Backlog),
         ~IsRegister(Backlog[1]),
         NEW fds \in SUBSET DOMAIN infos,
         open_fds' = open_fds \ fds,
         DOMAIN infos' = DOMAIN infos \ fds,
         \A fd \in DOMAIN infos' : infos'[fd].is_closed = infos[fd].is_closed,
         \A fd \in DOMAIN infos' : Backlog[1] # [op |-> "unregister", fd |-> fd]
  PROVE  OwnershipInv'
<1>1. Backlog \in Seq(Commands)
  BY BacklogType
<1>2. /\ DOMAIN Backlog' = 1..(Len(Backlog) - 1)
      /\ DOMAIN Backlog = 1..Len(Backlog)
      /\ Len(Backlog) \in Nat \ {0}
      /\ \A i \in DOMAIN Backlog' : Backlog'[i] = Backlog[i + 1]
  BY <1>1
<1>3. /\ \A i \in DOMAIN Backlog' : i + 1 \in DOMAIN Backlog
      /\ \A i \in DOMAIN Backlog : i # 1 =>
           i - 1 \in DOMAIN Backlog' /\ Backlog'[i - 1] = Backlog[i]
  BY <1>2
<1> HIDE DEF Backlog
<1>4. FdOwnership'
  <2>1. DOMAIN infos' \subseteq open_fds'
    BY DEF OwnershipInv, FdOwnership
  <2>2. ASSUME NEW i \in DOMAIN Backlog', IsRegister(Backlog'[i])
        PROVE  /\ Backlog'[i].fd \in open_fds' \ DOMAIN infos'
               /\ \A j \in DOMAIN Backlog' :
                    IsRegister(Backlog'[j]) /\ Backlog'[j].fd = Backlog'[i].fd
                      => i = j
    <3>1. Backlog[i + 1].fd \in open_fds \ DOMAIN infos
      BY <1>2, <1>3, <2>2 DEF OwnershipInv, FdOwnership
    <3>2. Backlog'[i].fd \in open_fds' \ DOMAIN infos'
      BY <1>2, <3>1
    <3>3. ASSUME NEW j \in DOMAIN Backlog', IsRegister(Backlog'[j]),
                 Backlog'[j].fd = Backlog'[i].fd
          PROVE  i + 1 = j + 1
      BY <1>2, <1>3, <2>2, <3>3 DEF OwnershipInv, FdOwnership
    <3> QED
      BY <1>2, <3>2, <3>3
  <2>3. ASSUME NEW fd \in open_fds' \ DOMAIN infos'
        PROVE  \E i \in DOMAIN Backlog' :
                 Backlog'[i] = [op |-> "register", fd |-> fd]
    <3>1. PICK i \in DOMAIN Backlog : Backlog[i] = [op |-> "register", fd |-> fd]
      BY <2>3 DEF OwnershipInv, FdOwnership
    <3>2. i # 1
      BY <3>1 DEF IsRegister
    <3> QED
      BY <1>3, <3>1, <3>2
  <2> QED
    BY <2>1, <2>2, <2>3 DEF FdOwnership, IsRegister
<1>5. UnregisterMeetsItsSession'
  <2>1. ASSUME NEW fd \in DOMAIN infos'
        PROVE  infos'[fd].is_closed
                 <=> \E i \in DOMAIN Backlog' :
                       Backlog'[i] = [op |-> "unregister", fd |-> fd]
    <3>1. infos'[fd].is_closed
            <=> \E i \in DOMAIN Backlog :
                  Backlog[i] = [op |-> "unregister", fd |-> fd]
      BY DEF OwnershipInv, UnregisterMeetsItsSession
    <3>2. \A i \in DOMAIN Backlog :
            Backlog[i] = [op |-> "unregister", fd |-> fd] => i # 1
      OBVIOUS
    <3> QED
      BY <1>2, <1>3, <3>1, <3>2
  <2>2. ASSUME NEW i \in DOMAIN Backlog', NEW j \in DOMAIN Backlog',
               IsRegister(Backlog'[j]),
               Backlog'[i] = [op |-> "unregister", fd |-> Backlog'[j].fd]
        PROVE  i < j
    <3>1. i + 1 < j + 1
      BY <1>2, <1>3, <2>2 DEF OwnershipInv, UnregisterMeetsItsSession
    <3> QED
      BY <1>2, <3>1
  <2> QED
    BY <2>1, <2>2 DEF UnregisterMeetsItsSession, IsRegister
<1> QED
  BY <1>4, <1>5 DEF OwnershipInv

\* A handler that changes no session's is_closed and closes nothing.
LEMMA TakeQuietly ==
  ASSUME TypeOK, OwnershipInv, NEW op, op \notin {"register", "unregister"}, Take(op),
         open_fds' = open_fds, DOMAIN infos' = DOMAIN infos,
         \A fd \in DOMAIN infos : infos'[fd].is_closed = infos[fd].is_closed
  PROVE  OwnershipInv'
<1>1. /\ Backlog # <<>>
      /\ Backlog' = Tail(Backlog)
      /\ Backlog[1].op = op
  BY TakeType, BacklogTake
<1>2. \A fd : Backlog[1] # [op |-> "unregister", fd |-> fd]
  BY <1>1
<1> HIDE DEF Backlog
<1> QED
  BY <1>1, <1>2, TakeKeepsOwnership DEF IsRegister

\* A handler that appends to send buffers.
LEMMA TakeAndSend ==
  ASSUME TypeOK, OwnershipInv, NEW op, op \notin {"register", "unregister"}, Take(op),
         NEW targets \in SUBSET DOMAIN infos, NEW failed \in SUBSET targets,
         AppendSend(targets, failed)
  PROVE  OwnershipInv'
<1>1. /\ Backlog # <<>>
      /\ Backlog' = Tail(Backlog)
      /\ Backlog[1].op = op
  BY TakeType, BacklogTake
<1>2. \A fd : Backlog[1] # [op |-> "unregister", fd |-> fd]
  BY <1>1
<1>3. /\ open_fds' = open_fds \ failed
      /\ DOMAIN infos' = DOMAIN infos \ failed
  BY DEF AppendSend, Forget
<1>4. ASSUME NEW fd \in DOMAIN infos'
      PROVE  infos'[fd].is_closed = infos[fd].is_closed
  <2>1. infos[fd] \in SocketInfo
    BY <1>3 DEF TypeOK
  <2> QED
    BY <1>3, <2>1 DEF AppendSend, SocketInfo
<1> HIDE DEF Backlog
<1> QED
  BY <1>1, <1>2, <1>3, <1>4, TakeKeepsOwnership DEF IsRegister

LEMMA OwnershipInit == Init => OwnershipInv
<1> SUFFICES ASSUME Init PROVE OwnershipInv
  OBVIOUS
<1>1. open_fds = {} /\ DOMAIN infos = {} /\ Backlog = <<>>
  BY DEF Init, Nothing, Backlog
<1>2. DOMAIN Backlog = {}
  BY <1>1
<1> HIDE DEF Backlog
<1> QED
  BY <1>1, <1>2 DEF OwnershipInv, FdOwnership, UnregisterMeetsItsSession

\* The acceptor's descriptor is new: no session and no command has it.
LEMMA AcceptKeepsOwnership ==
  ASSUME TypeOK, OwnershipInv, NEW fd \in Fds, Accept(fd)
  PROVE  OwnershipInv'
<1> DEFINE cmd == [op |-> "register", fd |-> fd]
<1>1. Backlog \in Seq(Commands) /\ cmd \in Commands
  BY BacklogType DEF Commands
<1>2. Backlog' = Append(Backlog, cmd)
  BY <1>1, BacklogPush DEF Accept
<1>3. /\ fd \notin open_fds
      /\ open_fds' = open_fds \cup {fd}
      /\ infos' = infos
  BY DEF Accept
<1>4. /\ DOMAIN Backlog' = 1..(Len(Backlog) + 1)
      /\ DOMAIN Backlog = 1..Len(Backlog)
      /\ Len(Backlog) \in Nat
      /\ Backlog'[Len(Backlog) + 1] = cmd
      /\ \A i \in DOMAIN Backlog : Backlog'[i] = Backlog[i]
  BY <1>1, <1>2
<1>5. IsRegister(cmd) /\ cmd.fd = fd /\ \A f : cmd # [op |-> "unregister", fd |-> f]
  BY DEF IsRegister
<1> HIDE DEF Backlog, cmd
<1>6. \A i \in DOMAIN Backlog' : i # Len(Backlog) + 1 => i \in DOMAIN Backlog
  BY <1>4
<1>7. FdOwnership'
  <2>1. DOMAIN infos' \subseteq open_fds'
    BY <1>3 DEF OwnershipInv, FdOwnership
  <2>2. ASSUME NEW i \in DOMAIN Backlog', IsRegister(Backlog'[i])
        PROVE  /\ Backlog'[i].fd \in open_fds' \ DOMAIN infos'
               /\ \A j \in DOMAIN Backlog' :
                    IsRegister(Backlog'[j]) /\ Backlog'[j].fd = Backlog'[i].fd
                      => i = j
    BY <1>3, <1>4, <1>5, <1>6, <2>2 DEF OwnershipInv, FdOwnership
  <2>3. ASSUME NEW f \in open_fds' \ DOMAIN infos'
        PROVE  \E i \in DOMAIN Backlog' :
                 Backlog'[i] = [op |-> "register", fd |-> f]
    <3>1. CASE f = fd
      BY <1>4, <3>1 DEF cmd
    <3>2. CASE f # fd
      BY <1>3, <1>4, <3>2 DEF OwnershipInv, FdOwnership
    <3> QED
      BY <3>1, <3>2
  <2> QED
    BY <2>1, <2>2, <2>3 DEF FdOwnership, IsRegister
<1>8. UnregisterMeetsItsSession'
  <2>1. ASSUME NEW i \in DOMAIN Backlog', NEW j \in DOMAIN Backlog',
               IsRegister(Backlog'[j]),
               Backlog'[i] = [op |-> "unregister", fd |-> Backlog'[j].fd]
        PROVE  i < j
    <3>1. i \in DOMAIN Backlog
      BY <1>4, <1>5, <1>6, <2>1
    <3>2. CASE j = Len(Backlog) + 1
      BY <1>4, <3>1, <3>2
    <3>3. CASE j # Len(Backlog) + 1
      BY <1>4, <1>6, <2>1, <3>1, <3>3 DEF OwnershipInv, UnregisterMeetsItsSession
    <3> QED
      BY <3>2, <3>3
  <2>2. ASSUME NEW f \in DOMAIN infos'
        PROVE  infos'[f].is_closed
                 <=> \E i \in DOMAIN Backlog' :
                       Backlog'[i] = [op |-> "unregister", fd |-> f]
    BY <1>3, <1>4, <1>5, <1>6 DEF OwnershipInv, UnregisterMeetsItsSession
  <2> QED
    BY <2>1, <2>2 DEF UnregisterMeetsItsSession, IsRegister
<1> QED
  BY <1>7, <1>8 DEF OwnershipInv

\* A session asks to leave: none of the register commands under way is for
\* its descriptor.
LEMMA DisconnectKeepsOwnership ==
  ASSUME TypeOK, OwnershipInv, NEW fd \in Fds, Disconnect(fd)
  PROVE  OwnershipInv'
<1> DEFINE cmd == [op |-> "unregister", fd |-> fd]
<1>1. Backlog \in Seq(Commands) /\ cmd \in Commands
  BY BacklogType DEF Commands
<1>2. Backlog' = Append(Backlog, cmd)
  BY <1>1, BacklogPush DEF Disconnect
<1>3. /\ open_fds' = open_fds
      /\ fd \in DOMAIN infos
      /\ infos' = [infos EXCEPT ![fd].is_closed = TRUE]
  BY DEF Disconnect
<1>4. /\ DOMAIN Backlog' = 1..(Len(Backlog) + 1)
      /\ DOMAIN Backlog = 1..Len(Backlog)
      /\ Len(Backlog) \in Nat
      /\ Backlog'[Len(Backlog) + 1] = cmd
      /\ \A i \in DOMAIN Backlog : Backlog'[i] = Backlog[i]
  BY <1>1, <1>2
<1>5. /\ DOMAIN infos' = DOMAIN infos
      /\ infos'[fd].is_closed
      /\ \A f \in DOMAIN infos \ {fd} : infos'[f] = infos[f]
  <2>1. infos[fd] \in SocketInfo
    BY <1>3 DEF TypeOK
  <2> QED
    BY <1>3, <2>1 DEF SocketInfo
<1>6. ~IsRegister(cmd) /\ cmd.fd = fd
  BY DEF IsRegister
<1>7. ASSUME NEW i \in DOMAIN Backlog, IsRegister(Backlog[i])
      PROVE  Backlog[i].fd # fd
  BY <1>3, <1>7 DEF OwnershipInv, FdOwnership
<1> HIDE DEF Backlog, cmd
<1>8. \A i \in DOMAIN Backlog' : i # Len(Backlog) + 1 => i \in DOMAIN Backlog
  BY <1>4
<1>9. FdOwnership'
  BY <1>3, <1>4, <1>5, <1>6, <1>8 DEF OwnershipInv, FdOwnership, IsRegister
<1>10. ASSUME NEW i \in DOMAIN Backlog', NEW j \in DOMAIN Backlog',
              IsRegister(Backlog'[j]),
              Backlog'[i] = [op |-> "unregister", fd |-> Backlog'[j].fd]
       PROVE  i < j
  <2>1. j \in DOMAIN Backlog
    BY <1>4, <1>6, <1>8, <1>10
  <2>2. i \in DOMAIN Backlog
    BY <1>4, <1>7, <1>8, <1>10, <2>1 DEF cmd
  <2> QED
    BY <1>4, <1>10, <2>1, <2>2 DEF OwnershipInv, UnregisterMeetsItsSession
<1>11. ASSUME NEW f \in DOMAIN infos'
       PROVE  infos'[f].is_closed
                <=> \E i \in DOMAIN Backlog' :
                      Backlog'[i] = [op |-> "unregister", fd |-> f]
  <2>1. CASE f = fd
    BY <1>4, <1>5, <2>1 DEF cmd
  <2>2. CASE f # fd
    <3>1. cmd # [op |-> "unregister", fd |-> f]
      BY <2>2 DEF cmd
    <3> QED
      BY <1>4, <1>5, <1>8, <2>2, <3>1 DEF OwnershipInv, UnregisterMeetsItsSession
  <2> QED
    BY <2>1, <2>2
<1> QED
  BY <1>9, <1>10, <1>11 DEF OwnershipInv, UnregisterMeetsItsSession, IsRegister

\* register_fd(): the number is free, and no unregister command for it can
\* be waiting behind.
LEMMA RegisterKeepsOwnership ==
  ASSUME TypeOK, OwnershipInv, HandleRegister
  PROVE  OwnershipInv'
<1> DEFINE fd == Head(pending_cmd).fd
<1>1. /\ Backlog \in Seq(Commands)
      /\ Backlog # <<>>
      /\ Backlog' = Tail(Backlog)
      /\ IsRegister(Backlog[1])
      /\ Backlog[1].fd = fd
  BY BacklogType, TakeType, BacklogTake DEF HandleRegister, IsRegister
<1>2. /\ DOMAIN Backlog' = 1..(Len(Backlog) - 1)
      /\ DOMAIN Backlog = 1..Len(Backlog)
      /\ Len(Backlog) \in Nat \ {0}
      /\ \A i \in DOMAIN Backlog' : Backlog'[i] = Backlog[i + 1]
  BY <1>1
<1>3. /\ 1 \in DOMAIN Backlog
      /\ \A i \in DOMAIN Backlog' : i + 1 \in DOMAIN Backlog
      /\ \A i \in DOMAIN Backlog : i # 1 =>
           i - 1 \in DOMAIN Backlog' /\ Backlog'[i - 1] = Backlog[i]
  BY <1>2
<1>4. fd \in open_fds /\ fd \notin DOMAIN infos
  BY <1>1, <1>3 DEF OwnershipInv, FdOwnership
<1>5. \/ /\ infos' = [f \in DOMAIN infos \cup {fd} |->
                        IF f = fd THEN NewSession ELSE infos[f]]
         /\ open_fds' = open_fds
      \/ /\ open_fds' = open_fds \ {fd}
         /\ infos' = infos
  BY DEF HandleRegister
<1>6. /\ DOMAIN infos' \in {DOMAIN infos, DOMAIN infos \cup {fd}}
      /\ \A f \in DOMAIN infos : infos'[f] = infos[f]
      /\ fd \in DOMAIN infos' => ~infos'[fd].is_closed
  BY <1>4, <1>5 DEF NewSession
<1> HIDE DEF Backlog, fd
<1>7. ASSUME NEW i \in DOMAIN Backlog', IsRegister(Backlog'[i])
      PROVE  /\ Backlog'[i].fd \in open_fds \ DOMAIN infos
             /\ Backlog'[i].fd # fd
  <2>1. i + 1 \in DOMAIN Backlog /\ Backlog[i + 1] = Backlog'[i] /\ i + 1 # 1
    BY <1>2, <1>3
  <2> QED
    BY <1>1, <1>3, <1>7, <2>1 DEF OwnershipInv, FdOwnership
<1>8. FdOwnership'
  <2>1. DOMAIN infos' \subseteq open_fds'
    BY <1>4, <1>5 DEF OwnershipInv, FdOwnership
  <2>2. ASSUME NEW i \in DOMAIN Backlog', IsRegister(Backlog'[i])
        PROVE  /\ Backlog'[i].fd \in open_fds' \ DOMAIN infos'
               /\ \A j \in DOMAIN Backlog' :
                    IsRegister(Backlog'[j]) /\ Backlog'[j].fd = Backlog'[i].fd
                      => i = j
    <3>1. Backlog'[i].fd \in open_fds' \ DOMAIN infos'
      BY <1>5, <1>7, <2>2
    <3>2. ASSUME NEW j \in DOMAIN Backlog', IsRegister(Backlog'[j]),
                 Backlog'[j].fd = Backlog'[i].fd
          PROVE  i + 1 = j + 1
      BY <1>2, <1>3, <2>2, <3>2 DEF OwnershipInv, FdOwnership
    <3> QED
      BY <1>2, <3>1, <3>2
  <2>3. ASSUME NEW f \in open_fds' \ DOMAIN infos'
        PROVE  \E i \in DOMAIN Backlog' :
                 Backlog'[i] = [op |-> "register", fd |-> f]
    <3>1. f # fd /\ f \in open_fds \ DOMAIN infos
      BY <1>5, <2>3
    <3>2. PICK i \in DOMAIN Backlog : Backlog[i] = [op |-> "register", fd |-> f]
      BY <3>1 DEF OwnershipInv, FdOwnership
    <3>3. i # 1
      BY <1>1, <3>1, <3>2
    <3> QED
      BY <1>3, <3>2, <3>3
  <2> QED
    BY <2>1, <2>2, <2>3 DEF FdOwnership, IsRegister
<1>9. ASSUME NEW i \in DOMAIN Backlog', NEW j \in DOMAIN Backlog',
             IsRegister(Backlog'[j]),
             Backlog'[i] = [op |-> "unregister", fd |-> Backlog'[j].fd]
      PROVE  i < j
  <2>1. i + 1 < j + 1
    BY <1>2, <1>3, <1>9 DEF OwnershipInv, UnregisterMeetsItsSession
  <2> QED
    BY <1>2, <2>1
<1>10. ASSUME NEW f \in DOMAIN infos'
       PROVE  infos'[f].is_closed
                <=> \E i \in DOMAIN Backlog' :
                      Backlog'[i] = [op |-> "unregister", fd |-> f]
  <2>1. CASE f = fd
    <3>1. ASSUME NEW i \in DOMAIN Backlog',
                 Backlog'[i] = [op |-> "unregister", fd |-> fd]
          PROVE  FALSE
      <4>1. i + 1 \in DOMAIN Backlog
            /\ Backlog[i + 1] = [op |-> "unregister", fd |-> Backlog[1].fd]
        BY <1>1, <1>2, <1>3, <3>1
      <4>2. i + 1 < 1
        BY <1>1, <1>3, <4>1 DEF OwnershipInv, UnregisterMeetsItsSession
      <4> QED
        BY <1>2, <4>2
    <3> QED
      BY <1>6, <2>1, <3>1
  <2>2. CASE f # fd
    <3>1. f \in DOMAIN infos /\ infos'[f] = infos[f]
      BY <1>6, <2>2
    <3>2. infos[f].is_closed
            <=> \E i \in DOMAIN Backlog :
                  Backlog[i] = [op |-> "unregister", fd |-> f]
      BY <3>1 DEF OwnershipInv, UnregisterMeetsItsSession
    <3>3. Backlog[1] # [op |-> "unregister", fd |-> f]
      BY <1>1 DEF IsRegister
    <3> QED
      BY <1>2, <1>3, <3>1, <3>2, <3>3
  <2> QED
    BY <2>1, <2>2
<1> QED
  BY <1>8, <1>9, <1>10 DEF OwnershipInv, UnregisterMeetsItsSession, IsRegister

LEMMA OwnershipStep ==
  TypeOK /\ TypeOK' /\ OwnershipInv /\ [Next]_vars => OwnershipInv'
<1> SUFFICES ASSUME TypeOK, TypeOK', OwnershipInv, [Next]_vars PROVE OwnershipInv'
  OBVIOUS
<1>1. ASSUME NEW fd \in Fds, Accept(fd) PROVE OwnershipInv'
  BY <1>1, AcceptKeepsOwnership
<1>2. ASSUME NEW fd \in Fds, Disconnect(fd) PROVE OwnershipInv'
  BY <1>2, DisconnectKeepsOwnership
<1>3. ASSUME NEW fd \in Fds, FlushSend(fd) PROVE OwnershipInv'
  <2>1. PICK left \in BOOLEAN, needs_write \in BOOLEAN :
          infos' = [infos EXCEPT ![fd].has_pending = left,
                                 ![fd].epollout = left \/ needs_write]
    BY <1>3 DEF FlushSend
  <2>2. infos \in [DOMAIN infos -> SocketInfo] /\ fd \in DOMAIN infos
    BY <1>3 DEF TypeOK, FlushSend
  <2>3. /\ DOMAIN infos' = DOMAIN infos
        /\ \A f \in DOMAIN infos : infos'[f].is_closed = infos[f].is_closed
    BY <2>1, <2>2 DEF SocketInfo
  <2>4. Backlog' = Backlog /\ open_fds' = open_fds
    BY <1>3 DEF Backlog, FlushSend
  <2> HIDE DEF Backlog
  <2> QED
    BY <2>3, <2>4 DEF OwnershipInv, FdOwnership, UnregisterMeetsItsSession
<1>4. ASSUME NEW cmd \in Requests, Request(cmd) PROVE OwnershipInv'
  <2>1. cmd \in Commands /\ cmd.op \notin {"register", "unregister"}
    BY RequestsAssumption DEF Commands, WorkerCommands
  <2>2. Backlog' = Append(Backlog, cmd)
    BY <1>4, <2>1, BacklogPush DEF Request
  <2> HIDE DEF Backlog
  <2> QED
    BY <1>4, <2>1, <2>2, GiveKeepsOwnership DEF Request, tables
<1>5. CASE Work
  <2>1. Backlog' = Backlog /\ UNCHANGED <<open_fds, infos>>
    BY <1>5, BacklogWork DEF Work, tables
  <2> HIDE DEF Backlog
  <2> QED
    BY <2>1 DEF OwnershipInv, FdOwnership, UnregisterMeetsItsSession
<1>6. CASE HandleRegister
  BY <1>6, RegisterKeepsOwnership
<1>7. CASE HandleUnregister
  <2> DEFINE fd == Head(pending_cmd).fd
  <2>1. /\ Backlog # <<>>
        /\ Backlog' = Tail(Backlog)
        /\ ~IsRegister(Backlog[1])
        /\ Backlog[1].fd = fd
    BY <1>7, TakeType, BacklogTake DEF HandleUnregister, IsRegister
  <2>2. \A f : Backlog[1] = [op |-> "unregister", fd |-> f] => f = fd
    BY <2>1
  <2>3. CASE Ignore(fd)
    <3>1. fd \notin DOMAIN infos /\ UNCHANGED <<open_fds, infos>>
      BY <2>3 DEF Ignore, tables
    <3> HIDE DEF fd, Backlog
    <3> QED
      BY <2>1, <2>2, <3>1, TakeKeepsOwnership
  <2>4. CASE ~Ignore(fd)
    <3>1. /\ {fd} \in SUBSET DOMAIN infos
          /\ infos' = [f \in DOMAIN infos \ {fd} |-> infos[f]]
          /\ open_fds' = open_fds \ {fd}
      BY <1>7, <2>4 DEF HandleUnregister, Forget
    <3> HIDE DEF fd, Backlog
    <3>2. /\ DOMAIN infos' = DOMAIN infos \ {fd}
          /\ \A f \in DOMAIN infos' : infos'[f].is_closed = infos[f].is_closed
      BY <3>1
    <3> QED
      BY <2>1, <2>2, <3>1, <3>2, TakeKeepsOwnership
  <2> QED
    BY <2>3, <2>4
<1>8. CASE HandleSendOne
  <2> DEFINE fd == Head(pending_cmd).fd
  <2>0. Take("send_one")
    BY <1>8 DEF HandleSendOne
  <2>1. CASE Ignore(fd)
    BY <2>0, <2>1, TakeQuietly DEF Ignore, tables
  <2>2. CASE ~Ignore(fd)
    <3>1. PICK failed \in SUBSET {fd} : AppendSend({fd}, failed)
      BY <1>8, <2>2 DEF HandleSendOne
    <3>2. {fd} \in SUBSET DOMAIN infos
      BY <1>8, <2>2 DEF HandleSendOne
    <3> HIDE DEF fd
    <3> QED
      BY <2>0, <3>1, <3>2, TakeAndSend
  <2> QED
    BY <2>1, <2>2
<1>9. CASE HandleChangeNickname
  <2> DEFINE cmd == Head(pending_cmd)
  <2>0. Take("change_nickname")
    BY <1>9 DEF HandleChangeNickname
  <2>1. CASE Ignore(cmd.fd)
    BY <2>0, <2>1, TakeQuietly DEF Ignore, tables
  <2>2. CASE ~Ignore(cmd.fd)
    <3>1. /\ infos' = [infos EXCEPT ![cmd.fd].nickname = cmd.nick]
          /\ open_fds' = open_fds
      BY <1>9, <2>2 DEF HandleChangeNickname
    <3>2. infos \in [DOMAIN infos -> SocketInfo]
      BY DEF TypeOK
    <3> HIDE DEF cmd
    <3>3. /\ DOMAIN infos' = DOMAIN infos
          /\ \A f \in DOMAIN infos : infos'[f].is_closed = infos[f].is_closed
      BY <3>1, <3>2 DEF SocketInfo
    <3> QED
      BY <2>0, <3>1, <3>3, TakeQuietly
  <2> QED
    BY <2>1, <2>2
<1>10. CASE HandleSetUserId
  <2> DEFINE cmd == Head(pending_cmd)
  <2>0. Take("set_user_id")
    BY <1>10 DEF HandleSetUserId
  <2>1. CASE Ignore(cmd.fd)
    BY <2>0, <2>1, TakeQuietly DEF Ignore, tables
  <2>2. CASE ~Ignore(cmd.fd)
    <3>1. /\ infos' = [infos EXCEPT ![cmd.fd].user_id = cmd.user_id,
                                    ![cmd.fd].joined_room_ids = {}]
          /\ open_fds' = open_fds
      BY <1>10, <2>2 DEF HandleSetUserId
    <3>2. infos \in [DOMAIN infos -> SocketInfo]
      BY DEF TypeOK
    <3> HIDE DEF cmd
    <3>3. /\ DOMAIN infos' = DOMAIN infos
          /\ \A f \in DOMAIN infos : infos'[f].is_closed = infos[f].is_closed
      BY <3>1, <3>2 DEF SocketInfo
    <3> QED
      BY <2>0, <3>1, <3>3, TakeQuietly
  <2> QED
    BY <2>1, <2>2
<1>11. ASSUME NEW fds, NEW room_ids, SetFdJoinedRooms(fds, room_ids)
       PROVE  /\ DOMAIN infos' = DOMAIN infos
              /\ \A f \in DOMAIN infos : infos'[f].is_closed = infos[f].is_closed
  <2>1. \A f \in DOMAIN infos : infos[f] \in SocketInfo
    BY DEF TypeOK
  <2> QED
    BY <1>11, <2>1 DEF SetFdJoinedRooms, SocketInfo
<1>12. CASE HandleSetJoinedRooms
  <2> DEFINE cmd == Head(pending_cmd)
  <2>0. Take("set_joined_rooms")
    BY <1>12 DEF HandleSetJoinedRooms
  <2>1. CASE Ignore(cmd.fd)
    BY <2>0, <2>1, TakeQuietly DEF Ignore, tables
  <2>2. CASE ~Ignore(cmd.fd)
    <3>1. SetFdJoinedRooms({cmd.fd}, cmd.room_ids) /\ open_fds' = open_fds
      BY <1>12, <2>2 DEF HandleSetJoinedRooms
    <3> QED
      BY <1>11, <2>0, <3>1, TakeQuietly
  <2> QED
    BY <2>1, <2>2
<1>13. CASE HandleSetJoinedRoomsForUser
  <2> DEFINE cmd == Head(pending_cmd)
             fds == Entry(user_online_fds, cmd.user_id) \cap DOMAIN infos
  <2>1. /\ Take("set_joined_rooms_for_user")
        /\ SetFdJoinedRooms(fds, cmd.room_ids)
        /\ open_fds' = open_fds
    BY <1>13 DEF HandleSetJoinedRoomsForUser
  <2> HIDE DEF fds
  <2> QED
    BY <1>11, <2>1, TakeQuietly
<1>14. CASE HandleSendFriendList
  <2> DEFINE fd == Head(pending_cmd).fd
  <2>0. Take("send_friend_list")
    BY <1>14 DEF HandleSendFriendList
  <2>1. CASE Ignore(fd)
    BY <2>0, <2>1, TakeQuietly DEF Ignore, tables
  <2>2. CASE ~Ignore(fd)
    <3>1. PICK failed \in SUBSET {fd} : AppendSend({fd}, failed)
      BY <1>14, <2>2 DEF HandleSendFriendList
    <3>2. {fd} \in SUBSET DOMAIN infos
      BY <1>14, <2>2 DEF HandleSendFriendList
    <3> HIDE DEF fd
    <3> QED
      BY <2>0, <3>1, <3>2, TakeAndSend
  <2> QED
    BY <2>1, <2>2
<1>15. CASE HandleRoomBroadcast
  <2> DEFINE targets == Entry(room_online_fds, Head(pending_cmd).room_id) \cap DOMAIN infos
  <2>1. PICK failed \in SUBSET targets : AppendSend(targets, failed)
    BY <1>15 DEF HandleRoomBroadcast
  <2>2. targets \in SUBSET DOMAIN infos /\ Take("room_broadcast")
    BY <1>15 DEF HandleRoomBroadcast
  <2> HIDE DEF targets
  <2> QED
    BY <2>1, <2>2, TakeAndSend
<1>16. CASE UNCHANGED vars
  <2>1. Backlog' = Backlog /\ UNCHANGED <<open_fds, infos>>
    BY <1>16 DEF Backlog, vars
  <2> HIDE DEF Backlog
  <2> QED
    BY <2>1 DEF OwnershipInv, FdOwnership, UnregisterMeetsItsSession
<1> QED
  BY <1>1, <1>2, <1>3, <1>4, <1>5, <1>6, <1>7, <1>8, <1>9, <1>10, <1>12,
     <1>13, <1>14, <1>15, <1>16 DEF Next, HandleCommand

\* Every open descriptor has one owner and register_fd() never meets a taken
\* number; a session is closed exactly while its one unregister command is
\* under way, and no such command outlives its session's descriptor number
\* into the life of the next session that gets it.
THEOREM DescriptorsOwned == Spec => [](FdOwnership /\ UnregisterMeetsItsSession)
<1>1. Init => TypeOK /\ OwnershipInv
  BY TypeInit, OwnershipInit
<1>2. TypeOK /\ OwnershipInv /\ [Next]_vars => (TypeOK /\ OwnershipInv)'
  BY TypeStep, OwnershipStep
<1>3. TypeOK /\ OwnershipInv => FdOwnership /\ UnregisterMeetsItsSession
  BY DEF OwnershipInv
<1> QED
  BY <1>1, <1>2, <1>3, PTL DEF Spec

\* An unregister_command takes away the session that asked for it, although it
\* names it by a number the kernel may have handed out again.
THEOREM UnregisterMeetsItsOwn == Spec => []UnregisterMeetsItsSession
  BY DescriptorsOwned, PTL

-----------------------------------------------------------------------------
(* Buffers and EPOLLOUT.  append_send() relies on whoever filled the buffer *)
(* first to have armed EPOLLOUT, so the property is its own invariant.      *)

\* append_send() to some sessions, whichever of them fail.
LEMMA AppendSendArms ==
  ASSUME TypeOK, PendingArmed, NEW targets, NEW failed,
         AppendSend(targets, failed)
  PROVE  PendingArmed'
<1> SUFFICES ASSUME NEW fd \in DOMAIN infos', infos'[fd].has_pending
             PROVE  infos'[fd].epollout
  BY DEF PendingArmed
<1>1. fd \in DOMAIN infos /\ infos[fd] \in SocketInfo
  BY DEF AppendSend, TypeOK
<1>2. CASE fd \in targets
  <2>1. infos'[fd] = [infos[fd] EXCEPT !.has_pending = TRUE,
                        !.epollout = @ \/ ~infos[fd].has_pending]
    BY <1>2 DEF AppendSend
  <2>2. infos'[fd].epollout = (infos[fd].epollout \/ ~infos[fd].has_pending)
    BY <1>1, <2>1 DEF SocketInfo
  <2> QED
    BY <1>1, <2>2 DEF PendingArmed
<1>3. CASE fd \notin targets
  <2>1. infos'[fd] = infos[fd]
    BY <1>3 DEF AppendSend
  <2> QED
    BY <1>1, <2>1 DEF PendingArmed
<1> QED
  BY <1>2, <1>3

\* A step that leaves the buffer and the interest of every session it keeps as
\* they were; a session that appears starts with an empty buffer.
LEMMA SameBuffersStayArmed ==
  ASSUME PendingArmed,
         \A fd \in DOMAIN infos' \cap DOMAIN infos :
           /\ infos'[fd].has_pending = infos[fd].has_pending
           /\ infos'[fd].epollout = infos[fd].epollout,
         \A fd \in DOMAIN infos' \ DOMAIN infos : ~infos'[fd].has_pending
  PROVE  PendingArmed'
  BY DEF PendingArmed

LEMMA ArmedInit == Init => PendingArmed
<1> SUFFICES ASSUME Init PROVE PendingArmed
  OBVIOUS
<1>1. DOMAIN infos = {}
  BY DEF Init, Nothing
<1> QED
  BY <1>1 DEF PendingArmed

LEMMA ArmedStep == TypeOK /\ PendingArmed /\ [Next]_vars => PendingArmed'
<1> SUFFICES ASSUME TypeOK, PendingArmed, [Next]_vars PROVE PendingArmed'
  OBVIOUS
<1>0. infos \in [DOMAIN infos -> SocketInfo]
  BY DEF TypeOK
<1>1. CASE UNCHANGED infos
  BY <1>1 DEF PendingArmed
<1>2. ASSUME NEW fd \in Fds, Disconnect(fd) PROVE PendingArmed'
  BY <1>0, <1>2, SameBuffersStayArmed DEF Disconnect, SocketInfo
<1>3. ASSUME NEW fd \in Fds, FlushSend(fd) PROVE PendingArmed'
  <2>1. PICK left \in BOOLEAN, needs_write \in BOOLEAN :
          infos' = [infos EXCEPT ![fd].has_pending = left,
                                 ![fd].epollout = left \/ needs_write]
    BY <1>3 DEF FlushSend
  <2>2. /\ DOMAIN infos' = DOMAIN infos
        /\ \A f \in DOMAIN infos \ {fd} : infos'[f] = infos[f]
    BY <1>0, <2>1
  <2>3. fd \in DOMAIN infos
    BY <1>3 DEF FlushSend
  <2>4. infos'[fd].has_pending = left /\ infos'[fd].epollout = (left \/ needs_write)
    BY <1>0, <2>1, <2>3 DEF SocketInfo
  <2> QED
    BY <2>2, <2>4 DEF PendingArmed
<1>4. CASE HandleRegister
  <2>1. /\ \A fd \in DOMAIN infos' \cap DOMAIN infos : infos'[fd] = infos[fd]
        /\ \A fd \in DOMAIN infos' \ DOMAIN infos : infos'[fd] = NewSession
    BY <1>4 DEF HandleRegister
  <2>2. ~NewSession.has_pending
    BY DEF NewSession
  <2> QED
    BY <2>1, <2>2, SameBuffersStayArmed
<1>5. CASE HandleUnregister
  <2>1. \A fd \in DOMAIN infos' : fd \in DOMAIN infos /\ infos'[fd] = infos[fd]
    BY <1>5 DEF HandleUnregister, Ignore, tables
  <2> QED
    BY <2>1, SameBuffersStayArmed
<1>6. ASSUME NEW targets, NEW failed, AppendSend(targets, failed)
      PROVE  PendingArmed'
  BY <1>6, AppendSendArms
<1>7. CASE HandleChangeNickname
  <2> DEFINE cmd == Head(pending_cmd)
  <2>1. CASE Ignore(cmd.fd)
    BY <1>1, <2>1 DEF Ignore, tables
  <2>2. CASE ~Ignore(cmd.fd)
    <3>1. infos' = [infos EXCEPT ![cmd.fd].nickname = cmd.nick]
      BY <1>7, <2>2 DEF HandleChangeNickname
    <3> HIDE DEF cmd
    <3>2. \A f \in DOMAIN infos' : /\ f \in DOMAIN infos
                                   /\ infos'[f].has_pending = infos[f].has_pending
                                   /\ infos'[f].epollout = infos[f].epollout
      BY <1>0, <3>1 DEF SocketInfo
    <3> QED
      BY <3>2, SameBuffersStayArmed
  <2> QED
    BY <2>1, <2>2
<1>8. CASE HandleSetUserId
  <2> DEFINE cmd == Head(pending_cmd)
  <2>1. CASE Ignore(cmd.fd)
    BY <1>1, <2>1 DEF Ignore, tables
  <2>2. CASE ~Ignore(cmd.fd)
    <3>1. infos' = [infos EXCEPT ![cmd.fd].user_id = cmd.user_id,
                                 ![cmd.fd].joined_room_ids = {}]
      BY <1>8, <2>2 DEF HandleSetUserId
    <3> HIDE DEF cmd
    <3>2. \A f \in DOMAIN infos' : /\ f \in DOMAIN infos
                                   /\ infos'[f].has_pending = infos[f].has_pending
                                   /\ infos'[f].epollout = infos[f].epollout
      BY <1>0, <3>1 DEF SocketInfo
    <3> QED
      BY <3>2, SameBuffersStayArmed
  <2> QED
    BY <2>1, <2>2
<1>9. ASSUME NEW fds, NEW room_ids, SetFdJoinedRooms(fds, room_ids)
      PROVE  PendingArmed'
  <2>1. \A f \in DOMAIN infos' : /\ f \in DOMAIN infos
                                 /\ infos'[f].has_pending = infos[f].has_pending
                                 /\ infos'[f].epollout = infos[f].epollout
    BY <1>0, <1>9 DEF SetFdJoinedRooms, SocketInfo
  <2> QED
    BY <2>1, SameBuffersStayArmed
<1>10. CASE HandleSendOne \/ HandleSendFriendList \/ HandleRoomBroadcast
  <2>1. UNCHANGED infos \/ \E targets, failed : AppendSend(targets, failed)
    BY <1>10 DEF HandleSendOne, HandleSendFriendList, HandleRoomBroadcast,
       Ignore, tables
  <2> QED
    BY <1>1, <1>6, <2>1
<1>11. CASE HandleSetJoinedRooms \/ HandleSetJoinedRoomsForUser
  <2>1. UNCHANGED infos \/ \E fds, room_ids : SetFdJoinedRooms(fds, room_ids)
    BY <1>11 DEF HandleSetJoinedRooms, HandleSetJoinedRoomsForUser, Ignore,
       tables
  <2> QED
    BY <1>1, <1>9, <2>1
<1>12. ASSUME \/ \E fd \in Fds : Accept(fd)
              \/ \E cmd \in Requests : Request(cmd)
              \/ Work
              \/ UNCHANGED vars
       PROVE  PendingArmed'
  BY <1>1, <1>12 DEF Accept, Request, Work, tables, vars
<1> QED
  BY <1>2, <1>3, <1>4, <1>5, <1>7, <1>8, <1>10, <1>11, <1>12
     DEF Next, HandleCommand

\* A session with bytes to send waits for EPOLLOUT in every reachable state,
\* although append_send() arms it only when it finds the buffer empty and
\* handle_send() takes it away when it thinks everything is written.
THEOREM PendingIsArmed == Spec => []PendingArmed
<1>1. TypeOK /\ PendingArmed /\ [Next]_vars => (TypeOK /\ PendingArmed)'
  BY TypeStep, ArmedStep
<1> QED
  BY TypeInit, ArmedInit, <1>1, PTL DEF Spec

-----------------------------------------------------------------------------
(* The registry implements Presence.                                       *)

\* The sessions as Presence sees them.
Shown == [fd \in DOMAIN infos |-> Visible(fd)]

\* What Presence sees of the next state, when every session it keeps shows
\* the same.
LEMMA ShownAfter ==
  ASSUME NEW fds \in SUBSET DOMAIN infos, DOMAIN infos' = fds,
         \A fd \in fds :
           /\ infos'[fd].user_id = infos[fd].user_id
           /\ infos'[fd].nickname = infos[fd].nickname
           /\ infos'[fd].joined_room_ids = infos[fd].joined_room_ids
  PROVE  Shown' = [fd \in fds |-> Shown[fd]]
  BY DEF Shown, Visible

LEMMA ShownStays ==
  ASSUME DOMAIN infos' = DOMAIN infos,
         \A fd \in DOMAIN infos :
           /\ infos'[fd].user_id = infos[fd].user_id
           /\ infos'[fd].nickname = infos[fd].nickname
           /\ infos'[fd].joined_room_ids = infos[fd].joined_room_ids
  PROVE  Shown' = Shown
  BY DEF Shown, Visible

\* append_send() to some sessions is what Presence calls sending.
LEMMA AppendSendSends ==
  ASSUME TypeOK, NEW targets \in SUBSET DOMAIN infos,
         NEW failed \in SUBSET targets, AppendSend(targets, failed),
         NEW line, delivered' = [f \in targets \ failed |-> line]
  PROVE  P!Send(targets, line)
<1>1. DOMAIN infos' = DOMAIN infos \ failed
  BY DEF AppendSend
<1>2. ASSUME NEW fd \in DOMAIN infos'
      PROVE  /\ infos'[fd].user_id = infos[fd].user_id
             /\ infos'[fd].nickname = infos[fd].nickname
             /\ infos'[fd].joined_room_ids = infos[fd].joined_room_ids
  <2>1. infos[fd] \in SocketInfo
    BY <1>1 DEF TypeOK
  <2> QED
    BY <1>1, <2>1 DEF AppendSend, SocketInfo
<1>3. Shown' = [fd \in DOMAIN infos \ failed |-> Shown[fd]]
  BY <1>1, <1>2, ShownAfter
<1>4. DOMAIN Shown = DOMAIN infos
  BY DEF Shown
<1>5. P!Keep(DOMAIN infos \ failed)
  BY <1>3 DEF P!Keep, Shown
<1> QED
  BY <1>4, <1>5 DEF P!Send, Shown

\* The abstract lookups are the entries of the exact indexes.
LEMMA LookupsAgree ==
  ASSUME TypeOK, IndexInv
  PROVE  /\ \A r \in Rooms : P!InRoom(r) = Entry(room_online_fds, r) \cap DOMAIN infos
         /\ \A u \in Users : P!LoggedInAs(u) = Entry(user_online_fds, u) \cap DOMAIN infos
         /\ P!Online = DOMAIN user_online_fds
<1>1. ASSUME NEW r \in Rooms
      PROVE  P!InRoom(r) = Entry(room_online_fds, r) \cap DOMAIN infos
  <2>1. P!InRoom(r) = {fd \in DOMAIN infos : r \in infos[fd].joined_room_ids}
    BY DEF P!InRoom, Visible
  <2>2. \A fd \in DOMAIN infos :
          Listed(room_online_fds, r, fd) <=> r \in infos[fd].joined_room_ids
    BY DEF IndexInv, RoomIndexExact, TypeOK
  <2> QED
    BY <2>1, <2>2 DEF Entry, Listed
<1>2. ASSUME NEW u \in Users
      PROVE  /\ P!LoggedInAs(u) = Entry(user_online_fds, u) \cap DOMAIN infos
             /\ P!LoggedInAs(u) # {} <=> u \in DOMAIN user_online_fds
  <2>1. P!LoggedInAs(u) = {fd \in DOMAIN infos : infos[fd].user_id = u}
    BY DEF P!LoggedInAs, Visible
  <2>2. \A fd \in Fds :
          Listed(user_online_fds, u, fd)
            <=> fd \in DOMAIN infos /\ infos[fd].user_id = u
    BY DEF IndexInv, UserIndexExact
  <2>3. u \in DOMAIN user_online_fds
          => user_online_fds[u] \in SUBSET Fds /\ user_online_fds[u] # {}
    BY DEF IndexInv, NoGhostEntries, NoEmptyEntry, TypeOK, IndexOver
  <2>4. DOMAIN infos \subseteq Fds
    BY DEF TypeOK
  <2> QED
    BY <2>1, <2>2, <2>3, <2>4 DEF Entry, Listed
<1>3. P!Online = DOMAIN user_online_fds
  <2>1. DOMAIN user_online_fds \subseteq Users
    BY DEF TypeOK, IndexOver
  <2> QED
    BY <1>2, <2>1 DEF P!Online
<1> QED
  BY <1>1, <1>2, <1>3

\* Taking a command takes it from Presence's queue.
LEMMA TakeObeys ==
  ASSUME TypeOK, NEW op, Take(op)
  PROVE  /\ Backlog # <<>>
         /\ Head(Backlog) = Head(pending_cmd)
         /\ Head(Backlog).op = op
         /\ Backlog' = Tail(Backlog)
  BY TakeType, BacklogTake, BacklogType

LEMMA NamesAgree ==
  ASSUME NEW fd PROVE SenderName(fd) = P!NameOf(fd)
  BY DEF SenderName, P!NameOf, Visible

LEMMA RegisterImplements ==
  ASSUME TypeOK, HandleRegister PROVE P!Next
<1> DEFINE fd == Head(pending_cmd).fd
<1>1. /\ Backlog # <<>>
      /\ Head(Backlog) = Head(pending_cmd)
      /\ Head(Backlog).op = "register"
      /\ Backlog' = Tail(Backlog)
  BY TakeObeys DEF HandleRegister
<1>2. CASE UNCHANGED infos
  <2>1. Shown' = Shown
    BY <1>2 DEF Shown, Visible
  <2>2. delivered' = Nothing
    BY DEF HandleRegister
  <2>3. P!Register(fd)
    BY <2>1, <2>2 DEF P!Register, Shown, P!Nothing, Nothing
  <2> QED
    BY <1>1, <2>3 DEF P!Next, P!Obey
<1>3. CASE /\ fd \notin DOMAIN infos
           /\ infos' = [f \in DOMAIN infos \cup {fd} |->
                          IF f = fd THEN NewSession ELSE infos[f]]
  <2>1. Shown' = [f \in DOMAIN Shown \cup {fd} |->
                    IF f = fd THEN [user_id |-> Empty, nickname |-> Guest, rooms |-> {}]
                    ELSE Shown[f]]
    BY <1>3 DEF Shown, Visible, NewSession
  <2>2. delivered' = Nothing /\ fd \notin DOMAIN Shown
    BY <1>3 DEF HandleRegister, Shown
  <2> HIDE DEF fd
  <2>3. P!Register(fd)
    BY <2>1, <2>2 DEF P!Register, Shown, P!Nothing, Nothing
  <2> QED
    BY <1>1, <2>3 DEF P!Next, P!Obey, fd
<1> QED
  BY <1>2, <1>3 DEF HandleRegister

LEMMA UnregisterImplements ==
  ASSUME TypeOK, HandleUnregister PROVE P!Next
<1> DEFINE fd == Head(pending_cmd).fd
<1>1. /\ Backlog # <<>>
      /\ Head(Backlog) = Head(pending_cmd)
      /\ Head(Backlog).op = "unregister"
      /\ Backlog' = Tail(Backlog)
  BY TakeObeys DEF HandleUnregister
<1>2. /\ DOMAIN infos' = DOMAIN infos \ {fd}
      /\ \A f \in DOMAIN infos \ {fd} : infos'[f] = infos[f]
      /\ delivered' = Nothing
  BY DEF HandleUnregister, Ignore, tables
<1> HIDE DEF fd
<1>3. Shown' = [f \in DOMAIN infos \ {fd} |-> Shown[f]]
  BY <1>2, ShownAfter
<1>4. P!Unregister(fd)
  BY <1>2, <1>3 DEF P!Unregister, P!Keep, Shown, P!Nothing, Nothing
<1> QED
  BY <1>1, <1>4 DEF P!Next, P!Obey, fd

LEMMA SendOneImplements ==
  ASSUME TypeOK, HandleSendOne PROVE P!Next
<1> DEFINE cmd == Head(pending_cmd)
<1>1. /\ Backlog # <<>>
      /\ Head(Backlog) = cmd
      /\ Head(Backlog).op = "send_one"
      /\ Backlog' = Tail(Backlog)
  BY TakeObeys DEF HandleSendOne
<1>2. DOMAIN Shown = DOMAIN infos
  BY DEF Shown
<1>3. P!Send({cmd.fd} \cap DOMAIN Shown, Response(cmd.text))
  <2>1. CASE Ignore(cmd.fd)
    <3>1. Shown' = [f \in DOMAIN infos |-> Shown[f]]
      BY <2>1 DEF Ignore, tables, Shown, Visible
    <3>2. delivered' = Nothing
      BY <2>1 DEF HandleSendOne, Ignore
    <3>3. {cmd.fd} \cap DOMAIN Shown = {}
      BY <1>2, <2>1 DEF Ignore
    <3> HIDE DEF cmd
    <3> QED
      BY <1>2, <3>1, <3>2, <3>3 DEF P!Send, P!Keep, Shown, Nothing
  <2>2. CASE ~Ignore(cmd.fd)
    <3>1. PICK failed \in SUBSET {cmd.fd} :
            /\ AppendSend({cmd.fd}, failed)
            /\ delivered' = [f \in {cmd.fd} \ failed |-> Response(cmd.text)]
      BY <2>2 DEF HandleSendOne
    <3>2. {cmd.fd} \in SUBSET DOMAIN infos
      BY <2>2 DEF HandleSendOne
    <3> HIDE DEF cmd
    <3>3. P!Send({cmd.fd}, Response(cmd.text))
      BY <3>1, <3>2, AppendSendSends
    <3>4. {cmd.fd} \cap DOMAIN Shown = {cmd.fd}
      BY <1>2, <3>2
    <3> QED
      BY <3>3, <3>4
  <2> QED
    BY <2>1, <2>2
<1> QED
  BY <1>1, <1>3 DEF P!Next, P!Obey, P!SendOne, Shown, P!Response, Response

LEMMA SendFriendListImplements ==
  ASSUME TypeOK, IndexInv, HandleSendFriendList PROVE P!Next
<1> DEFINE cmd == Head(pending_cmd)
           line == FriendList(cmd.friend_ids \cap P!Online)
<1>1. /\ Backlog # <<>>
      /\ Head(Backlog) = cmd
      /\ Head(Backlog).op = "send_friend_list"
      /\ Backlog' = Tail(Backlog)
  BY TakeObeys DEF HandleSendFriendList
<1>2. DOMAIN Shown = DOMAIN infos
  BY DEF Shown
<1>3. P!Send({cmd.fd} \cap DOMAIN Shown, line)
  <2>1. CASE Ignore(cmd.fd)
    <3>1. Shown' = [f \in DOMAIN infos |-> Shown[f]]
      BY <2>1 DEF Ignore, tables, Shown, Visible
    <3>2. delivered' = Nothing
      BY <2>1 DEF HandleSendFriendList, Ignore
    <3>3. {cmd.fd} \cap DOMAIN Shown = {}
      BY <1>2, <2>1 DEF Ignore
    <3> HIDE DEF cmd, line
    <3> QED
      BY <1>2, <3>1, <3>2, <3>3 DEF P!Send, P!Keep, Shown, Nothing
  <2>2. CASE ~Ignore(cmd.fd)
    <3>0. line = FriendList(cmd.friend_ids \cap DOMAIN user_online_fds)
      BY LookupsAgree
    <3>1. PICK failed \in SUBSET {cmd.fd} :
            /\ AppendSend({cmd.fd}, failed)
            /\ delivered' = [f \in {cmd.fd} \ failed |->
                 FriendList(cmd.friend_ids \cap DOMAIN user_online_fds)]
      BY <2>2 DEF HandleSendFriendList
    <3>2. {cmd.fd} \in SUBSET DOMAIN infos
      BY <2>2 DEF HandleSendFriendList
    <3> HIDE DEF cmd, line
    <3>3. P!Send({cmd.fd}, line)
      BY <3>0, <3>1, <3>2, AppendSendSends
    <3>4. {cmd.fd} \cap DOMAIN Shown = {cmd.fd}
      BY <1>2, <3>2
    <3> QED
      BY <3>3, <3>4
  <2> QED
    BY <2>1, <2>2
<1> QED
  BY <1>1, <1>3 DEF P!Next, P!Obey, P!SendFriendList, Shown, P!FriendList, FriendList

LEMMA RoomBroadcastImplements ==
  ASSUME TypeOK, IndexInv, HandleRoomBroadcast PROVE P!Next
<1> DEFINE cmd == Head(pending_cmd)
           targets == Entry(room_online_fds, cmd.room_id) \cap DOMAIN infos
           line == Message(SenderName(cmd.fd), cmd.text)
<1>1. /\ Backlog # <<>>
      /\ Head(Backlog) = cmd
      /\ Head(Backlog).op = "room_broadcast"
      /\ Backlog' = Tail(Backlog)
  BY TakeObeys DEF HandleRoomBroadcast
<1>2. PICK failed \in SUBSET targets :
        /\ AppendSend(targets, failed)
        /\ delivered' = [f \in targets \ failed |-> line]
  BY DEF HandleRoomBroadcast
<1>3. cmd.room_id \in Rooms
  BY TakeType, CommandFields DEF HandleRoomBroadcast
<1>4. targets = P!InRoom(cmd.room_id)
  BY <1>3, LookupsAgree
<1>5. line = P!Message(P!NameOf(cmd.fd), cmd.text)
  BY NamesAgree DEF Message, P!Message
<1>6. targets \in SUBSET DOMAIN infos
  OBVIOUS
<1> HIDE DEF targets, line, cmd
<1>7. P!Send(targets, line)
  BY <1>2, <1>6, AppendSendSends
<1>8. P!RoomBroadcast(cmd)
  BY <1>4, <1>5, <1>7 DEF P!RoomBroadcast
<1> QED
  BY <1>1, <1>8 DEF P!Next, P!Obey, cmd

LEMMA ChangeNicknameImplements ==
  ASSUME TypeOK, HandleChangeNickname PROVE P!Next
<1> DEFINE cmd == Head(pending_cmd)
<1>1. /\ Backlog # <<>>
      /\ Head(Backlog) = cmd
      /\ Head(Backlog).op = "change_nickname"
      /\ Backlog' = Tail(Backlog)
  BY TakeObeys DEF HandleChangeNickname
<1>2. infos \in [DOMAIN infos -> SocketInfo]
  BY DEF TypeOK
<1>3. \/ cmd.fd \notin DOMAIN infos /\ UNCHANGED infos
      \/ infos' = [infos EXCEPT ![cmd.fd].nickname = cmd.nick]
  BY DEF HandleChangeNickname, Ignore, tables
<1>4. delivered' = Nothing
  BY DEF HandleChangeNickname
<1> HIDE DEF cmd
<1>5. Shown' = [fd \in DOMAIN Shown |->
                  IF fd \in {cmd.fd} THEN [Shown[fd] EXCEPT !.nickname = cmd.nick]
                  ELSE Shown[fd]]
  <2>1. DOMAIN infos' = DOMAIN infos
    BY <1>2, <1>3
  <2>2. ASSUME NEW fd \in DOMAIN infos
        PROVE  Visible(fd)' = IF fd \in {cmd.fd}
                              THEN [Visible(fd) EXCEPT !.nickname = cmd.nick]
                              ELSE Visible(fd)
    <3>1. infos[fd] \in SocketInfo
      BY <1>2
    <3>2. CASE fd = cmd.fd
      BY <1>2, <1>3, <3>1, <3>2 DEF Visible, SocketInfo
    <3>3. CASE fd # cmd.fd
      BY <1>2, <1>3, <3>3 DEF Visible
    <3> QED
      BY <3>2, <3>3
  <2> QED
    BY <2>1, <2>2 DEF Shown
<1>6. P!ChangeNickname(cmd)
  BY <1>4, <1>5 DEF P!ChangeNickname, P!Update, Shown, P!Nothing, Nothing
<1> QED
  BY <1>1, <1>6 DEF P!Next, P!Obey, cmd

LEMMA SetUserIdImplements ==
  ASSUME TypeOK, HandleSetUserId PROVE P!Next
<1> DEFINE cmd == Head(pending_cmd)
<1>1. /\ Backlog # <<>>
      /\ Head(Backlog) = cmd
      /\ Head(Backlog).op = "set_user_id"
      /\ Backlog' = Tail(Backlog)
  BY TakeObeys DEF HandleSetUserId
<1>2. infos \in [DOMAIN infos -> SocketInfo]
  BY DEF TypeOK
<1>3. \/ cmd.fd \notin DOMAIN infos /\ UNCHANGED infos
      \/ infos' = [infos EXCEPT ![cmd.fd].user_id = cmd.user_id,
                                ![cmd.fd].joined_room_ids = {}]
  BY DEF HandleSetUserId, Ignore, tables
<1>4. delivered' = Nothing
  BY DEF HandleSetUserId
<1> HIDE DEF cmd
<1>5. Shown' = [fd \in DOMAIN Shown |->
                  IF fd \in {cmd.fd}
                  THEN [Shown[fd] EXCEPT !.user_id = cmd.user_id, !.rooms = {}]
                  ELSE Shown[fd]]
  <2>1. DOMAIN infos' = DOMAIN infos
    BY <1>2, <1>3
  <2>2. ASSUME NEW fd \in DOMAIN infos
        PROVE  Visible(fd)' = IF fd \in {cmd.fd}
                              THEN [Visible(fd) EXCEPT !.user_id = cmd.user_id, !.rooms = {}]
                              ELSE Visible(fd)
    <3>1. infos[fd] \in SocketInfo
      BY <1>2
    <3>2. CASE fd = cmd.fd
      BY <1>2, <1>3, <3>1, <3>2, ZenonT(60) DEF Visible, SocketInfo
    <3>3. CASE fd # cmd.fd
      BY <1>2, <1>3, <3>3 DEF Visible
    <3> QED
      BY <3>2, <3>3
  <2> QED
    BY <2>1, <2>2 DEF Shown
<1>6. P!SetUserId(cmd)
  BY <1>4, <1>5 DEF P!SetUserId, P!Update, Shown, P!Nothing, Nothing
<1> QED
  BY <1>1, <1>6 DEF P!Next, P!Obey, cmd

\* set_fd_joined_rooms() for a set of sessions.
LEMMA SetFdJoinedRoomsSets ==
  ASSUME TypeOK, NEW fds, NEW room_ids, delivered' = Nothing,
         SetFdJoinedRooms(fds \cap DOMAIN infos, room_ids)
  PROVE  P!SetRooms(fds, room_ids)
<1>1. infos \in [DOMAIN infos -> SocketInfo]
  BY DEF TypeOK
<1>2. Shown' = [fd \in DOMAIN Shown |->
                  IF fd \in fds
                  THEN [Shown[fd] EXCEPT !.rooms = {r \in room_ids : r > 0}]
                  ELSE Shown[fd]]
  BY <1>1 DEF Shown, Visible, SocketInfo, SetFdJoinedRooms
<1> QED
  BY <1>2 DEF P!SetRooms, P!Update, Shown, P!Nothing, Nothing

LEMMA SetJoinedRoomsImplements ==
  ASSUME TypeOK, HandleSetJoinedRooms PROVE P!Next
<1> DEFINE cmd == Head(pending_cmd)
<1>1. /\ Backlog # <<>>
      /\ Head(Backlog) = cmd
      /\ Head(Backlog).op = "set_joined_rooms"
      /\ Backlog' = Tail(Backlog)
  BY TakeObeys DEF HandleSetJoinedRooms
<1>2. delivered' = Nothing
  BY DEF HandleSetJoinedRooms
<1>3. P!SetRooms({cmd.fd}, cmd.room_ids)
  <2>1. CASE Ignore(cmd.fd)
    <3>1. Shown' = [fd \in DOMAIN Shown |->
                      IF fd \in {cmd.fd}
                      THEN [Shown[fd] EXCEPT !.rooms = {r \in cmd.room_ids : r > 0}]
                      ELSE Shown[fd]]
      BY <2>1 DEF Ignore, tables, Shown, Visible
    <3> QED
      BY <1>2, <3>1 DEF P!SetRooms, P!Update, Shown, P!Nothing, Nothing
  <2>2. CASE ~Ignore(cmd.fd)
    <3>1. SetFdJoinedRooms({cmd.fd}, cmd.room_ids) /\ cmd.fd \in DOMAIN infos
      BY <2>2 DEF HandleSetJoinedRooms
    <3>2. {cmd.fd} \cap DOMAIN infos = {cmd.fd}
      BY <3>1
    <3> HIDE DEF cmd
    <3> QED
      BY <1>2, <3>1, <3>2, SetFdJoinedRoomsSets
  <2> QED
    BY <2>1, <2>2
<1> QED
  BY <1>1, <1>3 DEF P!Next, P!Obey

LEMMA SetJoinedRoomsForUserImplements ==
  ASSUME TypeOK, IndexInv, HandleSetJoinedRoomsForUser PROVE P!Next
<1> DEFINE cmd == Head(pending_cmd)
           fds == Entry(user_online_fds, cmd.user_id) \cap DOMAIN infos
<1>1. /\ Backlog # <<>>
      /\ Head(Backlog) = cmd
      /\ Head(Backlog).op = "set_joined_rooms_for_user"
      /\ Backlog' = Tail(Backlog)
  BY TakeObeys DEF HandleSetJoinedRoomsForUser
<1>2. cmd.user_id \in Users
  BY TakeType, CommandFields DEF HandleSetJoinedRoomsForUser
<1>3. fds = P!LoggedInAs(cmd.user_id) /\ fds \cap DOMAIN infos = fds
  BY <1>2, LookupsAgree
<1>4. SetFdJoinedRooms(fds, cmd.room_ids) /\ delivered' = Nothing
  BY DEF HandleSetJoinedRoomsForUser
<1> HIDE DEF fds, cmd
<1>5. P!SetRooms(fds, cmd.room_ids)
  BY <1>3, <1>4, SetFdJoinedRoomsSets
<1> QED
  BY <1>1, <1>3, <1>5 DEF P!Next, P!Obey, cmd

\* What happens between two commands: giving one, or nothing to be seen.
LEMMA LoopImplements ==
  ASSUME TypeOK,
         \/ \E fd \in Fds : Accept(fd) \/ Disconnect(fd) \/ FlushSend(fd)
         \/ \E cmd \in Requests : Request(cmd)
         \/ Work
  PROVE  P!Next
<1>0. infos \in [DOMAIN infos -> SocketInfo]
  BY DEF TypeOK
<1>1. ASSUME NEW cmd \in Commands, Push(cmd), UNCHANGED pending_cmd,
             Shown' = Shown, delivered' = Nothing
      PROVE  P!Next
  <2>1. Backlog' = Append(Backlog, cmd)
    BY <1>1, BacklogPush
  <2>2. cmd \in P!Commands
    BY DEF Commands, P!Commands, WorkerCommands, P!WorkerCommands
  <2>3. P!Give
    BY <1>1, <2>1, <2>2 DEF P!Give, Shown, P!Nothing, Nothing
  <2> QED
    BY <2>3 DEF P!Next
<1>2. ASSUME Shown' = Shown, Backlog' = Backlog, delivered' = Nothing
      PROVE  P!Next
  BY <1>2 DEF P!Next, P!Quiet, Shown, P!Nothing, Nothing
<1>3. UNCHANGED infos => Shown' = Shown
  BY DEF Shown, Visible
<1>4. ASSUME NEW fd \in Fds, Accept(fd) PROVE P!Next
  <2>1. [op |-> "register", fd |-> fd] \in Commands
    BY DEF Commands
  <2> QED
    BY <1>1, <1>3, <1>4, <2>1 DEF Accept
<1>5. ASSUME NEW fd \in Fds, Disconnect(fd) PROVE P!Next
  <2>1. [op |-> "unregister", fd |-> fd] \in Commands
    BY DEF Commands
  <2>2. Shown' = Shown
    BY <1>0, <1>5, ShownStays DEF Disconnect, SocketInfo
  <2> QED
    BY <1>1, <1>5, <2>1, <2>2 DEF Disconnect
<1>6. ASSUME NEW fd \in Fds, FlushSend(fd) PROVE P!Next
  <2>1. PICK left \in BOOLEAN, needs_write \in BOOLEAN :
          infos' = [infos EXCEPT ![fd].has_pending = left,
                                 ![fd].epollout = left \/ needs_write]
    BY <1>6 DEF FlushSend
  <2>2. /\ DOMAIN infos' = DOMAIN infos
        /\ \A f \in DOMAIN infos :
             /\ infos'[f].user_id = infos[f].user_id
             /\ infos'[f].nickname = infos[f].nickname
             /\ infos'[f].joined_room_ids = infos[f].joined_room_ids
    BY <1>0, <2>1 DEF SocketInfo
  <2>3. Shown' = Shown
    BY <2>2, ShownStays
  <2>4. Backlog' = Backlog /\ delivered' = Nothing
    BY <1>6 DEF FlushSend, Backlog
  <2> QED
    BY <1>2, <2>3, <2>4
<1>7. ASSUME NEW cmd \in Requests, Request(cmd) PROVE P!Next
  <2>1. cmd \in Commands
    BY RequestsAssumption DEF Commands
  <2> QED
    BY <1>1, <1>3, <1>7, <2>1 DEF Request, tables
<1>8. CASE Work
  BY <1>2, <1>3, <1>8, BacklogWork DEF Work, tables
<1> QED
  BY <1>4, <1>5, <1>6, <1>7, <1>8

LEMMA StepImplements == TypeOK /\ IndexInv /\ [Next]_vars => [P!Next]_(P!vars)
<1> SUFFICES ASSUME TypeOK, IndexInv, [Next]_vars PROVE [P!Next]_(P!vars)
  OBVIOUS
<1>1. CASE UNCHANGED vars
  BY <1>1 DEF vars, P!vars, Visible, Backlog
<1>2. CASE Next
  <2>1. P!Next
    BY <1>2, LoopImplements, RegisterImplements, UnregisterImplements,
       SendOneImplements, ChangeNicknameImplements, SetUserIdImplements,
       SetJoinedRoomsImplements, SetJoinedRoomsForUserImplements,
       SendFriendListImplements, RoomBroadcastImplements
       DEF Next, HandleCommand
  <2> QED
    BY <2>1
<1> QED
  BY <1>1, <1>2

LEMMA InitImplements == Init => P!Init
<1> SUFFICES ASSUME Init PROVE P!Init
  OBVIOUS
<1>1. Backlog = <<>>
  BY DEF Init, Backlog
<1>2. Shown = Nothing
  BY DEF Init, Shown, Nothing
<1> QED
  BY <1>1, <1>2 DEF P!Init, Init, Shown, P!Nothing, Nothing

\* The registry implements Presence, whatever descriptors, users, rooms and
\* requests there are: the first state maps to the first state, and every step
\* to giving a command, obeying the oldest one, or nothing.
THEOREM RegistryImplementsPresence == Spec => ImplementsPresence
<1>1. TypeOK /\ IndexInv /\ [Next]_vars => (TypeOK /\ IndexInv)'
  BY TypeStep, IndexStep
<1> QED
  BY TypeInit, IndexInit, InitImplements, <1>1, StepImplements, PTL
     DEF Spec, ImplementsPresence, P!Spec

=============================================================================
