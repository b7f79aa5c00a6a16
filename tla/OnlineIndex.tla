---------------------------- MODULE OnlineIndex ----------------------------
(***************************************************************************)
(* The two lookup structures of epoll_registry,                            *)
(*    std::unordered_map<std::int64_t, std::unordered_set<int>> room_...   *)
(*    std::unordered_map<std::string,  std::unordered_set<int>> user_...   *)
(* as values: a partial function from keys to sets of descriptors.  A key  *)
(* that the map does not contain is outside the DOMAIN; an entry holding   *)
(* the empty set is representable (and must not occur, because             *)
(* handle_command(send_friend_list_command) takes the mere presence of a   *)
(* key for "online").                                                      *)
(*                                                                         *)
(* An update is given as a set of <<key, descriptor>> pairs.               *)
(***************************************************************************)

EmptyIndex == [k \in {} |-> {}]

\* An index over keys K and descriptors F without empty entries.
IndexOver(idx, K, F) ==
  /\ DOMAIN idx \subseteq K
  /\ idx \in [DOMAIN idx -> SUBSET F]

NoEmptyEntry(idx) == \A k \in DOMAIN idx : idx[k] # {}

\* Is fd listed under key k?
Listed(idx, k, fd) == k \in DOMAIN idx /\ fd \in idx[k]

\* find(key): the descriptors under k, none when the key is absent.
Entry(idx, k) == IF k \in DOMAIN idx THEN idx[k] ELSE {}

\* map[key].insert(fd) for every pair: operator[] creates a missing entry.
Insert(idx, pairs) ==
  [k \in DOMAIN idx \cup {p[1] : p \in pairs} |->
     Entry(idx, k) \cup {p[2] : p \in {q \in pairs : q[1] = k}}]

\* Fault: an entry stays when its last descriptor goes.
EraseKeepsEntry(idx, pairs) ==
  [k \in DOMAIN idx |-> {fd \in idx[k] : <<k, fd>> \notin pairs}]

\* find(key), erase(fd), and the entry itself goes when it became empty.
Erase(idx, pairs) ==
  LET left(k) == {fd \in idx[k] : <<k, fd>> \notin pairs}
      gone(k) == (\E p \in pairs : p[1] = k) /\ left(k) = {}
  IN  [k \in {j \in DOMAIN idx : ~gone(j)} |-> left(k)]

=============================================================================
