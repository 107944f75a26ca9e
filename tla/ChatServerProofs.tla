-------------------------- MODULE ChatServerProofs --------------------------
(***************************************************************************)
(* Machine-checked proofs about ChatServer, for every number of users,     *)
(* names, descriptors and every content of the uninitialised fd_set.       *)
(***************************************************************************)
EXTENDS ChatServer, TLAPS

(* The bounds on indices and descriptors the other proofs rest on.         *)
LEMMA Domains ==
  /\ MaxClient \in Nat /\ Listener \in Nat /\ FdLimit \in Nat
  /\ Listener \in Fds
  /\ 0 .. Listener \subseteq Fds
  /\ \A f \in Fds : f \in Int /\ 0 <= f
  BY ConstantsOK DEF Fds

(* A user's cell lies in the array, and is a record of a name and a        *)
(* descriptor.                                                             *)
LEMMA UserCells ==
  ASSUME TypeOK
  PROVE  \A i \in Users : /\ i \in Cells /\ i \in Int /\ 0 <= i
                          /\ clients[i] \in Entries
                          /\ clients[i].fd \in Members
  BY Domains DEF TypeOK, Users, Cells, Members

(* A lookup loop that runs at least over the table stops at the user whose *)
(* descriptor it is given: "index <= client_count" (helper.c, 274) never   *)
(* reaches a cell past the table when the descriptor is a user's.          *)
LEMMA LookupFinds ==
  ASSUME TypeOK, NEW fd \in Members, NEW n \in Int, client_count <= n,
         NEW k, StopsAt(fd, n, k)
  PROVE  k \in Users /\ clients[k].fd = fd
<1>1. PICK i \in Users : clients[i].fd = fd
  BY DEF Members
<1>2. i \in Int /\ 0 <= i /\ i < client_count /\ client_count \in Int
  BY Domains DEF Users, TypeOK
<1>3. k \in Int /\ 0 <= k /\ k <= n
  BY DEF StopsAt
<1>4. ~(i \in 0 .. k - 1)
  BY <1>1 DEF StopsAt
<1>5. k <= i
  BY <1>2, <1>3, <1>4
<1> QED
  BY <1>2, <1>3, <1>5 DEF StopsAt, Users

(* The name a lookup finds for a user's descriptor is that user's.         *)
LEMMA NameIsSenders ==
  ASSUME TypeOK, NEW fd \in Members, NEW n \in Int, client_count <= n,
         NEW name, NameFound(fd, n, name)
  PROVE  \E i \in Users : clients[i] = [name |-> name, fd |-> fd]
<1>1. PICK k \in 0 .. n : StopsAt(fd, n, k) /\ (k < n => name = clients[k].name)
  BY DEF NameFound
<1>2. k \in Users /\ clients[k].fd = fd
  BY <1>1, LookupFinds
<1>3. k < n
  BY <1>2, Domains DEF Users, TypeOK
<1>4. clients[k] \in Entries
  BY <1>2, UserCells
<1>5. clients[k] = [name |-> name, fd |-> fd]
  BY <1>1, <1>2, <1>3, <1>4 DEF Entries
<1> QED
  BY <1>2, <1>5

(* A descriptor above the listener that select reports is a user's.        *)
LEMMA ReportedIsMember ==
  ASSUME IInv, pc = "scan", NEW fd \in set2, Listener < fd
  PROVE  fd \in Members
  BY DEF IInv, Alive, WatchIsTable

(* The recipients of a broadcast for fd: users other than fd, or standard  *)
(* descriptors.                                                            *)
LEMMA OthersAreMembers ==
  ASSUME NEW S \in SUBSET Fds, NEW top \in Int, NEW fd, NEW M,
         {f \in S : f <= top /\ f > Listener} \subseteq M
  PROVE  /\ Others(S, top, fd) \subseteq (M \cup StdFds) \ {fd}
         /\ Others(S, top, fd) \subseteq Fds
<1>1. ASSUME NEW j \in Others(S, top, fd)
      PROVE  j \in (M \cup StdFds) \ {fd} /\ j \in Fds
  <2>1. j \in S /\ j <= top /\ j # Listener /\ j # fd /\ j \in Fds
    BY <1>1 DEF Others
  <2>2. j \in Int /\ 0 <= j /\ Listener \in Int
    BY <2>1, Domains
  <2>3. CASE j > Listener
    BY <2>1, <2>3
  <2>4. CASE ~(j > Listener)
    BY <2>1, <2>2, <2>4 DEF StdFds
  <2> QED
    BY <2>3, <2>4
<1> QED
  BY <1>1

-----------------------------------------------------------------------------
(* The steps of IInv /\ [Next]_vars => IInv', one lemma per handler.       *)

LEMMA InitIInv == Init => IInv
<1> SUFFICES ASSUME Init PROVE IInv
  OBVIOUS
<1>1. Users = {} /\ Members = {}
  BY DEF Init, Users, Members
<1>2. TypeOK
  BY ConstantsOK, Domains DEF Init, TypeOK, PCs, Calls, NoMsg
<1>3. Watched \subseteq 0 .. Listener /\ Listener \in Int
  BY <1>2, Domains DEF Init, Watched, TypeOK
<1>4. {f \in Watched : f > Listener} = {}
  <2> SUFFICES ASSUME NEW f \in Watched PROVE ~(f > Listener)
    OBVIOUS
  <2> QED
    BY <1>3
<1>5. WatchIsTable
  BY <1>1, <1>4 DEF WatchIsTable
<1> QED
  BY <1>1, <1>2, <1>5, Domains
  DEF Init, IInv, UniqueUsers, NoDescriptorLost, SelectNeverFails, CastNamesSender,
      CastToMembers, Alive

(* Every action of the loop that leaves the table, the watch set and the   *)
(* open descriptors alone keeps the facts about them.                      *)
LEMMA TableUnchanged ==
  ASSUME UNCHANGED table
  PROVE  Users' = Users /\ Members' = Members
  BY DEF table, Users, Members

LEMMA ExitIInv ==
  ASSUME IInv, NEW c \in Calls \ {"select"}, Exit(c)
  PROVE  IInv'
<1>1. TypeOK'
  BY DEF IInv, TypeOK, Exit, PCs, table, watch
<1>2. UniqueUsers'
  BY TableUnchanged DEF IInv, UniqueUsers, Exit, table
<1> QED
  BY <1>1, <1>2 DEF IInv, Exit, WatchIsTable, NoDescriptorLost, SelectNeverFails,
                    CastNamesSender, CastToMembers

LEMMA SelectIInv ==
  ASSUME IInv, NEW ready \in SUBSET Fds, Select(ready)
  PROVE  IInv'
<1>1. Watched \subseteq open
  <2> SUFFICES ASSUME NEW f \in Watched PROVE f \in open
    OBVIOUS
  <2>1. f \in Fds /\ pc = "select"
    BY DEF Watched, IInv, TypeOK, Select
  <2>2. CASE f > Listener
    BY <2>1, <2>2 DEF IInv, WatchIsTable, NoDescriptorLost
  <2>3. CASE ~(f > Listener)
    <3>1. f \in 0 .. Listener
      BY <2>1, <2>3, Domains
    <3> QED
      BY <2>1, <3>1 DEF IInv, NoDescriptorLost
  <2> QED
    BY <2>2, <2>3
<1>2. /\ pc = "select" /\ pc' = "scan" /\ set2' = ready /\ ready \subseteq Watched
      /\ UNCHANGED <<table, watch, open, cur, msg, todo, why>>
  BY <1>1 DEF Select
<1>3. TypeOK'
  BY <1>2 DEF IInv, TypeOK, PCs, table, watch
<1>4. Users' = Users /\ Members' = Members /\ Watched' = Watched /\ clients' = clients
  BY <1>2, TableUnchanged DEF Watched, watch, table
<1> QED
  BY <1>2, <1>3, <1>4
  DEF IInv, UniqueUsers, WatchIsTable, NoDescriptorLost, SelectNeverFails,
      CastNamesSender, CastToMembers, Alive, watch

LEMMA AcceptIInv ==
  ASSUME IInv, Accept
  PROVE  IInv'
<1>1. /\ pc = "scan" /\ pc' = "join" /\ set2' = set2 \ {Listener}
      /\ UNCHANGED <<table, watch, msg, todo, why>>
  BY DEF Accept, Turn
<1>2. PICK fd \in Fds \ open :
        /\ \A g \in Fds \ open : fd <= g
        /\ cur' = fd
        /\ open' = open \cup {fd}
  BY DEF Accept
<1>3. open = (0 .. Listener) \cup Members
  BY <1>1 DEF IInv, NoDescriptorLost
<1>4. fd \in Int /\ 0 <= fd /\ max_fd \in Int /\ Listener \in Int /\ Listener < fd
  BY <1>2, <1>3, Domains DEF IInv, TypeOK
<1>5. fd <= max_fd + 1
  <2>1. SUFFICES ASSUME fd > max_fd + 1 PROVE FALSE
    BY <1>4
  <2>2. max_fd + 1 \in Fds
    BY <1>4, <2>1, Domains DEF Fds, IInv, TypeOK
  <2>3. max_fd + 1 \notin open
    BY <1>1, <1>3, <1>4 DEF IInv, Alive
  <2> QED
    BY <1>2, <2>1, <2>2, <2>3, <1>4
<1>6. fd \notin Members \cup set2
  <2>1. fd \notin Members
    BY <1>2, <1>3
  <2>2. fd \notin Watched
    BY <1>1, <1>4, <2>1 DEF IInv, WatchIsTable
  <2> QED
    BY <1>1, <2>1, <2>2 DEF IInv, Alive
<1>7. Users' = Users /\ Members' = Members /\ Watched' = Watched /\ clients' = clients
  BY <1>1, TableUnchanged DEF Watched, watch, table
<1>8. TypeOK'
  BY <1>1, <1>2 DEF IInv, TypeOK, PCs, table, watch
<1>9. NoDescriptorLost'
  BY <1>1, <1>2, <1>3, <1>7 DEF NoDescriptorLost
<1>10. Alive'
  BY <1>1, <1>2, <1>4, <1>5, <1>6, <1>7 DEF IInv, Alive, watch
<1> QED
  BY <1>1, <1>7, <1>8, <1>9, <1>10
  DEF IInv, UniqueUsers, WatchIsTable, SelectNeverFails, CastNamesSender, CastToMembers

LEMMA RefuseIInv ==
  ASSUME IInv, NEW name \in Names, Refuse(name)
  PROVE  IInv'
<1>1. /\ pc = "join" /\ pc' = "scan" /\ open' = open \ {cur}
      /\ UNCHANGED <<table, watch, set2, cur, msg, todo, why>>
  BY DEF Refuse
<1>2. Users' = Users /\ Members' = Members /\ Watched' = Watched /\ clients' = clients
  BY <1>1, TableUnchanged DEF Watched, watch, table
<1>3. TypeOK'
  BY <1>1 DEF IInv, TypeOK, PCs, table, watch
<1>4. cur \notin Members /\ Listener < cur
  BY <1>1 DEF IInv, Alive
<1>5. cur \notin 0 .. Listener
  BY <1>4, Domains DEF IInv, TypeOK
<1>6. NoDescriptorLost'
  BY <1>1, <1>2, <1>4, <1>5 DEF IInv, NoDescriptorLost
<1> QED
  BY <1>1, <1>2, <1>3, <1>6
  DEF IInv, UniqueUsers, WatchIsTable, SelectNeverFails, CastNamesSender, CastToMembers,
      Alive, watch

LEMMA AdmitIInv ==
  ASSUME IInv, NEW name \in Names, Admit(name)
  PROVE  IInv'
<1> DEFINE user == [name |-> name, fd |-> cur]
<1>1. /\ pc = "join" /\ pc' = "cast"
      /\ clients' = [clients EXCEPT ![client_count] = user]
      /\ client_count' = client_count + 1
      /\ max_fd' = IF cur > max_fd THEN cur ELSE max_fd
      /\ set1' = set1 \cup {cur}
      /\ msg' = [kind |-> "joined", name |-> name]
      /\ todo' = Others(set1', max_fd', cur)
      /\ UNCHANGED <<set2, open, cur, why>>
  BY DEF Admit, Broadcast, HigherFd
<1>2. /\ client_count # MaxClient
      /\ \A i \in 0 .. client_count - 1 : clients[i].name # name
  BY DEF Admit, check_name
<1>3. /\ client_count \in Nat /\ client_count < MaxClient /\ client_count \in Cells
      /\ clients \in [Cells -> Entries] /\ user \in Entries
      /\ cur \in Fds /\ max_fd \in Fds /\ set1 \subseteq Fds
      /\ MaxClient \in Nat /\ Listener \in Nat
  BY <1>2, Domains DEF IInv, TypeOK, Cells, Entries
<1>4. /\ cur \notin Members /\ cur \notin set2 /\ Listener < cur /\ cur <= max_fd + 1
      /\ Listener <= max_fd /\ Listener \in set1 /\ set2 \subseteq Watched
      /\ Members \subseteq (Listener + 1) .. max_fd
      /\ cur \in Int /\ max_fd \in Int
  BY <1>1, <1>3, Domains DEF IInv, Alive
<1>5. /\ Users' = Users \cup {client_count} /\ client_count \notin Users
      /\ \A i \in Users : clients'[i] = clients[i]
      /\ clients'[client_count] = user
  BY <1>1, <1>3 DEF Users, Cells
<1>6. Members' = Members \cup {cur}
  BY <1>5 DEF Members
<1>7. Watched' = Watched \cup {cur}
  <2> SUFFICES ASSUME NEW f PROVE f \in Watched' <=> f \in Watched \cup {cur}
    OBVIOUS
  <2>1. CASE f = cur
    BY <1>1, <1>4, <2>1 DEF Watched
  <2>2. CASE f # cur /\ f \in set1
    <3>1. f \in Int
      BY <1>3, <2>2, Domains
    <3> QED
      BY <1>1, <1>4, <2>2, <3>1 DEF Watched
  <2>3. CASE f # cur /\ f \notin set1
    BY <1>1, <2>3 DEF Watched
  <2> QED
    BY <2>1, <2>2, <2>3
<1>8. {f \in Watched' : f > Listener} = Members'
  BY <1>1, <1>4, <1>6, <1>7 DEF IInv, WatchIsTable
<1>9. todo' \subseteq (Members' \cup StdFds) \ {cur} /\ todo' \subseteq Fds
  <2>1. set1' \in SUBSET Fds /\ max_fd' \in Int
    BY <1>1, <1>3, <1>4
  <2>2. {f \in set1' : f <= max_fd' /\ f > Listener} \subseteq Members'
    BY <1>8 DEF Watched
  <2> QED
    BY <1>1, <2>1, <2>2, OthersAreMembers
<1>10. TypeOK'
  <2>1. clients' \in [Cells -> Entries]
    BY <1>1, <1>3
  <2>2. client_count' \in 0 .. MaxClient
    BY <1>1, <1>3
  <2>3. set1' \subseteq Fds /\ max_fd' \in Fds
    BY <1>1, <1>3
  <2>4. msg' \in Forwards
    BY <1>1 DEF Forwards
  <2> QED
    BY <1>1, <1>9, <2>1, <2>2, <2>3, <2>4 DEF IInv, TypeOK, PCs
<1>11. UniqueUsers'
  <2> SUFFICES ASSUME NEW i \in Users', NEW j \in Users', i # j
               PROVE  clients'[i].name # clients'[j].name /\ clients'[i].fd # clients'[j].fd
    BY DEF UniqueUsers
  <2>1. CASE i \in Users /\ j \in Users
    BY <1>5, <2>1 DEF IInv, UniqueUsers
  <2>2. CASE i = client_count /\ j \in Users
    BY <1>2, <1>4, <1>5, <2>2 DEF Members, Users
  <2>3. CASE i \in Users /\ j = client_count
    BY <1>2, <1>4, <1>5, <2>3 DEF Members, Users
  <2> QED
    BY <1>5, <2>1, <2>2, <2>3
<1>12. NoDescriptorLost'
  BY <1>1, <1>6 DEF IInv, NoDescriptorLost
<1>13. CastNamesSender'
  BY <1>1, <1>5 DEF CastNamesSender
<1>14. Alive'
  <2>1. max_fd \in Int /\ max_fd' \in Int /\ max_fd <= max_fd' /\ cur <= max_fd'
    BY <1>1, <1>4
  <2>2. Members' \subseteq (Listener + 1) .. max_fd'
    BY <1>3, <1>4, <1>6, <2>1
  <2>3. Listener \in set1' /\ Listener <= max_fd'
    BY <1>1, <1>3, <1>4, <2>1
  <2>4. set2' \subseteq Watched' /\ cur' \notin set2'
    BY <1>1, <1>4, <1>7
  <2> QED
    BY <1>1, <2>2, <2>3, <2>4 DEF Alive
<1>15. WatchIsTable'
  BY <1>8 DEF WatchIsTable
<1>16. CastToMembers'
  BY <1>1, <1>9 DEF CastToMembers
<1>17. SelectNeverFails'
  BY <1>1 DEF IInv, SelectNeverFails
<1> QED
  BY <1>10, <1>11, <1>12, <1>13, <1>14, <1>15, <1>16, <1>17 DEF IInv

(* Forward and Hangup start a broadcast in the same way.                   *)
LEMMA BroadcastIInv ==
  ASSUME IInv, NEW fd \in Fds, Turn(fd), fd > Listener,
         NEW m \in Forwards,
         \E i \in Users : clients[i] = [name |-> m.name, fd |-> fd],
         Broadcast(m, Others(set1, max_fd, fd)),
         cur' = fd, set2' = set2 \ {fd},
         UNCHANGED <<table, watch, open, why>>
  PROVE  IInv'
<1>1. pc = "scan" /\ fd \in set2 /\ pc' = "cast" /\ msg' = m
      /\ todo' = Others(set1, max_fd, fd)
  BY DEF Turn, Broadcast
<1>2. Users' = Users /\ Members' = Members /\ Watched' = Watched /\ clients' = clients
  BY TableUnchanged DEF Watched, watch, table
<1>3. todo' \subseteq (Members' \cup StdFds) \ {fd} /\ todo' \subseteq Fds
  <2>1. set1 \in SUBSET Fds /\ max_fd \in Int
    BY Domains DEF IInv, TypeOK
  <2>2. {f \in set1 : f <= max_fd /\ f > Listener} \subseteq Members
    BY <1>1 DEF IInv, WatchIsTable, Watched
  <2> QED
    BY <1>1, <1>2, <2>1, <2>2, OthersAreMembers
<1>4. TypeOK'
  BY <1>1, <1>3 DEF IInv, TypeOK, PCs, table, watch
<1>5. CastNamesSender'
  BY <1>1, <1>2 DEF CastNamesSender
<1> QED
  BY <1>1, <1>2, <1>3, <1>4, <1>5
  DEF IInv, UniqueUsers, WatchIsTable, NoDescriptorLost, SelectNeverFails, CastToMembers,
      Alive, watch

LEMMA ForwardIInv ==
  ASSUME IInv, NEW fd \in Fds, NEW m \in Forwards, Forward(fd, m)
  PROVE  IInv'
<1>1. fd \in Members
  BY Domains, ReportedIsMember DEF Forward, Turn
<1>2. client_count + 1 \in Int /\ client_count <= client_count + 1
  BY Domains DEF IInv, TypeOK
<1>3. \E i \in Users : clients[i] = [name |-> m.name, fd |-> fd]
  <2>1. TypeOK /\ NameFound(fd, client_count + 1, m.name)
    BY DEF Forward, IInv
  <2> DEFINE n == client_count + 1
             name == m.name
  <2>2. NameFound(fd, n, name) /\ n \in Int /\ client_count <= n
    BY <2>1, <1>2
  <2> HIDE DEF n, name
  <2>3. \E i \in Users : clients[i] = [name |-> name, fd |-> fd]
    BY <1>1, <2>1, <2>2, NameIsSenders
  <2> QED
    BY <2>3 DEF name
<1> QED
  BY <1>3, BroadcastIInv DEF Forward

LEMMA HangupIInv ==
  ASSUME IInv, NEW fd \in Fds, Hangup(fd)
  PROVE  IInv'
<1>1. PICK name \in Names :
        /\ NameFound(fd, client_count, name)
        /\ Broadcast([kind |-> "left", name |-> name], Others(set1, max_fd, fd))
  BY DEF Hangup
<1>2. fd \in Members
  BY Domains, ReportedIsMember DEF Hangup, Turn
<1>3. client_count \in Int /\ client_count <= client_count
  BY Domains DEF IInv, TypeOK
<1>4. \E i \in Users : clients[i] = [name |-> name, fd |-> fd]
  BY <1>1, <1>2, <1>3, NameIsSenders DEF IInv
<1>5. [kind |-> "left", name |-> name] \in Forwards
  BY DEF Forwards
<1> QED
  BY <1>1, <1>4, <1>5, BroadcastIInv DEF Hangup

LEMMA SendToIInv ==
  ASSUME IInv, NEW fd \in Fds, SendTo(fd)
  PROVE  IInv'
<1>1. pc = "cast" /\ todo' = todo \ {fd}
      /\ UNCHANGED <<pc, table, watch, set2, open, cur, msg, why>>
  BY DEF SendTo, NextRecipient
<1>2. Users' = Users /\ Members' = Members /\ Watched' = Watched /\ clients' = clients
  BY <1>1, TableUnchanged DEF Watched, watch, table
<1>3. TypeOK'
  BY <1>1 DEF IInv, TypeOK, PCs, table, watch
<1> QED
  BY <1>1, <1>2, <1>3
  DEF IInv, UniqueUsers, WatchIsTable, NoDescriptorLost, SelectNeverFails,
      CastNamesSender, CastToMembers, Alive, watch

(* remove_client closes the gap: what is left is the table without cell k. *)
LEMMA RemoveCell ==
  ASSUME TypeOK, UniqueUsers, NEW k \in Users,
         clients' = Shifted(k), client_count' = client_count - 1
  PROVE  /\ Users' \subseteq Users
         /\ \A i \in Users' : \E j \in Users \ {k} : clients'[i] = clients[j]
         /\ \A j \in Users \ {k} : \E i \in Users' : clients'[i] = clients[j]
         /\ Members' = Members \ {clients[k].fd}
         /\ UniqueUsers'
         /\ clients' \in [Cells -> Entries]
         /\ client_count' \in 0 .. MaxClient
<1>1. /\ client_count \in Int /\ client_count <= MaxClient /\ MaxClient \in Int
      /\ k \in Int /\ 0 <= k /\ k < client_count
  BY Domains DEF TypeOK, Users
<1> DEFINE from(i) == IF k <= i THEN i + 1 ELSE i
<1>2. \A i \in Users' : /\ i \in Users
                        /\ from(i) \in Users \ {k}
                        /\ clients'[i] = clients[from(i)]
  <2> SUFFICES ASSUME NEW i \in Users'
               PROVE  i \in Users /\ from(i) \in Users \ {k} /\ clients'[i] = clients[from(i)]
    OBVIOUS
  <2>1. i \in Int /\ 0 <= i /\ i + 1 < client_count /\ i \in Cells
    BY <1>1 DEF Users, Cells
  <2>2. i \in Users /\ from(i) \in Users \ {k}
    BY <1>1, <2>1 DEF Users
  <2>3. clients'[i] = clients[from(i)]
    BY <2>1 DEF Shifted
  <2> QED
    BY <2>2, <2>3
<1>3. \A j \in Users \ {k} : \E i \in Users' : from(i) = j
  <2> SUFFICES ASSUME NEW j \in Users \ {k} PROVE \E i \in Users' : from(i) = j
    OBVIOUS
  <2>1. j \in Int /\ 0 <= j /\ j < client_count /\ j # k
    BY <1>1 DEF Users
  <2>2. CASE j < k
    <3>1. j \in Users' /\ from(j) = j
      BY <1>1, <2>1, <2>2 DEF Users
    <3> QED
      BY <3>1
  <2>3. CASE k < j
    <3>1. j - 1 \in Users' /\ from(j - 1) = j
      BY <1>1, <2>1, <2>3 DEF Users
    <3> QED
      BY <3>1
  <2> QED
    BY <1>1, <2>1, <2>2, <2>3
<1>4. \A i, j \in Users' : i # j => from(i) # from(j)
  BY <1>1 DEF Users
<1> HIDE DEF from
<1>5. Members' = Members \ {clients[k].fd}
  <2>1. ASSUME NEW f \in Members' PROVE f \in Members \ {clients[k].fd}
    BY <1>2, <2>1 DEF Members, UniqueUsers
  <2>2. ASSUME NEW f \in Members, f # clients[k].fd PROVE f \in Members'
    <3>1. PICK j \in Users : clients[j].fd = f
      BY DEF Members
    <3>2. j \in Users \ {k}
      BY <2>2, <3>1
    <3> QED
      BY <1>2, <1>3, <3>1, <3>2 DEF Members
  <2> QED
    BY <2>1, <2>2
<1>6. UniqueUsers'
  BY <1>2, <1>4 DEF UniqueUsers
<1>7. clients' \in [Cells -> Entries]
  <2> SUFFICES ASSUME NEW i \in Cells
               PROVE  (IF k <= i /\ i + 1 < client_count THEN clients[i + 1] ELSE clients[i])
                        \in Entries
    BY DEF Shifted
  <2>1. i \in Int /\ 0 <= i
    BY <1>1 DEF Cells
  <2>2. i + 1 < client_count => i + 1 \in Cells
    BY <1>1, <2>1 DEF Cells
  <2> QED
    BY <2>2 DEF TypeOK
<1>8. client_count' \in 0 .. MaxClient
  BY <1>1
<1> QED
  BY <1>2, <1>3, <1>5, <1>6, <1>7, <1>8

LEMMA CastDoneIInv ==
  ASSUME IInv, CastDone
  PROVE  IInv'
<1>1. /\ pc = "cast" /\ pc' = "scan" /\ msg' = NoMsg
      /\ UNCHANGED <<set2, max_fd, cur, todo, why>>
  BY DEF CastDone
<1>2. CASE msg.kind = "left"
  <2>1. PICK k \in 0 .. client_count : StopsAt(cur, client_count, k) /\ clients' = Shifted(k)
    BY <1>2 DEF CastDone
  <2>2. /\ client_count' = client_count - 1 /\ set1' = set1 \ {cur} /\ open' = open \ {cur}
    BY <1>2 DEF CastDone, CloseAndClear
  <2>3. cur \in Members /\ cur \notin set2
    BY <1>1, UserCells DEF IInv, CastNamesSender, Alive
  <2>4. client_count \in Int /\ client_count <= client_count
    BY Domains DEF IInv, TypeOK
  <2>5. k \in Users /\ clients[k].fd = cur
    BY <2>1, <2>3, <2>4, LookupFinds DEF IInv
  <2>6. /\ Members' = Members \ {cur}
        /\ UniqueUsers'
        /\ clients' \in [Cells -> Entries]
        /\ client_count' \in 0 .. MaxClient
    BY <2>1, <2>2, <2>5, RemoveCell DEF IInv
  <2>7. Watched' = Watched \ {cur}
    BY <1>1, <2>2 DEF Watched
  <2>8. Listener < cur /\ cur \in Int /\ Listener \in Int
    BY <1>1, <2>3, Domains DEF IInv, Alive, TypeOK
  <2>9. TypeOK'
    BY <1>1, <2>2, <2>6 DEF IInv, TypeOK, PCs
  <2>10. WatchIsTable'
    BY <1>1, <2>6, <2>7 DEF IInv, WatchIsTable
  <2>11. cur \notin 0 .. Listener
    BY <2>8
  <2>12. NoDescriptorLost'
    BY <1>1, <2>2, <2>6, <2>11 DEF IInv, NoDescriptorLost
  <2>13. Alive'
    BY <1>1, <2>2, <2>3, <2>6, <2>7, <2>8 DEF IInv, Alive
  <2> QED
    BY <1>1, <2>6, <2>9, <2>10, <2>12, <2>13
    DEF IInv, SelectNeverFails, CastNamesSender, CastToMembers
<1>3. CASE msg.kind # "left"
  <2>1. UNCHANGED <<table, set1, open>>
    BY <1>3 DEF CastDone
  <2>2. Users' = Users /\ Members' = Members /\ Watched' = Watched /\ clients' = clients
    BY <1>1, <2>1, TableUnchanged DEF Watched, table
  <2>3. TypeOK'
    BY <1>1, <2>1 DEF IInv, TypeOK, PCs, table
  <2> QED
    BY <1>1, <2>1, <2>2, <2>3
    DEF IInv, UniqueUsers, WatchIsTable, NoDescriptorLost, SelectNeverFails,
        CastNamesSender, CastToMembers, Alive
<1> QED
  BY <1>2, <1>3

LEMMA StutterIInv ==
  ASSUME IInv, UNCHANGED <<table, watch, set2, open, cur, msg, todo, why>>,
         pc' = pc \/ (pc = "scan" /\ pc' = "select")
  PROVE  IInv'
<1>1. Users' = Users /\ Members' = Members /\ Watched' = Watched /\ clients' = clients
  BY TableUnchanged DEF Watched, watch, table
<1>2. TypeOK'
  BY DEF IInv, TypeOK, PCs, table, watch
<1> QED
  BY <1>1, <1>2
  DEF IInv, UniqueUsers, WatchIsTable, NoDescriptorLost, SelectNeverFails,
      CastNamesSender, CastToMembers, Alive, watch

(* Every step of the server preserves the invariant.                       *)
LEMMA NextIInv == IInv /\ [Next]_vars => IInv'
<1> SUFFICES ASSUME IInv, [Next]_vars PROVE IInv'
  OBVIOUS
<1>1. ASSUME NEW ready \in SUBSET Fds, Select(ready) PROVE IInv'
  BY <1>1, SelectIInv
<1>2. CASE ScanDone
  BY <1>2, StutterIInv DEF ScanDone
<1>3. CASE Accept
  BY <1>3, AcceptIInv
<1>4. CASE AcceptFails
  BY <1>4, ExitIInv DEF AcceptFails, Calls
<1>5. ASSUME NEW name \in Names, Refuse(name) PROVE IInv'
  BY <1>5, RefuseIInv
<1>6. ASSUME NEW name \in Names, Admit(name) PROVE IInv'
  BY <1>6, AdmitIInv
<1>7. CASE ReplyFails
  BY <1>7, ExitIInv DEF ReplyFails, Calls
<1>8. ASSUME NEW fd \in Fds, NEW m \in Forwards, Forward(fd, m) PROVE IInv'
  BY <1>8, ForwardIInv
<1>9. ASSUME NEW fd \in Fds, Hangup(fd) PROVE IInv'
  BY <1>9, HangupIInv
<1>10. ASSUME NEW fd \in Fds, RecvFails(fd) PROVE IInv'
  BY <1>10, ExitIInv DEF RecvFails, Calls
<1>11. ASSUME NEW fd \in Fds, SendTo(fd) PROVE IInv'
  BY <1>11, SendToIInv
<1>12. ASSUME NEW fd \in Fds, SendFails(fd) PROVE IInv'
  BY <1>12, ExitIInv DEF SendFails, Calls
<1>13. CASE CastDone
  BY <1>13, CastDoneIInv
<1>14. CASE UNCHANGED vars
  BY <1>14, StutterIInv DEF vars, table, watch
<1> QED
  BY <1>1, <1>2, <1>3, <1>4, <1>5, <1>6, <1>7, <1>8, <1>9, <1>10, <1>11, <1>12,
     <1>13, <1>14
  DEF Next, Serve

-----------------------------------------------------------------------------
(* The results.                                                            *)

(* The inductive invariant holds in every reachable state.                 *)
THEOREM Invariance == Spec => []IInv
<1> QED
  BY InitIInv, NextIInv, PTL DEF Spec

(* Type correctness: client_count stays within the table, every index the  *)
(* handlers write is one of its cells, and every descriptor is in range.   *)
THEOREM TypeCorrect == Spec => []TypeOK
<1>1. IInv => TypeOK
  BY DEF IInv
<1> QED
  BY <1>1, Invariance, PTL

(* No two users of the table ever share a name or a descriptor.            *)
THEOREM NoTwoUsersAlike == Spec => []UniqueUsers
<1>1. IInv => UniqueUsers
  BY DEF IInv
<1> QED
  BY <1>1, Invariance, PTL

(* The watch set and the table of users agree, whatever the uninitialised  *)
(* fd_set held.                                                            *)
THEOREM DescriptorsAgree == Spec => []WatchIsTable
<1>1. IInv => WatchIsTable
  BY DEF IInv
<1> QED
  BY <1>1, Invariance, PTL

(* No descriptor is leaked by a refusal or a hangup, and none is closed    *)
(* under a user.                                                           *)
THEOREM DescriptorsKept == Spec => []NoDescriptorLost
<1>1. IInv => NoDescriptorLost
  BY DEF IInv
<1> QED
  BY <1>1, Invariance, PTL

(* The process never ends because select was asked to watch a closed       *)
(* descriptor.                                                             *)
THEOREM SelectSucceeds == Spec => []SelectNeverFails
<1>1. IInv => SelectNeverFails
  BY DEF IInv
<1> QED
  BY <1>1, Invariance, PTL

(* Every broadcast is made in the name of the user being served: the       *)
(* lookup never runs past the table and the payload is never uninitialised.*)
THEOREM BroadcastsAreRight == Spec => []CastNamesSender
<1>1. IInv => CastNamesSender
  BY DEF IInv
<1> QED
  BY <1>1, Invariance, PTL

(* A broadcast is sent to no closed descriptor and never back to the user  *)
(* it comes from.                                                          *)
THEOREM BroadcastsReachUsers == Spec => []CastToMembers
<1>1. IInv => CastToMembers
  BY DEF IInv
<1> QED
  BY <1>1, Invariance, PTL

(* A user whose descriptor waits to be served stays in the table: only     *)
(* Admit and the end of a hangup change it, the first keeps every user and *)
(* the second drops one that is no longer in set2.                         *)
LEMMA StepKeepsWaiting ==
  ASSUME IInv, Next, NEW i \in Users, clients[i].fd \in set2 \cap set2'
  PROVE  \E j \in Users' : clients'[j] = clients[i]
<1>1. CASE UNCHANGED table
  BY <1>1, TableUnchanged DEF table
<1>2. ASSUME NEW name \in Names, Admit(name)
      PROVE  i \in Users' /\ clients'[i] = clients[i]
  <2>1. /\ clients' = [clients EXCEPT ![client_count] = [name |-> name, fd |-> cur]]
        /\ client_count' = client_count + 1
    BY <1>2 DEF Admit
  <2>2. i \in Cells /\ i # client_count
    BY UserCells, Domains DEF IInv, TypeOK, Users
  <2> QED
    BY <2>1, <2>2, Domains DEF IInv, TypeOK, Users
<1>3. ASSUME CastDone, msg.kind = "left"
      PROVE  \E j \in Users' : clients'[j] = clients[i]
  <2>1. pc = "cast" /\ client_count' = client_count - 1
    BY <1>3 DEF CastDone, CloseAndClear
  <2>2. PICK k \in 0 .. client_count : StopsAt(cur, client_count, k) /\ clients' = Shifted(k)
    BY <1>3 DEF CastDone, CloseAndClear
  <2>3. cur \in Members /\ cur \notin set2
    BY <2>1, UserCells DEF IInv, CastNamesSender, Alive
  <2>4. client_count \in Int /\ client_count <= client_count
    BY Domains DEF IInv, TypeOK
  <2>5. k \in Users /\ clients[k].fd = cur
    BY <2>2, <2>3, <2>4, LookupFinds DEF IInv
  <2>6. i \in Users \ {k}
    BY <2>3, <2>5
  <2>7. \A j \in Users \ {k} : \E h \in Users' : clients'[h] = clients[j]
    BY <2>1, <2>2, <2>5, RemoveCell DEF IInv
  <2> QED
    BY <2>6, <2>7
<1>4. CASE CastDone /\ msg.kind # "left"
  BY <1>1, <1>4 DEF CastDone
<1>5. UNCHANGED table \/ (\E name \in Names : Admit(name)) \/ CastDone
  BY DEF Next, Serve, Select, ScanDone, Accept, AcceptFails, Refuse, ReplyFails, Forward,
         Hangup, RecvFails, SendTo, SendFails, Exit
<1> QED
  BY <1>1, <1>2, <1>3, <1>4, <1>5

(* Serving one reported descriptor neither drops nor replaces the user of  *)
(* another one that select reported with it.                               *)
THEOREM WaitingUsersStay == Spec => SnapshotStable
<1>1. IInv /\ [Next]_vars =>
        [\A i \in Users :
           clients[i].fd \in set2 \cap set2' =>
             \E j \in Users' : clients'[j] = clients[i]]_vars
  BY StepKeepsWaiting
<1> QED
  BY <1>1, Invariance, PTL DEF Spec, SnapshotStable
=============================================================================
