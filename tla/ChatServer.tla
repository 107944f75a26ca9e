----------------------------- MODULE ChatServer -----------------------------
(***************************************************************************)
(* The SBCP chat server of Programming_Assignment_2: the select loop of    *)
(* server.c and the handlers of helper.c it calls.                         *)
(*                                                                         *)
(* The server is one process with one thread, so a step is a stretch of    *)
(* code between two system calls whose outcome matters.  This module is    *)
(* an OPEN system: which descriptors select reports, what recv returns and *)
(* whether a send succeeds are left to the parameters of the actions.      *)
(* Module Chat closes it with the clients and their TCP connections.       *)
(***************************************************************************)
EXTENDS Integers

CONSTANTS
  Names,      \* the user names a JOIN payload may carry
  Texts,      \* the payloads a SEND may carry
  MaxClient,  \* max_client, the third argument of the program
  Listener,   \* the listening socket; lower descriptors were open before it
  FdLimit,    \* the process may hold the descriptors 0 .. FdLimit - 1
  Garbage,    \* what the never zeroed fd_set set1 may hold at the start
  Junk        \* what a cell of the malloc'ed array clients may hold

Fds     == 0 .. FdLimit - 1
StdFds  == 0 .. Listener - 1
Entries == [name : Names, fd : Fds]

(***************************************************************************)
(* clients has max_client cells, 0 .. MaxClient - 1.  Cell MaxClient is    *)
(* the memory just past the array: it is never written, and one lookup     *)
(* loop of broadcast_message may read it.                                  *)
(***************************************************************************)
Cells == 0 .. MaxClient

ASSUME ConstantsOK ==
  /\ MaxClient \in Nat
  /\ Listener \in Nat
  /\ FdLimit \in Nat
  /\ Listener < FdLimit
  /\ Garbage \subseteq SUBSET Fds
  /\ Junk \subseteq Entries

(* What the server forwards: every one of them is an FWD / MESSAGE frame.  *)
Forwards ==
       [kind : {"joined", "left", "idle"}, name : Names]
  \cup [kind : {"said"}, name : Names, text : Texts]

VARIABLES
  pc,            \* where the process is: one of PCs
  clients,       \* clients[]: the table of users
  client_count,  \* client_count
  set1, set2,    \* the watched descriptors; those select reported, unserved
  max_fd,        \* max_fd
  open,          \* the descriptors the kernel holds open for the process
  cur,           \* new_client_fd or socket_itr, the descriptor being served
  msg,           \* the frame being broadcast
  todo,          \* the descriptors the broadcast loop has still to reach
  why            \* the call whose failure ended the process

table == <<clients, client_count>>
watch == <<set1, max_fd>>
vars  == <<pc, clients, client_count, set1, set2, max_fd, open, cur, msg, todo, why>>

PCs == {"select", "scan", "join", "cast", "exited"}

NoMsg == [kind |-> "none"]

Init ==
  /\ pc = "select"
  /\ clients \in [Cells -> Junk]
  /\ client_count = 0
  /\ \E g \in Garbage : set1 = g \cup {Listener}
  /\ set2 = {}
  /\ max_fd = Listener
  /\ open = 0 .. Listener
  /\ cur = Listener
  /\ msg = NoMsg
  /\ todo = {}
  /\ why = "running"

-----------------------------------------------------------------------------
(* Operators shared by the handlers.                                       *)

(* exit(-1), or death by SIGPIPE: nothing of the process survives.         *)
Exit(call) ==
  /\ pc' = "exited"
  /\ why' = call
  /\ open' = {}
  /\ UNCHANGED <<table, watch, set2, cur, msg, todo>>

(* The loop "for k in 0 .. n-1: if clients[k].socket_fd == fd: break" ends *)
(* with its index equal to k; k = n when no cell matches.                  *)
StopsAt(fd, n, k) ==
  /\ k \in 0 .. n
  /\ \A j \in 0 .. k - 1 : clients[j].fd # fd
  /\ k < n => clients[k].fd = fd

(* The name found by such a loop; when it finds none the payload it would  *)
(* have filled is uninitialised memory.                                    *)
NameFound(fd, n, name) ==
  \E k \in 0 .. n :
    /\ StopsAt(fd, n, k)
    /\ name \in Names
    /\ k < n => name = clients[k].name

(* Mutants of Others: the sender is not left out; the loop ends too early. *)
OthersAndSender(watched, top, fd) == {j \in watched : j <= top} \ {Listener}
OthersButTop(watched, top, fd)    == {j \in watched : j < top} \ {Listener, fd}

(* The descriptors a broadcast on behalf of fd goes to.                    *)
Others(watched, top, fd) == {j \in watched : j <= top} \ {Listener, fd}

(* The scan of set2 by increasing descriptor has reached fd.               *)
Turn(fd) ==
  /\ pc = "scan"
  /\ fd \in set2
  /\ \A g \in set2 : fd <= g

Broadcast(m, to) ==
  /\ pc' = "cast"
  /\ msg' = m
  /\ todo' = to

-----------------------------------------------------------------------------
(* The select loop of main.                                                *)

(* Mutant: select(max_fd, ...).                                            *)
WatchedButTop == {f \in set1 : f < max_fd}

Watched == {f \in set1 : f <= max_fd}

(* select() returns the readable descriptors, or fails with EBADF when one *)
(* of those it is asked to watch is not open.                              *)
Select(ready) ==
  /\ pc = "select"
  /\ ready \subseteq Watched
  /\ ready # {}
  /\ IF Watched \subseteq open
     THEN /\ set2' = ready
          /\ pc' = "scan"
          /\ UNCHANGED <<table, watch, open, cur, msg, todo, why>>
     ELSE Exit("select")

ScanDone ==
  /\ pc = "scan"
  /\ set2 = {}
  /\ pc' = "select"
  /\ UNCHANGED <<table, watch, set2, open, cur, msg, todo, why>>

-----------------------------------------------------------------------------
(* A new connection: accept_connection and join_message_process.           *)

(* accept() returns the lowest free descriptor.                            *)
Accept ==
  /\ Turn(Listener)
  /\ \E fd \in Fds \ open :
       /\ \A g \in Fds \ open : fd <= g
       /\ cur' = fd
       /\ open' = open \cup {fd}
  /\ pc' = "join"
  /\ set2' = set2 \ {Listener}
  /\ UNCHANGED <<table, watch, msg, todo, why>>

AcceptFails ==
  /\ Turn(Listener)
  /\ Exit("accept")

(* Mutants: no limit; the last user is not compared with.                  *)
NoLimit(name) ==
  IF \E i \in 0 .. client_count - 1 : clients[i].name = name THEN -2 ELSE 0
NotTheLast(name) ==
  IF client_count = MaxClient THEN -1
  ELSE IF \E i \in 0 .. client_count - 2 : clients[i].name = name THEN -2
  ELSE 0

(* check_name: the limit is tested before the duplicate name.              *)
check_name(name) ==
  IF client_count = MaxClient THEN -1
  ELSE IF \E i \in 0 .. client_count - 1 : clients[i].name = name THEN -2
  ELSE 0

(* Mutant: the refused connection is not closed.                           *)
RefuseOpen(name) ==
  /\ pc = "join"
  /\ name \in Names
  /\ check_name(name) < 0
  /\ pc' = "scan"
  /\ UNCHANGED <<table, watch, set2, open, cur, msg, todo, why>>

(* join_message_process with the name that recv() left in its buffer (any  *)
(* name when recv() failed: its result is not tested) and NAK as answer.   *)
Refuse(name) ==
  /\ pc = "join"
  /\ name \in Names
  /\ check_name(name) < 0
  /\ open' = open \ {cur}
  /\ pc' = "scan"
  /\ UNCHANGED <<table, watch, set2, cur, msg, todo, why>>

(* Mutant: max_fd follows the newest connection.                           *)
Newest == cur

HigherFd == IF cur > max_fd THEN cur ELSE max_fd

(* The same with ACK as answer, then the announcement made by main.        *)
Admit(name) ==
  /\ pc = "join"
  /\ name \in Names
  /\ check_name(name) = 0
  /\ clients' = [clients EXCEPT ![client_count] = [name |-> name, fd |-> cur]]
  /\ client_count' = client_count + 1
  /\ max_fd' = HigherFd
  /\ set1' = set1 \cup {cur}
  /\ Broadcast([kind |-> "joined", name |-> name], Others(set1', max_fd', cur))
  /\ UNCHANGED <<set2, open, cur, why>>

(* Sending the ACK or the NAK on a reset connection raises SIGPIPE.        *)
ReplyFails ==
  /\ pc = "join"
  /\ Exit("reply")

-----------------------------------------------------------------------------
(* A client's descriptor: broadcast_message.                               *)

(* recv() > 0.  The lookup loop runs to index <= client_count.             *)
Forward(fd, m) ==
  /\ Turn(fd)
  /\ fd > Listener
  /\ m \in Forwards
  /\ m.kind \in {"idle", "said"}
  /\ NameFound(fd, client_count + 1, m.name)
  /\ Broadcast(m, Others(set1, max_fd, fd))
  /\ cur' = fd
  /\ set2' = set2 \ {fd}
  /\ UNCHANGED <<table, watch, open, why>>

(* recv() = 0.                                                             *)
Hangup(fd) ==
  /\ Turn(fd)
  /\ fd > Listener
  /\ \E name \in Names :
       /\ NameFound(fd, client_count, name)
       /\ Broadcast([kind |-> "left", name |-> name], Others(set1, max_fd, fd))
  /\ cur' = fd
  /\ set2' = set2 \ {fd}
  /\ UNCHANGED <<table, watch, open, why>>

(* recv() < 0: a reset connection, or a descriptor that is no socket.      *)
RecvFails(fd) ==
  /\ Turn(fd)
  /\ fd # Listener
  /\ Exit("recv")

(* The send loops: one send() per watched descriptor, in increasing order. *)
NextRecipient(fd) ==
  /\ pc = "cast"
  /\ fd \in todo
  /\ \A g \in todo : fd <= g

SendTo(fd) ==
  /\ NextRecipient(fd)
  /\ fd > Listener
  /\ todo' = todo \ {fd}
  /\ UNCHANGED <<pc, table, watch, set2, open, cur, msg, why>>

SendFails(fd) ==
  /\ NextRecipient(fd)
  /\ Exit("send")

(* Mutant: the first cell to be overwritten is skipped.                    *)
ShiftedLate(k) ==
  [i \in Cells |-> IF k < i /\ i + 1 < client_count THEN clients[i + 1]
                                                    ELSE clients[i]]

(* remove_client(k): the cells after k move down, the last one stays put.  *)
Shifted(k) ==
  [i \in Cells |-> IF k <= i /\ i + 1 < client_count THEN clients[i + 1]
                                                     ELSE clients[i]]

(* Mutant: the closed descriptor is still watched.                         *)
CloseOnly ==
  /\ open' = open \ {cur}
  /\ UNCHANGED set1

CloseAndClear ==
  /\ open' = open \ {cur}
  /\ set1' = set1 \ {cur}

(* The end of the loop; after a hangup the client is forgotten.            *)
CastDone ==
  /\ pc = "cast"
  /\ todo = {}
  /\ pc' = "scan"
  /\ msg' = NoMsg
  /\ IF msg.kind = "left"
     THEN /\ \E k \in 0 .. client_count :
               StopsAt(cur, client_count, k) /\ clients' = Shifted(k)
          /\ client_count' = client_count - 1
          /\ CloseAndClear
     ELSE UNCHANGED <<table, set1, open>>
  /\ UNCHANGED <<set2, max_fd, cur, todo, why>>

Serve(fd) ==
  \/ Hangup(fd)
  \/ RecvFails(fd)
  \/ \E m \in Forwards : Forward(fd, m)

Next ==
  \/ \E ready \in SUBSET Fds : Select(ready)
  \/ ScanDone
  \/ Accept
  \/ AcceptFails
  \/ \E name \in Names : Refuse(name) \/ Admit(name)
  \/ ReplyFails
  \/ \E fd \in Fds : Serve(fd) \/ SendTo(fd) \/ SendFails(fd)
  \/ CastDone

Spec == Init /\ [][Next]_vars

-----------------------------------------------------------------------------
(* Correctness.                                                            *)

Calls == {"running", "select", "accept", "reply", "recv", "send"}

TypeOK ==
  /\ pc \in PCs
  /\ clients \in [Cells -> Entries]
  /\ client_count \in 0 .. MaxClient
  /\ set1 \subseteq Fds
  /\ set2 \subseteq Fds
  /\ max_fd \in Fds
  /\ open \subseteq Fds
  /\ cur \in Fds
  /\ msg \in Forwards \cup {NoMsg}
  /\ todo \subseteq Fds
  /\ why \in Calls

Users   == 0 .. client_count - 1
Members == {clients[i].fd : i \in Users}

(* No two users of the table share a name or a descriptor, although names  *)
(* are compared only with the table as it is when the JOIN arrives and     *)
(* descriptors are recycled by the kernel (helper.c, check_name).          *)
UniqueUsers ==
  \A i, j \in Users :
    i # j => /\ clients[i].name # clients[j].name
             /\ clients[i].fd # clients[j].fd

(* The two records of who is connected agree: above the listener, select   *)
(* watches exactly the descriptors of the table.  It holds for every       *)
(* content of the uninitialised set1: accept hands out the lowest free     *)
(* descriptor, so max_fd never jumps over a stale bit.                     *)
WatchIsTable ==
  pc # "exited" => {f \in Watched : f > Listener} = Members

(* Every descriptor the process holds has an owner: the standard ones, the *)
(* listener, a user of the table, or the connection whose JOIN is awaited. *)
(* None is leaked by a refusal or a hangup, none is closed under a user.   *)
NoDescriptorLost ==
  pc # "exited" =>
    open = (0 .. Listener) \cup Members \cup (IF pc = "join" THEN {cur} ELSE {})

(* The process never ends by a failing select: every watched bit below     *)
(* max_fd + 1, a stale one included, is the bit of an open descriptor.     *)
SelectNeverFails == why # "select"

(* A broadcast is made in the name of the user whose descriptor is being   *)
(* served: the lookup loops of broadcast_message always find it, so        *)
(* hung_message is never used uninitialised and the cell past the table    *)
(* that "index <= client_count" allows is never what stops the loop.       *)
CastNamesSender ==
  pc = "cast" => \E i \in Users : clients[i] = [name |-> msg.name, fd |-> cur]

(* A broadcast only reaches for descriptors of other users (or standard    *)
(* ones, when set1 held their bits), never a closed one or the sender's.   *)
CastToMembers ==
  pc = "cast" => todo \subseteq (Members \cup StdFds) \ {cur}

(* While a descriptor reported by select waits to be served, the user it   *)
(* belongs to does not change: serving another one first neither drops nor *)
(* replaces it, and no new connection is given its number.                 *)
SnapshotStable ==
  [][\A i \in Users :
       clients[i].fd \in set2 \cap set2' =>
         \E j \in Users' : clients'[j] = clients[i]]_vars

-----------------------------------------------------------------------------
(* The inductive invariant the proofs of ChatServerProofs rest on.  Beyond *)
(* the properties above it says why they survive: max_fd and the listener, *)
(* where a new descriptor can lie, and that nothing select reported is     *)
(* forgotten by the watch set before its turn.                             *)
Alive ==
  /\ Listener \in set1
  /\ Listener <= max_fd
  /\ Members \subseteq (Listener + 1) .. max_fd
  /\ set2 \subseteq Watched
  /\ pc = "join" => /\ cur \notin Members \cup set2
                    /\ Listener < cur
                    /\ cur <= max_fd + 1
  /\ pc = "cast" => cur \notin set2

IInv ==
  /\ TypeOK
  /\ UniqueUsers
  /\ WatchIsTable
  /\ NoDescriptorLost
  /\ SelectNeverFails
  /\ CastNamesSender
  /\ CastToMembers
  /\ pc # "exited" => Alive
=============================================================================
