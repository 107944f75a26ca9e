----------------------------- MODULE ChatProofs -----------------------------
(***************************************************************************)
(* Machine-checked proofs about Chat, the server among its clients, for    *)
(* every number of clients, names, descriptors, places and lines.          *)
(*                                                                         *)
(* The parts: RoomOK, the connections and what the streams to the server   *)
(* begin with; ToldAll over a stream that grows at its end and is read at  *)
(* its head; ViewsOK, what each client is going to know; LinesOK, the      *)
(* lines on their way to the server; LastOK, the last line each user will  *)
(* have seen of each other; SenseOK, that every frame under way makes      *)
(* sense to the client that will read it.                                  *)
(***************************************************************************)
EXTENDS Chat, ChatServerProofs, WellFoundedInduction, SequenceTheorems

(* A step of the room is one of the open server, or leaves it alone.       *)
LEMMA ChatStepIsServerStep ==
  ASSUME IInv, [ChatNext]_chatVars
  PROVE  [Next]_vars
<1>1. CASE Server
  <2>1. CASE SrvSelect
    <3>1. PICK ready : Select(ready)
      BY <2>1 DEF SrvSelect
    <3>2. ready \in SUBSET Fds
      BY <3>1 DEF Select, Watched, IInv, TypeOK
    <3> QED
      BY <3>1, <3>2 DEF Next
  <2>2. CASE SrvScanDone \/ SrvAccept \/ SrvAcceptFails \/ SrvCastDone
    BY <2>2 DEF SrvScanDone, SrvAccept, SrvAcceptFails, SrvCastDone, Next
  <2>3. CASE SrvRefuse
    BY <2>3 DEF SrvRefuse, Next
  <2>4. CASE SrvAdmit
    BY <2>4 DEF SrvAdmit, Next
  <2>5. ASSUME NEW fd \in Fds, SrvForward(fd) \/ SrvHangup(fd) \/ SrvRecvFails(fd)
        PROVE  Next
    <3>1. Serve(fd)
      BY <2>5 DEF SrvForward, SrvHangup, SrvRecvFails, Serve
    <3> QED
      BY <3>1 DEF Next
  <2>6. ASSUME NEW fd \in Fds, SrvSendTo(fd) \/ SrvSendFails(fd)
        PROVE  Next
    BY <2>6 DEF SrvSendTo, SrvSendFails, Next
  <2> QED
    BY <1>1, <2>1, <2>2, <2>3, <2>4, <2>5, <2>6 DEF Server
<1>2. ASSUME NEW c \in Clients, ClientStep(c) \/ User(c) \/ ResetArrives(c)
      PROVE  UNCHANGED vars
  BY <1>2 DEF ClientStep, User, ResetArrives, SendJoin, SendLine, SendRefused, ClientRecv,
              Connect, TypeLine, Leave
<1> QED
  BY <1>1, <1>2 DEF ChatNext, chatVars

(* In the company of its clients the server does nothing that the open     *)
(* ChatServer cannot do: every theorem about ChatServer is one about Chat. *)
THEOREM ChatImplementsServer == ChatSpec => Spec
<1>1. ChatInit => Init
  BY DEF ChatInit
<1>2. IInv /\ [ChatNext]_chatVars => [Next]_vars
  BY ChatStepIsServerStep
<1>3. Init => IInv
  BY InitIInv
<1>4. IInv /\ [Next]_vars => IInv'
  BY NextIInv
<1> QED
  BY <1>1, <1>2, <1>3, <1>4, PTL DEF ChatSpec, Spec
-----------------------------------------------------------------------------
(* The descriptors that belong to a connection.                            *)
Connected == Members \cup (IF pc = "join" THEN {cur} ELSE {})

(* A client whose JOIN the server has not read.                            *)
Waiting(c) ==
  \/ \E i \in 1 .. Len(backlog) : backlog[i] = c
  \/ pc = "join" /\ c = sock[cur]

Frames == [join : Names] \cup [text : 0 .. MaxSays]

ChatTyped ==
  /\ cpc \in [Clients -> {"off", "conn", "loop", "send", "gone"}]
  /\ says \in [Clients -> 0 .. MaxSays]
  /\ backlog \in Seq(Clients)
  /\ sock \in [Fds -> Clients \cup {"none"}]
  /\ up \in [Clients -> Seq(Frames)]
  /\ peer \in [Clients -> {"up", "fin", "due", "rst", "dead"}]
  /\ closed \in [Clients -> BOOLEAN]

(* A descriptor leads to a client exactly when it is that of a connection, *)
(* and no two lead to the same one.                                        *)
SocksOK ==
  /\ \A fd \in Fds : sock[fd] # "none" <=> fd \in Connected
  /\ \A f, g \in Fds : sock[f] = sock[g] /\ sock[f] # "none" => f = g

(* A client is in one place: not started, waiting for accept, connected or *)
(* closed by the server.                                                   *)
PlacesOK ==
  /\ \A i \in 1 .. Len(backlog) :
       /\ cpc[backlog[i]] # "off"
       /\ ~closed[backlog[i]]
       /\ \A j \in 1 .. Len(backlog) : backlog[i] = backlog[j] => i = j
  /\ \A fd \in Connected :
       /\ cpc[sock[fd]] # "off"
       /\ ~closed[sock[fd]]
       /\ \A i \in 1 .. Len(backlog) : backlog[i] # sock[fd]
  /\ \A c \in Clients : cpc[c] = "off" => ~closed[c]
  /\ Listener \in set2 => backlog # <<>>

(* Only a client that is gone has been heard of.                           *)
HeardOK == \A c \in Clients : peer[c] # "up" => cpc[c] = "gone"

(* What a client sends begins with its JOIN.                               *)
JoinFirst ==
  \A c \in Clients :
    /\ cpc[c] \in {"off", "conn"} => up[c] = <<>>
    /\ Waiting(c) =>
         /\ cpc[c] \in {"loop", "send"} => up[c] # <<>>
         /\ up[c] # <<>> => Head(up[c]) = [join |-> NameOf[c]]

NamesOK ==
  \A i \in Users : peer[At(i)] = "up" => clients[i].name = NameOf[At(i)]

RoomOK ==
  /\ ChatTyped
  /\ SocksOK
  /\ PlacesOK
  /\ HeardOK
  /\ JoinFirst
  /\ NamesOK

(* What a stream is after a frame was added at its end.                    *)
LEMMA Appended ==
  ASSUME NEW S, NEW s \in Seq(S), NEW e \in S
  PROVE  /\ Append(s, e) \in Seq(S)
         /\ Append(s, e) # <<>>
         /\ Len(s) \in Nat
         /\ Len(Append(s, e)) = Len(s) + 1
         /\ \A i \in 1 .. Len(s) : Append(s, e)[i] = s[i]
         /\ Append(s, e)[Len(s) + 1] = e
         /\ s = <<>> => Head(Append(s, e)) = e
         /\ s # <<>> => Head(Append(s, e)) = Head(s)
<1>1. Append(s, e) \in Seq(S) /\ Len(s) \in Nat /\ Len(Append(s, e)) = Len(s) + 1
  OBVIOUS
<1>2. (\A i \in 1 .. Len(s) : Append(s, e)[i] = s[i]) /\ Append(s, e)[Len(s) + 1] = e
  OBVIOUS
<1>3. Append(s, e) # <<>>
  BY <1>1
<1>4. s = <<>> => Head(Append(s, e)) = e
  BY <1>1, <1>2
<1>5. s # <<>> => Head(Append(s, e)) = Head(s)
  OBVIOUS
<1> QED
  BY <1>1, <1>2, <1>3, <1>4, <1>5

(* What it is after its first frame was taken.                             *)
LEMMA Taken ==
  ASSUME NEW S, NEW s \in Seq(S), s # <<>>
  PROVE  /\ Head(s) \in S
         /\ Head(s) = s[1]
         /\ Tail(s) \in Seq(S)
         /\ Len(s) \in Nat
         /\ 0 < Len(s)
         /\ Len(Tail(s)) = Len(s) - 1
         /\ \A i \in 1 .. Len(s) - 1 : Tail(s)[i] = s[i + 1]
  OBVIOUS

(* Every connection leads to a client, and every user has a connection.    *)
LEMMA ConnectionsLead ==
  ASSUME TypeOK, ChatTyped, SocksOK
  PROVE  /\ \A fd \in Connected : fd \in Fds /\ sock[fd] \in Clients
         /\ \A i \in Users : clients[i].fd \in Connected /\ At(i) \in Clients
<1>1. Members \subseteq Fds
  BY UserCells DEF Members, Entries
<1>2. Connected \subseteq Fds
  BY <1>1 DEF Connected, TypeOK
<1>3. \A fd \in Connected : sock[fd] \in Clients
  BY <1>2 DEF SocksOK, ChatTyped
<1>4. \A i \in Users : clients[i].fd \in Connected
  BY DEF Connected, Members
<1> QED
  BY <1>2, <1>3, <1>4 DEF At

LEMMA ConnectRoom ==
  ASSUME RoomOK, NEW c \in Clients, Connect(c)
  PROVE  RoomOK'
<1>1. /\ cpc[c] = "off" /\ cpc' = [cpc EXCEPT ![c] = "conn"]
      /\ backlog' = Append(backlog, c)
      /\ UNCHANGED <<vars, says, sock, up, peer, closed>>
  BY DEF Connect
<1>2. /\ backlog \in Seq(Clients)
      /\ Len(backlog') = Len(backlog) + 1 /\ backlog'[Len(backlog) + 1] = c
      /\ \A i \in 1 .. Len(backlog) : backlog'[i] = backlog[i]
      /\ backlog' \in Seq(Clients) /\ backlog' # <<>>
      /\ Len(backlog) \in Nat
  BY <1>1, Appended DEF RoomOK, ChatTyped
<1>3. Users' = Users /\ Members' = Members /\ Connected' = Connected
  BY <1>1 DEF vars, Users, Members, Connected
<1>4. \A d \in Clients : d # c => cpc'[d] = cpc[d]
  BY <1>1 DEF RoomOK, ChatTyped
<1>5. cpc'[c] = "conn"
  BY <1>1 DEF RoomOK, ChatTyped
<1>6. /\ \A i \in 1 .. Len(backlog) : backlog[i] # c /\ backlog[i] \in Clients
      /\ \A fd \in Connected : sock[fd] # c
  BY <1>1, <1>2 DEF RoomOK, PlacesOK
<1>7. ChatTyped'
  BY <1>1, <1>2 DEF RoomOK, ChatTyped, vars
<1>8. SocksOK'
  BY <1>1, <1>3 DEF RoomOK, SocksOK
<1>9. PlacesOK'
  <2>1. \A i \in 1 .. Len(backlog') :
           i \in 1 .. Len(backlog) \/ i = Len(backlog) + 1
    BY <1>2
  <2>2. ASSUME NEW i \in 1 .. Len(backlog')
        PROVE  /\ cpc'[backlog'[i]] # "off"
               /\ ~closed'[backlog'[i]]
               /\ \A j \in 1 .. Len(backlog') : backlog'[i] = backlog'[j] => i = j
    BY <1>1, <1>2, <1>4, <1>5, <1>6, <2>1 DEF RoomOK, PlacesOK
  <2>3. ASSUME NEW fd \in Connected'
        PROVE  /\ cpc'[sock'[fd]] # "off"
               /\ ~closed'[sock'[fd]]
               /\ \A i \in 1 .. Len(backlog') : backlog'[i] # sock'[fd]
    <3>1. fd \in Connected /\ sock'[fd] = sock[fd] /\ sock[fd] # c
      BY <1>1, <1>3, <1>6
    <3>2. cpc'[sock[fd]] = cpc[sock[fd]]
      BY <1>1, <3>1 DEF RoomOK, ChatTyped
    <3> QED
      BY <1>1, <1>2, <2>1, <3>1, <3>2 DEF RoomOK, PlacesOK
  <2>4. (\A d \in Clients : cpc[d] = "off" => ~closed[d])'
    BY <1>1, <1>4, <1>5 DEF RoomOK, PlacesOK
  <2> QED
    BY <1>2, <2>2, <2>3, <2>4 DEF PlacesOK
<1>10. HeardOK'
  BY <1>1, <1>4 DEF RoomOK, HeardOK
<1>11. JoinFirst'
  <2> SUFFICES ASSUME NEW d \in Clients
               PROVE  /\ cpc'[d] \in {"off", "conn"} => up'[d] = <<>>
                      /\ Waiting(d)' =>
                           /\ cpc'[d] \in {"loop", "send"} => up'[d] # <<>>
                           /\ up'[d] # <<>> => Head(up'[d]) = [join |-> NameOf[d]]
    BY DEF JoinFirst
  <2>1. CASE d = c
    BY <1>1, <1>5, <2>1 DEF RoomOK, JoinFirst
  <2>2. CASE d # c
    <3>1. Waiting(d)' => Waiting(d)
      BY <1>1, <1>2, <2>2 DEF Waiting, vars
    <3> QED
      BY <1>1, <1>4, <2>2, <3>1 DEF RoomOK, JoinFirst
  <2> QED
    BY <2>1, <2>2
<1>12. NamesOK'
  BY <1>1, <1>3 DEF RoomOK, NamesOK, At, vars
<1> QED
  BY <1>7, <1>8, <1>9, <1>10, <1>11, <1>12 DEF RoomOK

(* A client that is connected moves on: what it wrote, and what the server *)
(* has heard of it, respect the invariant.                                 *)
LEMMA MoveRoom ==
  ASSUME TypeOK, RoomOK, NEW c \in Clients, NEW next, NEW s, NEW h,
         UNCHANGED <<vars, backlog, sock, closed>>,
         says' \in [Clients -> 0 .. MaxSays],
         cpc[c] # "off", next \in {"conn", "loop", "send", "gone"},
         s \in Seq(Frames),
         h \in {"up", "fin", "due", "rst", "dead"},
         cpc' = [cpc EXCEPT ![c] = next],
         up' = [up EXCEPT ![c] = s],
         peer' = [peer EXCEPT ![c] = h],
         h # "up" => next = "gone",
         h = "up" => peer[c] = "up",
         next = "conn" => s = <<>>,
         Waiting(c) => /\ next \in {"loop", "send"} => s # <<>>
                       /\ s # <<>> => Head(s) = [join |-> NameOf[c]]
  PROVE  RoomOK'
<1>1. /\ \A d \in Clients : d # c => cpc'[d] = cpc[d] /\ up'[d] = up[d] /\ peer'[d] = peer[d]
      /\ cpc'[c] = next /\ up'[c] = s /\ peer'[c] = h
  BY DEF RoomOK, ChatTyped
<1>2. Users' = Users /\ Members' = Members /\ Connected' = Connected
  BY DEF vars, Users, Members, Connected
<1>3. \A d \in Clients : Waiting(d)' = Waiting(d)
  BY DEF Waiting, vars
<1>4. \A d \in Clients : cpc'[d] = "off" <=> cpc[d] = "off"
  BY <1>1
<1>5. ChatTyped'
  BY DEF RoomOK, ChatTyped, vars
<1>6. SocksOK'
  BY <1>2 DEF RoomOK, SocksOK
<1>7. PlacesOK'
  <2>1. \A i \in 1 .. Len(backlog) : backlog[i] \in Clients
    BY DEF RoomOK, ChatTyped
  <2> QED
    BY <1>2, <1>4, <2>1, ConnectionsLead DEF RoomOK, PlacesOK, vars
<1>8. HeardOK'
  BY <1>1 DEF RoomOK, HeardOK
<1>9. JoinFirst'
  BY <1>1, <1>3 DEF RoomOK, JoinFirst
<1>10. NamesOK'
  BY <1>1, <1>2, ConnectionsLead DEF RoomOK, NamesOK, At, vars
<1> QED
  BY <1>5, <1>6, <1>7, <1>8, <1>9, <1>10 DEF RoomOK

LEMMA ClientRoom ==
  ASSUME TypeOK, RoomOK, NEW c \in Clients,
         ClientStep(c) \/ TypeLine(c) \/ Leave(c) \/ ResetArrives(c)
  PROVE  RoomOK'
<1>1. /\ cpc \in [Clients -> {"off", "conn", "loop", "send", "gone"}]
      /\ says \in [Clients -> 0 .. MaxSays] /\ MaxSays \in Nat
      /\ up \in [Clients -> Seq(Frames)] /\ up[c] \in Seq(Frames)
      /\ peer \in [Clients -> {"up", "fin", "due", "rst", "dead"}]
  BY ChatConstantsOK DEF RoomOK, ChatTyped
<1>2. /\ cpc = [cpc EXCEPT ![c] = cpc[c]]
      /\ up = [up EXCEPT ![c] = up[c]]
      /\ peer = [peer EXCEPT ![c] = peer[c]]
  BY <1>1
<1>3. /\ peer[c] # "up" => cpc[c] = "gone"
      /\ cpc[c] \in {"off", "conn"} => up[c] = <<>>
      /\ Waiting(c) =>
           /\ cpc[c] \in {"loop", "send"} => up[c] # <<>>
           /\ up[c] # <<>> => Head(up[c]) = [join |-> NameOf[c]]
  BY DEF RoomOK, HeardOK, JoinFirst
<1>4. [join |-> NameOf[c]] \in Frames /\ [text |-> says[c]] \in Frames
  BY <1>1, ChatConstantsOK DEF Frames
<1>5. Waiting(c) => ~closed[c]
  <2>1. pc = "join" => cur \in Connected
    BY DEF Connected
  <2> QED
    BY <2>1 DEF Waiting, RoomOK, PlacesOK
<1>6. CASE SendJoin(c)
  <2> DEFINE f == [join |-> NameOf[c]]
             s == Append(up[c], f)
  <2>1. /\ cpc[c] = "conn" /\ cpc' = [cpc EXCEPT ![c] = "loop"] /\ up' = [up EXCEPT ![c] = s]
        /\ UNCHANGED <<vars, says, backlog, sock, peer, closed>>
    BY <1>6 DEF SendJoin
  <2>2. s \in Seq(Frames) /\ s # <<>> /\ (up[c] = <<>> => Head(s) = f)
    <3>1. f \in Frames /\ up[c] \in Seq(Frames)
      BY <1>1, <1>4
    <3> HIDE DEF f
    <3> QED
      BY <3>1, Appended
  <2>3. Head(s) = f /\ peer[c] = "up"
    BY <1>3, <2>1, <2>2
  <2> HIDE DEF s, f
  <2>4. Head(s) = [join |-> NameOf[c]]
    BY <2>3 DEF f
  <2>5. /\ cpc[c] # "off" /\ peer' = [peer EXCEPT ![c] = peer[c]]
        /\ says' \in [Clients -> 0 .. MaxSays]
        /\ peer[c] \in {"up", "fin", "due", "rst", "dead"}
    BY <1>1, <1>2, <2>1
  <2>6. UNCHANGED <<vars, backlog, sock, closed>>
    BY <2>1
  <2> QED
    BY <2>1, <2>2, <2>3, <2>4, <2>5, <2>6, MoveRoom
<1>7. CASE SendLine(c)
  <2> DEFINE f == [text |-> says[c]]
             s == Append(up[c], f)
  <2>1. /\ cpc[c] = "send" /\ cpc' = [cpc EXCEPT ![c] = "loop"] /\ up' = [up EXCEPT ![c] = s]
        /\ UNCHANGED <<vars, says, backlog, sock, peer, closed>>
    BY <1>7 DEF SendLine
  <2>2. s \in Seq(Frames) /\ s # <<>> /\ (up[c] # <<>> => Head(s) = Head(up[c]))
    <3>1. f \in Frames /\ up[c] \in Seq(Frames)
      BY <1>1, <1>4
    <3> HIDE DEF f
    <3> QED
      BY <3>1, Appended
  <2>3. Waiting(c) => Head(s) = [join |-> NameOf[c]]
    BY <1>3, <2>1, <2>2
  <2>4. /\ cpc[c] # "off" /\ peer' = [peer EXCEPT ![c] = peer[c]]
        /\ says' \in [Clients -> 0 .. MaxSays]
        /\ peer[c] \in {"up", "fin", "due", "rst", "dead"}
        /\ peer[c] = "up"
    BY <1>1, <1>2, <1>3, <2>1
  <2>5. UNCHANGED <<vars, backlog, sock, closed>>
    BY <2>1
  <2> HIDE DEF s, f
  <2> QED
    BY <2>1, <2>2, <2>3, <2>4, <2>5, MoveRoom
<1>8. CASE SendRefused(c)
  <2>1. /\ cpc[c] = "send" /\ closed[c]
        /\ UNCHANGED <<vars, says, backlog, sock, up, peer, closed>>
    BY <1>8 DEF SendRefused
  <2>2. PICK next \in {"loop", "gone"} : cpc' = [cpc EXCEPT ![c] = next]
    BY <1>8 DEF SendRefused
  <2> QED
    BY <1>1, <1>2, <1>3, <1>5, <2>1, <2>2, MoveRoom
<1>9. CASE ClientRecv(c)
  <2>1. /\ cpc[c] = "loop"
        /\ UNCHANGED <<vars, says, backlog, sock, up, peer, closed>>
    BY <1>9 DEF ClientRecv
  <2>2. PICK next \in {"loop", "gone"} : cpc' = [cpc EXCEPT ![c] = next]
    BY <1>9, <2>1 DEF ClientRecv
  <2> QED
    BY <1>1, <1>2, <1>3, <2>1, <2>2, MoveRoom
<1>10. CASE TypeLine(c)
  <2>1. /\ cpc[c] = "loop" /\ cpc' = [cpc EXCEPT ![c] = "send"]
        /\ says[c] < MaxSays /\ says' = [says EXCEPT ![c] = @ + 1]
        /\ UNCHANGED <<vars, backlog, sock, up, peer, closed>>
    BY <1>10 DEF TypeLine
  <2>2. says' \in [Clients -> 0 .. MaxSays]
    BY <1>1, <2>1
  <2> QED
    BY <1>1, <1>2, <1>3, <2>1, <2>2, MoveRoom
<1>11. CASE Leave(c)
  <2>1. /\ cpc[c] \in {"conn", "loop", "send"} /\ cpc' = [cpc EXCEPT ![c] = "gone"]
        /\ UNCHANGED <<vars, says, backlog, sock, up, closed>>
    BY <1>11 DEF Leave
  <2>2. PICK h \in {"fin", "rst", "due"} : peer' = [peer EXCEPT ![c] = h]
    BY <1>11 DEF Leave
  <2> QED
    BY <1>1, <1>2, <1>3, <2>1, <2>2, MoveRoom
<1>12. CASE ResetArrives(c)
  <2>1. /\ peer[c] = "due" /\ peer' = [peer EXCEPT ![c] = "dead"]
        /\ UNCHANGED <<vars, cpc, says, backlog, sock, up, closed>>
    BY <1>12 DEF ResetArrives
  <2> QED
    BY <1>1, <1>2, <1>3, <2>1, MoveRoom
<1> QED
  BY <1>6, <1>7, <1>8, <1>9, <1>10, <1>11, <1>12 DEF ClientStep

(* A step of the server that leaves the table and the connections alone.   *)
LEMMA ServeRoom ==
  ASSUME TypeOK, RoomOK, UNCHANGED <<table, cpc, says, backlog, sock, closed>>,
         pc # "join", pc' # "join",
         Listener \in set2' => backlog # <<>>,
         up' \in [Clients -> Seq(Frames)],
         \A c \in Clients : up'[c] # up[c] => ~Waiting(c) /\ up[c] # <<>>,
         peer' \in [Clients -> {"up", "fin", "due", "rst", "dead"}],
         \A c \in Clients : peer'[c] = "up" <=> peer[c] = "up"
  PROVE  RoomOK'
<1>1. Users' = Users /\ Members' = Members /\ Connected' = Connected /\ clients' = clients
  BY DEF table, Users, Members, Connected
<1>2. \A d \in Clients : Waiting(d)' = Waiting(d)
  BY DEF Waiting
<1>3. ChatTyped'
  BY DEF RoomOK, ChatTyped
<1>4. SocksOK'
  BY <1>1 DEF RoomOK, SocksOK
<1>5. PlacesOK'
  BY <1>1 DEF RoomOK, PlacesOK
<1>6. HeardOK'
  BY DEF RoomOK, HeardOK
<1>7. JoinFirst'
  BY <1>2 DEF RoomOK, JoinFirst
<1>8. NamesOK'
  BY <1>1, ConnectionsLead DEF RoomOK, NamesOK, At
<1> QED
  BY <1>3, <1>4, <1>5, <1>6, <1>7, <1>8 DEF RoomOK

LEMMA DeliverHears ==
  ASSUME ChatTyped, NEW c \in Clients, NEW m, Deliver(c, m)
  PROVE  /\ peer' \in [Clients -> {"up", "fin", "due", "rst", "dead"}]
         /\ \A d \in Clients : peer'[d] = "up" <=> peer[d] = "up"
<1>1. PICK h : /\ peer' = [peer EXCEPT ![c] = h]
               /\ h = CASE peer[c] = "fin" -> "due"
                        [] peer[c] = "rst" -> "dead"
                        [] OTHER           -> peer[c]
  BY DEF Deliver
<1>2. peer \in [Clients -> {"up", "fin", "due", "rst", "dead"}]
  BY DEF ChatTyped
<1>3. peer[c] \in {"up", "fin", "due", "rst", "dead"}
  BY <1>2
<1>4. h \in {"up", "fin", "due", "rst", "dead"} /\ (h = "up" <=> peer[c] = "up")
  BY <1>1, <1>3
<1> QED
  BY <1>1, <1>2, <1>4

LEMMA SelectRoom ==
  ASSUME IInv, RoomOK, SrvSelect, pc' # "exited"
  PROVE  RoomOK'
<1>1. PICK std \in SUBSET (Watched \cap StdFds) :
        Select({fd \in Watched \ StdFds : Readable(fd)} \cup std)
  BY DEF SrvSelect
<1> DEFINE ready == {fd \in Watched \ StdFds : Readable(fd)} \cup std
<1>2. /\ pc = "select" /\ pc' = "scan" /\ set2' = ready /\ UNCHANGED table
      /\ UNCHANGED clientVars
  BY <1>1 DEF SrvSelect, Select, Exit
<1>3. Listener \in ready => backlog # <<>>
  BY ConstantsOK DEF Readable, StdFds
<1> QED
  BY <1>1, <1>2, <1>3, ServeRoom DEF clientVars, IInv, RoomOK, ChatTyped

LEMMA QuietRoom ==
  ASSUME IInv, RoomOK, NEW fd \in Fds,
         SrvScanDone \/ SrvHangup(fd) \/ (SrvCastDone /\ msg.kind # "left")
  PROVE  RoomOK'
<1>1. /\ UNCHANGED <<table, clientVars>> /\ pc # "join" /\ pc' # "join"
      /\ set2' \subseteq set2
  BY DEF SrvScanDone, SrvHangup, SrvCastDone, ScanDone, Hangup, CastDone, Turn, Broadcast
<1> QED
  BY <1>1, ServeRoom DEF clientVars, IInv, RoomOK, ChatTyped, PlacesOK

LEMMA ForwardRoom ==
  ASSUME IInv, RoomOK, NEW fd \in Fds, SrvForward(fd)
  PROVE  RoomOK'
<1> DEFINE c == sock[fd]
<1>1. /\ pc = "scan" /\ c # "none" /\ up[c] # <<>>
      /\ up' = [up EXCEPT ![c] = Tail(@)]
      /\ UNCHANGED <<cpc, says, backlog, sock, peer, closed>>
  BY DEF SrvForward, Turn
<1>2. pc' = "cast" /\ set2' \subseteq set2 /\ UNCHANGED table
  BY DEF SrvForward, Forward, Broadcast
<1>3. fd \in Connected /\ c \in Clients
  BY <1>1, ConnectionsLead DEF RoomOK, SocksOK, IInv
<1>4. ~Waiting(c)
  BY <1>1, <1>3 DEF Waiting, RoomOK, PlacesOK
<1>5. up \in [Clients -> Seq(Frames)] /\ up[c] \in Seq(Frames)
  BY <1>3 DEF RoomOK, ChatTyped
<1>6. Tail(up[c]) \in Seq(Frames)
  BY <1>1, <1>5, Taken
<1> HIDE DEF c
<1>7. up' \in [Clients -> Seq(Frames)] /\ \A d \in Clients : d # c => up'[d] = up[d]
  BY <1>1, <1>5, <1>6
<1> QED
  BY <1>1, <1>2, <1>4, <1>7, ServeRoom DEF IInv, RoomOK, ChatTyped, PlacesOK

LEMMA SendToRoom ==
  ASSUME IInv, RoomOK, NEW fd \in Fds, SrvSendTo(fd)
  PROVE  RoomOK'
<1>1. /\ pc = "cast" /\ pc' = pc /\ set2' = set2 /\ UNCHANGED table
      /\ sock[fd] # "none"
      /\ UNCHANGED <<cpc, says, backlog, sock, up, closed>>
  BY DEF SrvSendTo, SendTo, NextRecipient
<1>2. sock[fd] \in Clients
  BY <1>1, ConnectionsLead DEF RoomOK, SocksOK, IInv
<1>3. /\ peer' \in [Clients -> {"up", "fin", "due", "rst", "dead"}]
      /\ \A d \in Clients : peer'[d] = "up" <=> peer[d] = "up"
  BY <1>2, DeliverHears DEF SrvSendTo, RoomOK
<1> QED
  BY <1>1, <1>3, ServeRoom DEF IInv, RoomOK, ChatTyped, PlacesOK

LEMMA AcceptRoom ==
  ASSUME IInv, RoomOK, SrvAccept
  PROVE  /\ RoomOK'
         /\ \A d \in Clients : Waiting(d)' => Waiting(d)
         /\ \A fd \in Connected : sock'[fd] = sock[fd]
<1>1. /\ pc = "scan" /\ pc' = "join" /\ set2' = set2 \ {Listener} /\ UNCHANGED table
      /\ Listener \in set2
      /\ backlog' = Tail(backlog)
      /\ sock' = [sock EXCEPT ![cur'] = Head(backlog)]
      /\ UNCHANGED <<cpc, says, up, peer, closed>>
  BY DEF SrvAccept, Accept, Turn
<1>2. cur' \in Fds \ open
  BY DEF SrvAccept, Accept
<1> DEFINE c == backlog[1]
<1>3. backlog \in Seq(Clients) /\ backlog # <<>>
  BY <1>1 DEF RoomOK, ChatTyped, PlacesOK
<1>4. /\ c \in Clients /\ Head(backlog) = c
      /\ Tail(backlog) \in Seq(Clients)
      /\ Len(backlog) \in Nat
      /\ 0 < Len(backlog)
      /\ Len(Tail(backlog)) = Len(backlog) - 1
      /\ \A i \in 1 .. Len(backlog) - 1 : Tail(backlog)[i] = backlog[i + 1]
  BY <1>3, Taken
<1>5. \A i \in 1 .. Len(backlog') : /\ i + 1 \in 1 .. Len(backlog)
                                    /\ backlog'[i] = backlog[i + 1]
                                    /\ backlog'[i] # c
                                    /\ backlog[i + 1] \in Clients
  <2> SUFFICES ASSUME NEW i \in 1 .. Len(backlog')
               PROVE  /\ i + 1 \in 1 .. Len(backlog)
                      /\ backlog'[i] = backlog[i + 1]
                      /\ backlog'[i] # c
                      /\ backlog[i + 1] \in Clients
    OBVIOUS
  <2>1. i + 1 \in 1 .. Len(backlog) /\ backlog'[i] = backlog[i + 1] /\ i + 1 # 1
        /\ 1 \in 1 .. Len(backlog)
    BY <1>1, <1>4
  <2> QED
    BY <1>3, <2>1 DEF RoomOK, PlacesOK
<1>6. /\ Users' = Users /\ Members' = Members /\ clients' = clients
      /\ Connected = Members /\ Connected' = Connected \cup {cur'}
  BY <1>1 DEF table, Users, Members, Connected
<1>7. cur' \notin Connected
  BY <1>1, <1>2, <1>6 DEF IInv, NoDescriptorLost
<1>8. /\ sock' \in [Fds -> Clients \cup {"none"}]
      /\ sock'[cur'] = c
      /\ \A fd \in Fds : fd # cur' => sock'[fd] = sock[fd]
      /\ sock[cur'] = "none"
      /\ \A fd \in Fds : sock[fd] # c
      /\ c # "none"
  <2>1. \A fd \in Connected : sock[fd] # c
    BY <1>4 DEF RoomOK, PlacesOK
  <2>2. c # "none"
    BY <1>4, ChatConstantsOK
  <2> QED
    BY <1>1, <1>2, <1>4, <1>7, <2>1, <2>2 DEF RoomOK, ChatTyped, SocksOK
<1>9. cpc[c] # "off" /\ ~closed[c]
  BY <1>4 DEF RoomOK, PlacesOK
<1>10. ChatTyped'
  BY <1>1, <1>4, <1>8 DEF RoomOK, ChatTyped
<1>11. SocksOK'
  <2>1. (\A fd \in Fds : sock[fd] # "none" <=> fd \in Connected)'
    BY <1>6, <1>8 DEF RoomOK, SocksOK
  <2>2. (\A f, g \in Fds : sock[f] = sock[g] /\ sock[f] # "none" => f = g)'
    BY <1>8 DEF RoomOK, SocksOK
  <2> QED
    BY <2>1, <2>2 DEF SocksOK
<1>12. PlacesOK'
  <2>1. ASSUME NEW i \in 1 .. Len(backlog')
        PROVE  /\ cpc'[backlog'[i]] # "off"
               /\ ~closed'[backlog'[i]]
               /\ \A j \in 1 .. Len(backlog') : backlog'[i] = backlog'[j] => i = j
    <3>1. ASSUME NEW j \in 1 .. Len(backlog'), backlog'[i] = backlog'[j] PROVE i = j
      <4>1. i + 1 = j + 1
        BY <1>5, <3>1 DEF RoomOK, PlacesOK
      <4> QED
        BY <4>1
    <3> QED
      BY <1>1, <1>5, <3>1 DEF RoomOK, PlacesOK
  <2>2. ASSUME NEW fd \in Connected'
        PROVE  /\ cpc'[sock'[fd]] # "off"
               /\ ~closed'[sock'[fd]]
               /\ \A i \in 1 .. Len(backlog') : backlog'[i] # sock'[fd]
    <3>1. CASE fd = cur'
      BY <1>1, <1>5, <1>8, <1>9, <3>1
    <3>2. CASE fd \in Connected
      <4>1. fd \in Fds /\ sock'[fd] = sock[fd]
        BY <1>7, <1>8, <3>2, ConnectionsLead DEF RoomOK, IInv
      <4> QED
        BY <1>1, <1>5, <3>2, <4>1 DEF RoomOK, PlacesOK
    <3> QED
      BY <1>6, <3>1, <3>2
  <2> QED
    BY <1>1, <2>1, <2>2 DEF RoomOK, PlacesOK
<1>13. HeardOK'
  BY <1>1 DEF RoomOK, HeardOK
<1>14. \A d \in Clients : Waiting(d)' => Waiting(d)
  BY <1>1, <1>4, <1>5, <1>8 DEF Waiting
<1>15. JoinFirst'
  BY <1>1, <1>14 DEF RoomOK, JoinFirst
<1>16. \A fd \in Connected : sock'[fd] = sock[fd]
  BY <1>7, <1>8, ConnectionsLead DEF RoomOK, IInv
<1>17. NamesOK'
  <2>1. \A i \in Users : At(i)' = At(i)
    BY <1>6, <1>16, ConnectionsLead DEF RoomOK, IInv, At
  <2> QED
    BY <1>1, <1>6, <2>1 DEF RoomOK, NamesOK
<1> QED
  BY <1>10, <1>11, <1>12, <1>13, <1>14, <1>15, <1>16, <1>17 DEF RoomOK

(* What closing a connection does to the places of the clients.            *)
LEMMA ForgetRoom ==
  ASSUME IInv, RoomOK, NEW fd \in Connected, Forget(fd),
         UNCHANGED <<cpc, backlog>>,
         Connected' = Connected \ {fd},
         Listener \in set2' => Listener \in set2
  PROVE  /\ SocksOK'
         /\ PlacesOK'
         /\ sock' \in [Fds -> Clients \cup {"none"}]
         /\ closed' \in [Clients -> BOOLEAN]
         /\ \A f \in Connected' : sock'[f] = sock[f]
<1> DEFINE c == sock[fd]
<1>1. fd \in Fds /\ c \in Clients /\ c # "none"
  BY ConnectionsLead, ChatConstantsOK DEF RoomOK, IInv
<1>2. /\ sock' \in [Fds -> Clients \cup {"none"}]
      /\ closed' \in [Clients -> BOOLEAN]
      /\ sock'[fd] = "none"
      /\ \A f \in Fds : f # fd => sock'[f] = sock[f] /\ (sock[f] = c => c = "none")
      /\ \A d \in Clients : d # c => closed'[d] = closed[d]
  BY <1>1 DEF Forget, RoomOK, ChatTyped, SocksOK
<1>3. SocksOK'
  BY <1>2 DEF RoomOK, SocksOK
<1>4. \A f \in Connected' : /\ f \in Connected
                            /\ sock'[f] = sock[f]
                            /\ sock[f] # c
                            /\ sock[f] \in Clients
  BY <1>1, <1>2, ConnectionsLead DEF RoomOK, IInv
<1>5. \A i \in 1 .. Len(backlog) : backlog[i] # c /\ backlog[i] \in Clients
  BY DEF RoomOK, PlacesOK, ChatTyped
<1>6. PlacesOK'
  <2>1. cpc[c] # "off"
    BY DEF RoomOK, PlacesOK
  <2>2. \A d \in Clients : cpc'[d] = "off" => ~closed'[d]
    BY <1>2, <2>1 DEF RoomOK, PlacesOK
  <2>3. \A f \in Connected' : /\ cpc'[sock'[f]] # "off"
                              /\ ~closed'[sock'[f]]
                              /\ \A i \in 1 .. Len(backlog) : backlog[i] # sock'[f]
    BY <1>2, <1>4 DEF RoomOK, PlacesOK
  <2>4. \A i \in 1 .. Len(backlog) : cpc'[backlog[i]] # "off" /\ ~closed'[backlog[i]]
    BY <1>2, <1>5 DEF RoomOK, PlacesOK
  <2> QED
    BY <2>2, <2>3, <2>4 DEF RoomOK, PlacesOK
<1> QED
  BY <1>2, <1>3, <1>4, <1>6

LEMMA RefuseRoom ==
  ASSUME IInv, RoomOK, SrvRefuse
  PROVE  /\ RoomOK'
         /\ \A d \in Clients : Waiting(d)' => Waiting(d) /\ d # sock[cur]
         /\ \A fd \in Members : sock'[fd] = sock[fd]
<1>1. PICK c \in Clients, name \in Names :
        /\ pc = "join" /\ c = sock[cur]
        /\ Refuse(name)
        /\ Deliver(c, [kind |-> "nak"])
        /\ up' = [up EXCEPT ![c] = <<>>]
        /\ Forget(cur)
        /\ UNCHANGED <<cpc, says, view, backlog>>
  BY DEF SrvRefuse
<1>2. pc' = "scan" /\ UNCHANGED <<table, set2, cur>>
  BY <1>1 DEF Refuse
<1>3. /\ cur \in Connected
      /\ cur \notin Members
      /\ Users' = Users /\ Members' = Members /\ clients' = clients
      /\ Connected' = Members /\ Connected' = Connected \ {cur}
  BY <1>1, <1>2 DEF IInv, Alive, Connected, Users, Members, table
<1>4. /\ SocksOK'
      /\ PlacesOK'
      /\ sock' \in [Fds -> Clients \cup {"none"}]
      /\ closed' \in [Clients -> BOOLEAN]
      /\ \A f \in Connected' : sock'[f] = sock[f]
  BY <1>1, <1>2, <1>3, ForgetRoom
<1>5. /\ peer' \in [Clients -> {"up", "fin", "due", "rst", "dead"}]
      /\ \A d \in Clients : peer'[d] = "up" <=> peer[d] = "up"
  <2> DEFINE m == [kind |-> "nak"]
  <2>1. Deliver(c, m) /\ ChatTyped
    BY <1>1 DEF RoomOK
  <2> HIDE DEF m
  <2> QED
    BY <2>1, DeliverHears
<1>6. /\ up' \in [Clients -> Seq(Frames)]
      /\ up'[c] = <<>>
      /\ \A d \in Clients : d # c => up'[d] = up[d]
  <2>1. up \in [Clients -> Seq(Frames)] /\ <<>> \in Seq(Frames)
    BY DEF RoomOK, ChatTyped
  <2> QED
    BY <1>1, <2>1
<1>7. ChatTyped'
  BY <1>1, <1>4, <1>5, <1>6 DEF RoomOK, ChatTyped
<1>8. HeardOK'
  BY <1>1, <1>5 DEF RoomOK, HeardOK
<1>9. \A d \in Clients : Waiting(d)' => Waiting(d) /\ d # c
  <2>1. \A i \in 1 .. Len(backlog) : backlog[i] # c
    BY <1>1, <1>3 DEF RoomOK, PlacesOK
  <2> QED
    BY <1>1, <1>2, <2>1 DEF Waiting
<1>10. JoinFirst'
  BY <1>1, <1>6, <1>9 DEF RoomOK, JoinFirst
<1>11. NamesOK'
  <2>1. \A i \in Users : At(i)' = At(i) /\ At(i) \in Clients
    BY <1>3, <1>4, ConnectionsLead DEF RoomOK, IInv, At, Members
  <2> QED
    BY <1>3, <1>5, <2>1 DEF RoomOK, NamesOK
<1> QED
  BY <1>1, <1>3, <1>4, <1>7, <1>8, <1>9, <1>10, <1>11 DEF RoomOK

(* What admission does to the table: one more user, in the next cell.      *)
LEMMA AdmitCells ==
  ASSUME IInv, NEW name \in Names, Admit(name)
  PROVE  /\ Users' = Users \cup {client_count} /\ client_count \notin Users
         /\ \A i \in Users : clients'[i] = clients[i]
         /\ clients'[client_count] = [name |-> name, fd |-> cur]
         /\ Members' = Members \cup {cur}
         /\ pc = "join" /\ pc' = "cast" /\ UNCHANGED <<set2, cur>>
<1>1. /\ pc = "join" /\ pc' = "cast" /\ UNCHANGED <<set2, cur>>
      /\ clients' = [clients EXCEPT ![client_count] = [name |-> name, fd |-> cur]]
      /\ client_count' = client_count + 1
      /\ client_count # MaxClient
  BY DEF Admit, Broadcast, check_name
<1>2. /\ client_count \in Nat /\ client_count < MaxClient /\ client_count \in Cells
      /\ clients \in [Cells -> Entries] /\ MaxClient \in Nat
  BY <1>1, Domains DEF IInv, TypeOK, Cells
<1>3. /\ Users' = Users \cup {client_count} /\ client_count \notin Users
      /\ \A i \in Users : clients'[i] = clients[i]
      /\ clients'[client_count] = [name |-> name, fd |-> cur]
  BY <1>1, <1>2 DEF Users, Cells
<1>4. Members' = Members \cup {cur}
  BY <1>3 DEF Members
<1> QED
  BY <1>1, <1>3, <1>4

LEMMA AdmitRoom ==
  ASSUME IInv, RoomOK, SrvAdmit
  PROVE  /\ RoomOK'
         /\ \A d \in Clients : Waiting(d)' => Waiting(d) /\ d # sock[cur]
<1>1. PICK c \in Clients, name \in Names :
        /\ pc = "join" /\ c = sock[cur]
        /\ JoinReads(c, name)
        /\ Admit(name)
        /\ Deliver(c, [kind |-> "ack",
                       roster |-> {clients[i].name : i \in 0 .. client_count - 1}])
        /\ up' = [up EXCEPT ![c] = JoinRest(c)]
        /\ UNCHANGED <<cpc, says, view, backlog, sock, closed>>
  BY DEF SrvAdmit
<1>2. /\ Users' = Users \cup {client_count} /\ client_count \notin Users
      /\ \A i \in Users : clients'[i] = clients[i]
      /\ clients'[client_count] = [name |-> name, fd |-> cur]
      /\ Members' = Members \cup {cur}
      /\ pc' = "cast" /\ UNCHANGED <<set2, cur>>
  BY <1>1, AdmitCells
<1>3. cur \in Connected /\ Connected' = Connected
  BY <1>1, <1>2 DEF Connected
<1>4. /\ peer' \in [Clients -> {"up", "fin", "due", "rst", "dead"}]
      /\ \A d \in Clients : peer'[d] = "up" <=> peer[d] = "up"
  <2> DEFINE m == [kind |-> "ack", roster |-> {clients[i].name : i \in 0 .. client_count - 1}]
  <2>1. Deliver(c, m) /\ ChatTyped
    BY <1>1 DEF RoomOK
  <2> HIDE DEF m
  <2> QED
    BY <2>1, DeliverHears
<1>5. /\ up' \in [Clients -> Seq(Frames)]
      /\ up[c] = <<>> => up'[c] = <<>>
      /\ \A d \in Clients : d # c => up'[d] = up[d]
  <2>1. up \in [Clients -> Seq(Frames)] /\ <<>> \in Seq(Frames)
    BY DEF RoomOK, ChatTyped
  <2>2. JoinRest(c) \in Seq(Frames) /\ (up[c] = <<>> => JoinRest(c) = <<>>)
    BY <2>1, Taken DEF JoinRest
  <2> QED
    BY <1>1, <2>1, <2>2
<1>6. Waiting(c)
  BY <1>1 DEF Waiting
<1>7. ChatTyped'
  BY <1>1, <1>4, <1>5 DEF RoomOK, ChatTyped
<1>8. SocksOK'
  BY <1>1, <1>3 DEF RoomOK, SocksOK
<1>9. PlacesOK'
  BY <1>1, <1>2, <1>3 DEF RoomOK, PlacesOK
<1>10. HeardOK'
  BY <1>1, <1>4 DEF RoomOK, HeardOK
<1>11. \A d \in Clients : Waiting(d)' => Waiting(d) /\ d # c
  <2>1. \A i \in 1 .. Len(backlog) : backlog[i] # c
    BY <1>1, <1>3 DEF RoomOK, PlacesOK
  <2> QED
    BY <1>1, <1>2, <2>1 DEF Waiting
<1>12. JoinFirst'
  <2>1. cpc'[c] \in {"off", "conn"} => up'[c] = <<>>
    BY <1>1, <1>5 DEF RoomOK, JoinFirst
  <2> QED
    BY <1>1, <1>5, <1>11, <2>1 DEF RoomOK, JoinFirst
<1>13. NamesOK'
  <2>1. \A i \in Users : /\ i \in Users' /\ clients'[i] = clients[i]
                         /\ At(i)' = At(i) /\ At(i) \in Clients
    BY <1>1, <1>2, ConnectionsLead DEF RoomOK, IInv, At
  <2>2. sock'[clients'[client_count].fd] = c
    BY <1>1, <1>2
  <2>3. peer[c] = "up" => name = NameOf[c]
    <3>1. up[c] # <<>> => Head(up[c]) = [join |-> NameOf[c]]
      BY <1>6 DEF RoomOK, JoinFirst
    <3>2. IF up[c] # <<>> THEN name = Head(up[c]).join ELSE peer[c] # "up"
      BY <1>1 DEF JoinReads
    <3> QED
      BY <3>1, <3>2
  <2>4. ASSUME NEW i \in Users', peer'[sock'[clients'[i].fd]] = "up"
        PROVE  clients'[i].name = NameOf[sock'[clients'[i].fd]]
    <3>1. CASE i \in Users
      BY <1>4, <2>1, <2>4, <3>1 DEF RoomOK, NamesOK, At
    <3>2. CASE i = client_count
      BY <1>2, <1>4, <2>2, <2>3, <2>4, <3>2
    <3> QED
      BY <1>2, <3>1, <3>2
  <2> QED
    BY <2>4 DEF NamesOK, At
<1> QED
  BY <1>1, <1>7, <1>8, <1>9, <1>10, <1>11, <1>12, <1>13 DEF RoomOK

LEMMA HangupDoneRoom ==
  ASSUME IInv, RoomOK, SrvCastDone, msg.kind = "left"
  PROVE  RoomOK'
<1>1. /\ CastDone /\ Forget(cur)
      /\ UNCHANGED <<cpc, says, view, backlog, up, down, peer>>
  BY DEF SrvCastDone
<1>2. /\ pc = "cast" /\ pc' = "scan" /\ UNCHANGED <<set2, cur>>
      /\ client_count' = client_count - 1
  BY <1>1 DEF CastDone, CloseAndClear
<1>3. PICK k \in 0 .. client_count : StopsAt(cur, client_count, k) /\ clients' = Shifted(k)
  BY <1>1 DEF CastDone, CloseAndClear
<1>4. k \in Users /\ clients[k].fd = cur /\ cur \in Members
  <2>1. cur \in Members
    BY <1>2, UserCells DEF IInv, CastNamesSender
  <2>2. client_count \in Int /\ client_count <= client_count
    BY Domains DEF IInv, TypeOK
  <2> QED
    BY <1>3, <2>1, <2>2, LookupFinds DEF IInv
<1>5. /\ \A i \in Users' : \E j \in Users \ {k} : clients'[i] = clients[j]
      /\ Members' = Members \ {cur}
  BY <1>2, <1>3, <1>4, RemoveCell DEF IInv
<1>6. cur \in Connected /\ Connected' = Connected \ {cur}
  BY <1>2, <1>4, <1>5 DEF Connected
<1>7. /\ SocksOK'
      /\ PlacesOK'
      /\ sock' \in [Fds -> Clients \cup {"none"}]
      /\ closed' \in [Clients -> BOOLEAN]
      /\ \A f \in Connected' : sock'[f] = sock[f]
  BY <1>1, <1>2, <1>6, ForgetRoom
<1>8. ChatTyped'
  BY <1>1, <1>7 DEF RoomOK, ChatTyped
<1>9. HeardOK'
  BY <1>1 DEF RoomOK, HeardOK
<1>10. JoinFirst'
  <2>1. \A d \in Clients : Waiting(d)' => Waiting(d)
    BY <1>1, <1>2 DEF Waiting
  <2> QED
    BY <1>1, <2>1 DEF RoomOK, JoinFirst
<1>11. NamesOK'
  <2>1. ASSUME NEW i \in Users', peer'[sock'[clients'[i].fd]] = "up"
        PROVE  clients'[i].name = NameOf[sock'[clients'[i].fd]]
    <3>1. PICK j \in Users \ {k} : clients'[i] = clients[j]
      BY <1>5
    <3>2. clients[j].fd \in Connected'
      BY <1>4, <1>6, <3>1, ConnectionsLead DEF IInv, UniqueUsers, RoomOK
    <3>3. sock'[clients[j].fd] = At(j)
      BY <1>7, <3>2 DEF At
    <3> QED
      BY <1>1, <2>1, <3>1, <3>3 DEF RoomOK, NamesOK
  <2> QED
    BY <2>1 DEF NamesOK, At
<1> QED
  BY <1>7, <1>8, <1>9, <1>10, <1>11 DEF RoomOK

(* The process has ended: nothing moves any more.                          *)
LEMMA ExitedStays ==
  ASSUME pc = "exited", [ChatNext]_chatVars
  PROVE  UNCHANGED chatVars
<1>1. ~Server
  BY DEF Server, SrvSelect, SrvScanDone, SrvAccept, SrvAcceptFails, SrvRefuse, SrvAdmit,
         SrvForward, SrvHangup, SrvRecvFails, SrvSendTo, SrvSendFails, SrvCastDone, Select,
         ScanDone, Accept, AcceptFails, Turn, SendTo, NextRecipient, CastDone
<1>2. \A c \in Clients : ~(ClientStep(c) \/ User(c) \/ ResetArrives(c))
  BY DEF ClientStep, User, ResetArrives, SendJoin, SendLine, SendRefused, ClientRecv,
         Connect, TypeLine, Leave, ServerUp
<1> QED
  BY <1>1, <1>2 DEF ChatNext

ChatInv ==
  /\ IInv
  /\ pc # "exited" => RoomOK
  /\ EndsForACause

LEMMA InitRoom == ChatInit => ChatInv
<1> SUFFICES ASSUME ChatInit PROVE ChatInv
  OBVIOUS
<1>1. Init /\ IInv /\ pc = "select" /\ Users = {} /\ Members = {} /\ Connected = {} /\ set2 = {}
  BY InitIInv DEF ChatInit, Init, Users, Members, Connected
<1>2. /\ ChatTyped
      /\ Len(backlog) = 0
      /\ \A c \in Clients : up[c] = <<>> /\ ~closed[c] /\ peer[c] = "up"
      /\ \A fd \in Fds : sock[fd] = "none"
  BY ChatConstantsOK DEF ChatInit, ChatTyped
<1>3. \A i \in 1 .. Len(backlog) : FALSE
  BY <1>2
<1>4. SocksOK /\ PlacesOK
  BY <1>1, <1>2, <1>3 DEF SocksOK, PlacesOK
<1>5. HeardOK /\ JoinFirst /\ NamesOK
  BY <1>1, <1>2, <1>3 DEF HeardOK, JoinFirst, NamesOK, Waiting
<1> QED
  BY <1>1, <1>2, <1>4, <1>5 DEF RoomOK, ChatInv, EndsForACause

(* The last step of the server: accept has failed, or the call on the      *)
(* descriptor whose turn it was.                                           *)
LEMMA ExitHasCause ==
  ASSUME IInv, RoomOK, ChatNext, pc' = "exited", pc # "exited"
  PROVE  EndsForACause'
<1>1. ASSUME NEW fd \in Fds, sock[fd] # "none", peer[sock[fd]] # "up"
      PROVE  cpc[sock[fd]] = "gone"
  <2>1. sock[fd] \in Clients
    BY <1>1, ConnectionsLead DEF RoomOK, SocksOK, IInv
  <2> QED
    BY <1>1, <2>1 DEF RoomOK, HeardOK
<1>2. ASSUME NEW fd \in Fds, SrvRecvFails(fd)
      PROVE  EndsForACause'
  <2>1. /\ fd \in set2 /\ \A g \in set2 : fd <= g
        /\ fd \in StdFds \/ (sock[fd] # "none" /\ peer[sock[fd]] = "rst")
    BY <1>2 DEF SrvRecvFails, Turn
  <2>2. why' = "recv" /\ UNCHANGED <<set2, sock, cpc, peer>>
    BY <1>2 DEF SrvRecvFails, RecvFails, Exit, clientVars
  <2>3. FailedAt(set2, {"rst"})
    BY <1>1, <2>1 DEF FailedAt
  <2>4. FailedAt(set2, {"rst"})'
    BY <2>2, <2>3 DEF FailedAt
  <2> QED
    BY <2>2, <2>4 DEF EndsForACause
<1>3. ASSUME NEW fd \in Fds, SrvSendFails(fd)
      PROVE  EndsForACause'
  <2>1. /\ fd \in todo /\ \A g \in todo : fd <= g
        /\ fd \in StdFds \/ (sock[fd] # "none" /\ peer[sock[fd]] \in {"rst", "dead"})
    BY <1>3 DEF SrvSendFails, NextRecipient
  <2>2. why' = "send" /\ UNCHANGED <<todo, sock, cpc, peer>>
    BY <1>3 DEF SrvSendFails, SendFails, Exit, clientVars
  <2>3. FailedAt(todo, {"rst", "dead"})
    BY <1>1, <2>1 DEF FailedAt
  <2>4. FailedAt(todo, {"rst", "dead"})'
    BY <2>2, <2>3 DEF FailedAt
  <2> QED
    BY <2>2, <2>4 DEF EndsForACause
<1>4. CASE SrvSelect
  <2>1. why' = "select"
    BY <1>4 DEF SrvSelect, Select, Exit
  <2>2. [Next]_vars
    BY ChatStepIsServerStep
  <2>3. SelectNeverFails'
    BY <2>2, NextIInv DEF IInv
  <2> QED
    BY <2>1, <2>3 DEF SelectNeverFails
<1>5. ASSUME NEW fd \in Fds, SrvForward(fd) \/ SrvHangup(fd) \/ SrvSendTo(fd)
      PROVE  FALSE
  BY <1>5 DEF SrvForward, SrvHangup, SrvSendTo, Forward, Hangup, SendTo, Broadcast
<1>6. ~(SrvScanDone \/ SrvAccept \/ SrvRefuse \/ SrvAdmit \/ SrvCastDone)
  BY DEF SrvScanDone, SrvAccept, SrvRefuse, SrvAdmit, SrvCastDone, ScanDone, Accept, Refuse,
         Admit, Broadcast, CastDone
<1>7. CASE SrvAcceptFails
  BY <1>7 DEF SrvAcceptFails, AcceptFails, Exit, EndsForACause
<1>8. \A c \in Clients : ~(ClientStep(c) \/ User(c) \/ ResetArrives(c))
  BY DEF ClientStep, User, ResetArrives, SendJoin, SendLine, SendRefused, ClientRecv,
         Connect, TypeLine, Leave, vars
<1> QED
  BY <1>2, <1>3, <1>4, <1>5, <1>6, <1>7, <1>8 DEF ChatNext, Server

LEMMA NextRoom ==
  ASSUME IInv, RoomOK, ChatNext, pc' # "exited"
  PROVE  RoomOK'
<1>1. CASE SrvSelect
  BY <1>1, SelectRoom
<1>2. CASE SrvScanDone
  <2>1. 0 \in Fds
    BY ConstantsOK DEF Fds
  <2> QED
    BY <1>2, <2>1, QuietRoom
<1>3. CASE SrvAccept
  BY <1>3, AcceptRoom
<1>4. CASE SrvRefuse
  BY <1>4, RefuseRoom
<1>5. CASE SrvAdmit
  BY <1>5, AdmitRoom
<1>6. ASSUME NEW fd \in Fds,
             SrvForward(fd) \/ SrvHangup(fd) \/ SrvRecvFails(fd)
               \/ SrvSendTo(fd) \/ SrvSendFails(fd)
      PROVE  RoomOK'
  <2>1. ~SrvRecvFails(fd) /\ ~SrvSendFails(fd)
    BY DEF SrvRecvFails, SrvSendFails, RecvFails, SendFails, Exit
  <2> QED
    BY <1>6, <2>1, ForwardRoom, QuietRoom, SendToRoom
<1>7. CASE SrvCastDone
  <2>1. 0 \in Fds
    BY ConstantsOK DEF Fds
  <2> QED
    BY <1>7, <2>1, QuietRoom, HangupDoneRoom
<1>8. ASSUME NEW c \in Clients, ClientStep(c) \/ User(c) \/ ResetArrives(c)
      PROVE  RoomOK'
  BY <1>8, ConnectRoom, ClientRoom DEF User, IInv
<1>9. ~SrvAcceptFails
  BY DEF SrvAcceptFails, AcceptFails, Exit
<1> QED
  BY <1>1, <1>2, <1>3, <1>4, <1>5, <1>6, <1>7, <1>8, <1>9 DEF ChatNext, Server

LEMMA StepRoom == ChatInv /\ [ChatNext]_chatVars => ChatInv'
<1> SUFFICES ASSUME ChatInv, [ChatNext]_chatVars PROVE ChatInv'
  OBVIOUS
<1>1. IInv'
  BY ChatStepIsServerStep, NextIInv DEF ChatInv
<1>2. CASE UNCHANGED chatVars
  <2>1. RoomOK => RoomOK'
    BY <1>2 DEF chatVars, vars, clientVars, RoomOK, ChatTyped, SocksOK, PlacesOK, HeardOK,
                JoinFirst, NamesOK, Connected, Members, Users, Waiting, At
  <2> QED
    BY <1>1, <1>2, <2>1 DEF ChatInv, EndsForACause, FailedAt, chatVars, vars, clientVars
<1>3. CASE ChatNext /\ pc # "exited" /\ pc' # "exited"
  BY <1>1, <1>3, NextRoom DEF ChatInv, EndsForACause
<1>4. CASE ChatNext /\ pc # "exited" /\ pc' = "exited"
  BY <1>1, <1>4, ExitHasCause DEF ChatInv
<1> QED
  BY <1>2, <1>3, <1>4, ExitedStays

THEOREM ChatInvariance == ChatSpec => []ChatInv
<1> QED
  BY InitRoom, StepRoom, PTL DEF ChatSpec

(* Users, descriptors and clients stay matched.                            *)
THEOREM FramesFindTheirUsers == ChatSpec => []ConnectionsMatch
<1>1. ChatInv => ConnectionsMatch
  <2> SUFFICES ASSUME ChatInv, pc # "exited", NEW i \in Users
               PROVE  /\ At(i) # "none"
                      /\ ~closed[At(i)]
                      /\ \A j \in Users : i # j => At(i) # At(j)
                      /\ peer[At(i)] = "up" => clients[i].name = NameOf[At(i)]
    BY DEF ConnectionsMatch
  <2>1. RoomOK /\ TypeOK
    BY DEF ChatInv, IInv
  <2>2. \A j \in Users : clients[j].fd \in Connected /\ clients[j].fd \in Fds /\ At(j) \in Clients
    BY <2>1, ConnectionsLead DEF RoomOK
  <2>3. At(i) # "none" /\ ~closed[At(i)]
    BY <2>1, <2>2, ChatConstantsOK DEF RoomOK, PlacesOK, At
  <2>4. ASSUME NEW j \in Users, i # j PROVE At(i) # At(j)
    BY <2>1, <2>2, <2>3, <2>4 DEF RoomOK, SocksOK, At, ChatInv, IInv, UniqueUsers
  <2> QED
    BY <2>1, <2>3, <2>4 DEF RoomOK, NamesOK
<1> QED
  BY <1>1, ChatInvariance, PTL

(* What ends the server is a failing accept, a call on a standard          *)
(* descriptor that set1 held from the start, or the reset of a client that *)
(* went away; no answer to a JOIN and no select.                           *)
THEOREM EndsHaveCauses == ChatSpec => []EndsForACause
<1>1. ChatInv => EndsForACause
  BY DEF ChatInv
<1> QED
  BY <1>1, ChatInvariance, PTL
-----------------------------------------------------------------------------
(* ToldAll: frames are read one after the other.                           *)

(* A set of numbers that is not empty has a least one.                     *)
LEMMA LeastNumber ==
  ASSUME NEW T, T \subseteq Nat, T # {}
  PROVE  \E n \in T : \A k \in T : n <= k
<1>1. PICK n \in T : \A k \in T : ~ (<<k, n>> \in OpToRel(<, Nat))
  BY NatLessThanWellFounded, WFMin
<1>2. \A k \in T : <<k, n>> \in OpToRel(<, Nat) <=> k < n
  BY DEF OpToRel
<1>3. \A k \in T : k \in Nat
  OBVIOUS
<1>4. \A k \in T : ~ (k < n) => n <= k
  BY <1>3
<1> QED
  BY <1>1, <1>2, <1>4

(* g[n] is what is known after the first n frames.                         *)
Follows(g, v, ms, n) == g[0] = v /\ \A i \in 1 .. n : g[i] = Told(g[i - 1], ms[i])

LEMMA FollowsExists ==
  ASSUME NEW ms, NEW v, NEW len \in Nat
  PROVE  \E g : Follows(g, v, ms, len)
<1> DEFINE Upto(n) == \E g : Follows(g, v, ms, n)
           Bad == {n \in 0 .. len : ~ Upto(n)}
<1>1. Upto(0)
  <2>1. [i \in {0} |-> v][0] = v
    OBVIOUS
  <2>2. \A i \in 1 .. 0 : FALSE
    OBVIOUS
  <2> QED
    BY <2>1, <2>2 DEF Follows
<1>2. ASSUME NEW n \in 1 .. len, Upto(n - 1) PROVE Upto(n)
  <2>1. PICK g : Follows(g, v, ms, n - 1)
    BY <1>2, Zenon
  <2> DEFINE h == [i \in 0 .. n |-> IF i = n THEN Told(g[n - 1], ms[n]) ELSE g[i]]
  <2>2. h[n] = Told(g[n - 1], ms[n]) /\ \A i \in 0 .. n - 1 : h[i] = g[i]
    OBVIOUS
  <2> HIDE DEF h
  <2>3. h[0] = v
    BY <2>1, <2>2 DEF Follows
  <2>4. ASSUME NEW i \in 1 .. n PROVE h[i] = Told(h[i - 1], ms[i])
    <3>1. i - 1 \in 0 .. n - 1 /\ (i = n \/ (i \in 1 .. n - 1 /\ i \in 0 .. n - 1))
      OBVIOUS
    <3>2. h[i - 1] = g[i - 1]
      BY <2>2, <3>1
    <3> QED
      BY <2>1, <2>2, <3>1, <3>2 DEF Follows
  <2> QED
    BY <2>3, <2>4 DEF Follows
<1>3. Bad = {}
  <2> SUFFICES ASSUME Bad # {} PROVE FALSE
    OBVIOUS
  <2> HIDE DEF Upto
  <2>1. Bad \subseteq Nat
    OBVIOUS
  <2>2. PICK k \in Bad : \A j \in Bad : k <= j
    <3> HIDE DEF Bad
    <3> QED
      BY <2>1, LeastNumber
  <2>3. k \in 1 .. len /\ k - 1 \in 0 .. len /\ k - 1 \notin Bad
    BY <1>1, <2>2
  <2>4. Upto(k - 1)
    BY <2>3
  <2> QED
    BY <1>2, <2>2, <2>3, <2>4
<1>4. Upto(len)
  <2> HIDE DEF Upto
  <2> QED
    BY <1>3
<1> QED
  BY <1>4, Zenon

LEMMA FollowsUnique ==
  ASSUME NEW ms, NEW v, NEW len \in Nat, NEW g, NEW h,
         Follows(g, v, ms, len), Follows(h, v, ms, len)
  PROVE  g[len] = h[len]
<1> DEFINE Bad == {n \in 0 .. len : g[n] # h[n]}
<1>1. SUFFICES Bad = {}
  OBVIOUS
<1>2. SUFFICES ASSUME Bad # {} PROVE FALSE
  OBVIOUS
<1>3. PICK k \in Bad : \A j \in Bad : k <= j
  <2>1. Bad \subseteq Nat
    OBVIOUS
  <2> HIDE DEF Bad
  <2> QED
    BY <1>2, <2>1, LeastNumber
<1>4. k # 0
  BY DEF Follows
<1>5. k \in 1 .. len /\ k - 1 \in 0 .. len /\ k - 1 \notin Bad
  BY <1>3, <1>4
<1>6. g[k - 1] = h[k - 1]
  BY <1>5
<1>7. g[k] = h[k]
  BY <1>5, <1>6 DEF Follows
<1> QED
  BY <1>7

(* The recursive function of ToldAll is the one that follows the frames.   *)
LEMMA ToldAllFollows ==
  ASSUME NEW S, NEW ms \in Seq(S), NEW v, NEW g, Follows(g, v, ms, Len(ms))
  PROVE  ToldAll(v, ms) = g[Len(ms)]
<1> DEFINE len == Len(ms)
           F(f) == [n \in 0 .. len |-> IF n = 0 THEN v ELSE Told(f[n - 1], ms[n])]
           a == CHOOSE f : f = F(f)
           h == [n \in 0 .. len |-> g[n]]
<1>0. len \in Nat
  OBVIOUS
<1>1. h = F(h)
  <2>1. \A n \in 0 .. len : h[n] = g[n]
    OBVIOUS
  <2> HIDE DEF len
  <2>2. ASSUME NEW n \in 0 .. len
        PROVE  g[n] = IF n = 0 THEN v ELSE Told(h[n - 1], ms[n])
    <3>1. CASE n = 0
      BY <3>1 DEF Follows
    <3>2. CASE n # 0
      <4>1. n \in 1 .. len /\ n - 1 \in 0 .. len
        BY <1>0, <3>2
      <4>2. h[n - 1] = g[n - 1]
        BY <2>1, <4>1
      <4> HIDE DEF h
      <4> QED
        BY <3>2, <4>1, <4>2 DEF Follows, len
    <3> QED
      BY <3>1, <3>2
  <2> QED
    BY <2>2
<1>2. a = F(a)
  <2> HIDE DEF F, h
  <2> QED
    BY <1>1
<1>3. Follows(a, v, ms, len)
  <2> HIDE DEF a, len
  <2>1. a[0] = v
    BY <1>0, <1>2
  <2>2. ASSUME NEW i \in 1 .. len PROVE a[i] = Told(a[i - 1], ms[i])
    <3>1. i \in 0 .. len /\ i # 0
      BY <1>0
    <3>2. F(a)[i] = Told(a[i - 1], ms[i])
      BY <3>1
    <3> QED
      BY <1>2, <3>2
  <2> QED
    BY <2>1, <2>2 DEF Follows
<1>4. ToldAll(v, ms) = a[len]
  BY DEF ToldAll
<1> HIDE DEF a
<1>5. a[len] = g[len]
  <2>1. Follows(g, v, ms, len)
    OBVIOUS
  <2> HIDE DEF len
  <2> QED
    BY <1>0, <1>3, <2>1, FollowsUnique
<1> QED
  BY <1>4, <1>5

LEMMA ToldNothing == \A v : ToldAll(v, <<>>) = v
<1> SUFFICES ASSUME NEW v PROVE ToldAll(v, <<>>) = v
  OBVIOUS
<1>1. PICK g : Follows(g, v, <<>>, 0)
  BY FollowsExists
<1>2. <<>> \in Seq({}) /\ Len(<<>>) = 0
  OBVIOUS
<1>3. ToldAll(v, <<>>) = g[0]
  BY <1>1, <1>2, ToldAllFollows
<1> QED
  BY <1>1, <1>3 DEF Follows

(* One more frame at the end is told last,                                 *)
LEMMA ToldLast ==
  ASSUME NEW S, NEW ms \in Seq(S), NEW m \in S, NEW v
  PROVE  ToldAll(v, Append(ms, m)) = Told(ToldAll(v, ms), m)
<1> DEFINE n == Len(ms)
           more == Append(ms, m)
<1>1. n \in Nat /\ more \in Seq(S) /\ Len(more) = n + 1 /\ more[n + 1] = m
      /\ \A i \in 1 .. n : more[i] = ms[i]
  BY Appended
<1>2. PICK g : Follows(g, v, more, n + 1)
  <2>1. n + 1 \in Nat
    BY <1>1
  <2> HIDE DEF n, more
  <2> QED
    BY <2>1, FollowsExists
<1>3. ToldAll(v, more) = g[n + 1]
  <2> HIDE DEF more
  <2> QED
    BY <1>1, <1>2, ToldAllFollows
<1>4. Follows(g, v, ms, n)
  <2> HIDE DEF n, more
  <2> QED
    BY <1>1, <1>2 DEF Follows
<1>5. ToldAll(v, ms) = g[n]
  BY <1>4, ToldAllFollows
<1>6. g[n + 1] = Told(g[n], m)
  <2>1. n + 1 \in 1 .. n + 1 /\ (n + 1) - 1 = n
    BY <1>1
  <2> HIDE DEF n, more
  <2> QED
    BY <1>1, <1>2, <2>1 DEF Follows
<1> QED
  BY <1>3, <1>5, <1>6

(* and the first frame is told first.                                      *)
LEMMA ToldFirst ==
  ASSUME NEW S, NEW ms \in Seq(S), ms # <<>>, NEW v
  PROVE  ToldAll(Told(v, Head(ms)), Tail(ms)) = ToldAll(v, ms)
<1> DEFINE n == Len(ms)
           rest == Tail(ms)
           w == Told(v, Head(ms))
<1>1. n \in Nat /\ 0 < n /\ rest \in Seq(S) /\ Len(rest) = n - 1 /\ Head(ms) = ms[1]
      /\ \A i \in 1 .. n - 1 : rest[i] = ms[i + 1]
  BY Taken
<1>2. PICK g : Follows(g, v, ms, n)
  <2> HIDE DEF n
  <2> QED
    BY <1>1, FollowsExists
<1>3. ToldAll(v, ms) = g[n]
  BY <1>2, ToldAllFollows
<1> DEFINE h == [i \in 0 .. n - 1 |-> g[i + 1]]
<1>4. Follows(h, w, rest, n - 1)
  <2>1. \A i \in 0 .. n - 1 : h[i] = g[i + 1]
    OBVIOUS
  <2> HIDE DEF h, n, rest
  <2>2. h[0] = w
    <3>1. 0 \in 0 .. n - 1 /\ 1 \in 1 .. n
      BY <1>1
    <3>2. g[1] = Told(g[0], ms[1]) /\ g[0] = v
      BY <1>2, <3>1 DEF Follows
    <3> QED
      BY <1>1, <2>1, <3>1, <3>2
  <2>3. ASSUME NEW i \in 1 .. n - 1 PROVE h[i] = Told(h[i - 1], rest[i])
    <3>1. i \in 0 .. n - 1 /\ i - 1 \in 0 .. n - 1 /\ i + 1 \in 1 .. n /\ (i - 1) + 1 = i
          /\ (i + 1) - 1 = i
      BY <1>1
    <3>2. g[i + 1] = Told(g[i], ms[i + 1])
      BY <1>2, <3>1 DEF Follows
    <3>3. h[i] = g[i + 1] /\ h[i - 1] = g[i] /\ rest[i] = ms[i + 1]
      BY <1>1, <2>1, <3>1
    <3> QED
      BY <3>2, <3>3
  <2> QED
    BY <2>2, <2>3 DEF Follows
<1>5. ToldAll(w, rest) = h[n - 1]
  <2> HIDE DEF h, w, rest
  <2> QED
    BY <1>1, <1>4, ToldAllFollows
<1>6. h[n - 1] = g[n]
  <2>1. n - 1 \in 0 .. n - 1 /\ (n - 1) + 1 = n
    BY <1>1
  <2> HIDE DEF n
  <2> QED
    BY <2>1
<1> QED
  BY <1>3, <1>5, <1>6
(* What a client has been sent, in order.                                  *)
Notes ==
       Forwards
  \cup [kind : {"nak"}]
  \cup [kind : {"ack"}, roster : SUBSET Names]

Leaving(i) == pc = "cast" /\ msg.kind = "left" /\ clients[i].fd = cur

(* A picture of the room in which the users in S are known.                *)
Picture(S) == [told : {TRUE}, last : [S -> Int]]

(* The last line of n one who knows v has seen.                            *)
Seen(v, n) == v.last[n]

(* What c will know once it has read everything.                           *)
Will(c) == ToldAll(view[c], down[c])

RosterOK ==
  \A i \in Users :
    peer[At(i)] = "up" /\ ~Leaving(i) => Will(At(i)) \in Picture(ShouldKnow(i))

ViewsOK ==
  /\ down \in [Clients -> Seq(Notes)]
  /\ DOMAIN view = Clients
  /\ pc = "cast" => msg \in Forwards /\ msg.kind # "idle"
  /\ \A c \in Clients : cpc[c] = "off" \/ Waiting(c) => view[c] = NoView /\ down[c] = <<>>
  /\ RosterOK

(* The next frame makes sense to one who knows v.                          *)
Makes(v, m) ==
  IF ~v.told THEN m.kind \in {"ack", "nak"}
  ELSE CASE m.kind = "joined" -> m.name \notin DOMAIN v.last
         [] m.kind = "left"   -> m.name \in DOMAIN v.last
         [] m.kind = "said"   -> /\ m.name \in DOMAIN v.last
                                 /\ Seen(v, m.name) \in {-1, m.text - 1}
         [] OTHER             -> FALSE

(* Every frame of ms makes sense to one who knows v and the frames before. *)
Sense(v, ms) ==
  \A k \in 1 .. Len(ms) : Makes(ToldAll(v, SubSeq(ms, 1, k - 1)), ms[k])

(* What one more frame does to a picture of the room: an announcement,     *)
LEMMA PictureJoined ==
  ASSUME NEW S, NEW v \in Picture(S), NEW m, m.kind = "joined"
  PROVE  /\ Told(v, m) \in Picture(S \cup {m.name})
         /\ Seen(Told(v, m), m.name) = 0
         /\ \A n \in S : n # m.name => Seen(Told(v, m), n) = Seen(v, n)
<1>1. PICK f : v = [told |-> TRUE, last |-> f] /\ f \in [S -> Int]
  <2>1. v.told = TRUE /\ v.last \in [S -> Int] /\ v = [told |-> v.told, last |-> v.last]
    BY DEF Picture
  <2> QED
    BY <2>1
<1>2. DOMAIN v.last = S /\ v.last = f
  BY <1>1
<1> DEFINE g == [n \in S \cup {m.name} |-> IF n = m.name THEN 0 ELSE f[n]]
<1>3. Told(v, m) = [v EXCEPT !.last = g]
  BY <1>2 DEF Told
<1>4. /\ g \in [S \cup {m.name} -> Int] /\ g[m.name] = 0
      /\ \A n \in S : n # m.name => g[n] = f[n]
  BY <1>1
<1> HIDE DEF g
<1>5. Told(v, m) = [told |-> TRUE, last |-> g]
  BY <1>1, <1>3
<1> QED
  BY <1>2, <1>4, <1>5 DEF Picture, Seen

(* the end of a user,                                                      *)
LEMMA PictureLeft ==
  ASSUME NEW S, NEW v \in Picture(S), NEW m, m.kind = "left"
  PROVE  /\ Told(v, m) \in Picture(S \ {m.name})
         /\ \A n \in S : n # m.name => Seen(Told(v, m), n) = Seen(v, n)
<1>1. PICK f : v = [told |-> TRUE, last |-> f] /\ f \in [S -> Int]
  <2>1. v.told = TRUE /\ v.last \in [S -> Int] /\ v = [told |-> v.told, last |-> v.last]
    BY DEF Picture
  <2> QED
    BY <2>1
<1>2. DOMAIN v.last = S /\ v.last = f
  BY <1>1
<1> DEFINE g == [n \in S \ {m.name} |-> f[n]]
<1>3. Told(v, m) = [v EXCEPT !.last = g]
  BY <1>2 DEF Told
<1>4. g \in [S \ {m.name} -> Int] /\ \A n \in S : n # m.name => g[n] = f[n]
  BY <1>1
<1> HIDE DEF g
<1>5. Told(v, m) = [told |-> TRUE, last |-> g]
  BY <1>1, <1>3
<1> QED
  BY <1>2, <1>4, <1>5 DEF Picture, Seen

(* a line,                                                                 *)
LEMMA PictureSaid ==
  ASSUME NEW S, NEW v \in Picture(S), NEW m, m.kind = "said", m.text \in Int
  PROVE  /\ Told(v, m) \in Picture(S)
         /\ m.name \in S => Seen(Told(v, m), m.name) = m.text
         /\ \A n \in S : n # m.name => Seen(Told(v, m), n) = Seen(v, n)
<1>1. PICK f : v = [told |-> TRUE, last |-> f] /\ f \in [S -> Int]
  <2>1. v.told = TRUE /\ v.last \in [S -> Int] /\ v = [told |-> v.told, last |-> v.last]
    BY DEF Picture
  <2> QED
    BY <2>1
<1>2. DOMAIN v.last = S /\ v.last = f
  BY <1>1
<1> DEFINE g == [n \in S |-> IF n = m.name THEN m.text ELSE f[n]]
<1>3. Told(v, m) = [v EXCEPT !.last = g]
  BY <1>2 DEF Told
<1>4. /\ g \in [S -> Int] /\ (m.name \in S => g[m.name] = m.text)
      /\ \A n \in S : n # m.name => g[n] = f[n]
  BY <1>1
<1> HIDE DEF g
<1>5. Told(v, m) = [told |-> TRUE, last |-> g]
  BY <1>1, <1>3
<1> QED
  BY <1>2, <1>4, <1>5 DEF Picture, Seen

(* and the answer to a JOIN, which starts the picture.                     *)
LEMMA PictureBegins ==
  ASSUME NEW v, NEW S
  PROVE  /\ Told(v, [kind |-> "ack", roster |-> S]) \in Picture(S)
         /\ \A n \in S : Seen(Told(v, [kind |-> "ack", roster |-> S]), n) = -1
<1> DEFINE m == [kind |-> "ack", roster |-> S]
           g == [n \in S |-> -1]
<1>1. m.kind = "ack" /\ m.roster = S
  OBVIOUS
<1>2. Told(v, m) = [told |-> TRUE, last |-> g]
  <2> HIDE DEF m
  <2> QED
    BY <1>1 DEF Told
<1>3. g \in [S -> Int] /\ \A n \in S : g[n] = -1
  OBVIOUS
<1> HIDE DEF m, g
<1>4. Told(v, m) \in Picture(S) /\ \A n \in S : Seen(Told(v, m), n) = -1
  BY <1>2, <1>3 DEF Picture, Seen
<1> QED
  BY <1>4 DEF m

(* The users of the table, by name.                                        *)
Roster == {clients[j].name : j \in Users}

(* The change being broadcast is still to come, or already made, for i.    *)
Behind(i) ==
  \/ pc = "cast" /\ msg.kind = "joined" /\ clients[i].fd \in todo
  \/ pc = "cast" /\ msg.kind = "left" /\ clients[i].fd \notin todo

LEMMA KnowOthers ==
  UniqueUsers =>
    \A i \in Users :
      ShouldKnow(i) = IF Behind(i) THEN Roster \ {clients[i].name, msg.name}
                      ELSE Roster \ {clients[i].name}
<1> SUFFICES ASSUME UniqueUsers, NEW i \in Users
             PROVE  ShouldKnow(i) = IF Behind(i) THEN Roster \ {clients[i].name, msg.name}
                                    ELSE Roster \ {clients[i].name}
  OBVIOUS
<1> DEFINE others == {clients[j].name : j \in Users \ {i}}
           told == clients[i].fd \notin todo
<1>1. others = Roster \ {clients[i].name}
  BY DEF Roster, UniqueUsers
<1>2. ShouldKnow(i) =
        CASE pc = "cast" /\ msg.kind = "joined" /\ ~told -> others \ {msg.name}
          [] pc = "cast" /\ msg.kind = "left" /\ told    -> others \ {msg.name}
          [] OTHER                                       -> others
  BY DEF ShouldKnow
<1> HIDE DEF others
<1>3. others \ {msg.name} = Roster \ {clients[i].name, msg.name}
  BY <1>1
<1>4. ShouldKnow(i) = IF Behind(i) THEN others \ {msg.name} ELSE others
  BY <1>2 DEF Behind
<1> QED
  BY <1>1, <1>3, <1>4

LEMMA KnowOthersNext ==
  ASSUME UniqueUsers'
  PROVE  \A i \in Users' :
           ShouldKnow(i)' = IF Behind(i)' THEN Roster' \ {clients'[i].name, msg'.name}
                            ELSE Roster' \ {clients'[i].name}
<1>1. (UniqueUsers =>
         \A i \in Users :
           ShouldKnow(i) = IF Behind(i) THEN Roster \ {clients[i].name, msg.name}
                           ELSE Roster \ {clients[i].name})'
  BY KnowOthers, PTL
<1> QED
  BY <1>1

LEMMA SenseNothing == \A v : Sense(v, <<>>)
<1>1. \A k \in 1 .. Len(<<>>) : FALSE
  OBVIOUS
<1> QED
  BY <1>1 DEF Sense

LEMMA SenseLast ==
  ASSUME NEW S, NEW ms \in Seq(S), NEW m \in S, NEW v, Sense(v, ms), Makes(ToldAll(v, ms), m)
  PROVE  Sense(v, Append(ms, m))
<1> DEFINE n == Len(ms)
           more == Append(ms, m)
<1>1. n \in Nat /\ more \in Seq(S) /\ Len(more) = n + 1 /\ more[n + 1] = m
      /\ \A i \in 1 .. n : more[i] = ms[i]
  BY Appended
<1> SUFFICES ASSUME NEW k \in 1 .. n + 1 PROVE Makes(ToldAll(v, SubSeq(more, 1, k - 1)), more[k])
  BY <1>1 DEF Sense
<1>2. SubSeq(more, 1, k - 1) = SubSeq(ms, 1, k - 1)
  BY <1>1
<1>3. CASE k \in 1 .. n
  BY <1>1, <1>2, <1>3 DEF Sense
<1>4. CASE k = n + 1
  <2>1. SubSeq(ms, 1, k - 1) = ms
    BY <1>1, <1>4
  <2> QED
    BY <1>1, <1>2, <1>4, <2>1
<1> QED
  BY <1>1, <1>3, <1>4

LEMMA SenseFirst ==
  ASSUME NEW S, NEW ms \in Seq(S), ms # <<>>, NEW v, Sense(v, ms)
  PROVE  Makes(v, Head(ms)) /\ Sense(Told(v, Head(ms)), Tail(ms))
<1> DEFINE n == Len(ms)
           rest == Tail(ms)
<1>1. n \in Nat /\ 0 < n /\ rest \in Seq(S) /\ Len(rest) = n - 1 /\ Head(ms) = ms[1]
      /\ \A i \in 1 .. n - 1 : rest[i] = ms[i + 1]
  BY Taken
<1>2. Makes(v, Head(ms))
  <2>1. SubSeq(ms, 1, 1 - 1) = <<>> /\ 1 \in 1 .. Len(ms)
    BY <1>1
  <2>2. Makes(ToldAll(v, SubSeq(ms, 1, 1 - 1)), ms[1])
    BY <2>1 DEF Sense
  <2>3. ToldAll(v, SubSeq(ms, 1, 1 - 1)) = v
    BY <2>1, ToldNothing
  <2> QED
    BY <1>1, <2>2, <2>3
<1>3. ASSUME NEW k \in 1 .. n - 1
      PROVE  Makes(ToldAll(Told(v, Head(ms)), SubSeq(rest, 1, k - 1)), rest[k])
  <2> DEFINE part == SubSeq(ms, 1, k)
  <2>1. part \in Seq(S) /\ part # <<>> /\ Head(part) = Head(ms)
        /\ Tail(part) = SubSeq(rest, 1, k - 1)
    <3>1. part \in Seq(S) /\ Len(part) = k /\ \A i \in 1 .. k : part[i] = ms[i]
      BY <1>1
    <3>2. part # <<>> /\ Head(part) = Head(ms)
      <4> HIDE DEF part
      <4> QED
        BY <1>1, <3>1
    <3>3. Tail(part) \in Seq(S) /\ Len(Tail(part)) = k - 1
          /\ \A i \in 1 .. k - 1 : Tail(part)[i] = part[i + 1]
      <4> HIDE DEF part
      <4> QED
        BY <3>1, <3>2, Taken
    <3>4. SubSeq(rest, 1, k - 1) \in Seq(S) /\ Len(SubSeq(rest, 1, k - 1)) = k - 1
          /\ \A i \in 1 .. k - 1 : SubSeq(rest, 1, k - 1)[i] = rest[i]
      <4> HIDE DEF rest
      <4> QED
        BY <1>1
    <3>5. \A i \in 1 .. k - 1 : Tail(part)[i] = SubSeq(rest, 1, k - 1)[i]
      <4>1. \A i \in 1 .. k - 1 : i + 1 \in 1 .. k /\ i \in 1 .. n - 1
        BY <1>1
      <4> HIDE DEF part, rest
      <4> QED
        BY <1>1, <3>1, <3>3, <3>4, <4>1
    <3>6. Tail(part) = SubSeq(rest, 1, k - 1)
      <4> DEFINE t == Tail(part)
                 u == SubSeq(rest, 1, k - 1)
      <4>1. t \in Seq(S) /\ u \in Seq(S) /\ Len(t) = Len(u) /\ \A i \in 1 .. Len(t) : t[i] = u[i]
        BY <3>3, <3>4, <3>5
      <4> HIDE DEF t, u
      <4>2. t = u
        BY <4>1, SeqEqual
      <4> QED
        BY <4>2 DEF t, u
    <3> QED
      BY <3>1, <3>2, <3>6
  <2> HIDE DEF part
  <2>2. ToldAll(Told(v, Head(ms)), SubSeq(rest, 1, k - 1)) = ToldAll(v, part)
    BY <2>1, ToldFirst
  <2>3. k + 1 \in 1 .. n /\ (k + 1) - 1 = k /\ rest[k] = ms[k + 1]
    BY <1>1
  <2>4. Makes(ToldAll(v, part), ms[k + 1])
    BY <2>3 DEF Sense, part
  <2> QED
    BY <2>2, <2>3, <2>4
<1> QED
  BY <1>1, <1>2, <1>3 DEF Sense

-----------------------------------------------------------------------------
(* ViewsOK, action by action.                                              *)

LEMMA StartNotes == \A S \in SUBSET Names : [kind |-> "ack", roster |-> S] \in Notes
  BY DEF Notes

(* Nothing a client's program or its user does changes what it will know   *)
(* once it has read everything.                                            *)
LEMMA ClientWill ==
  ASSUME ViewsOK, RoomOK, NEW c \in Clients, ClientStep(c) \/ User(c) \/ ResetArrives(c)
  PROVE  /\ UNCHANGED <<vars, sock>>
         /\ down' \in [Clients -> Seq(Notes)]
         /\ DOMAIN view' = Clients
         /\ \A d \in Clients :
              /\ peer'[d] = "up" =>
                   /\ peer[d] = "up"
                   /\ ToldAll(view'[d], down'[d]) = ToldAll(view[d], down[d])
              /\ Sense(view[d], down[d]) => Sense(view'[d], down'[d])
              /\ view[d] = NoView /\ down[d] = <<>> => view'[d] = NoView /\ down'[d] = <<>>
<1>1. CASE UNCHANGED <<vars, sock, view, down, peer>>
  BY <1>1 DEF ViewsOK
<1>2. CASE ClientRecv(c)
  <2>1. /\ UNCHANGED <<vars, sock, peer>>
        /\ down[c] # <<>>
        /\ down' = [down EXCEPT ![c] = Tail(@)]
        /\ view' = [view EXCEPT ![c] = Told(@, Head(down[c]))]
    BY <1>2 DEF ClientRecv
  <2>2. down[c] \in Seq(Notes) /\ Tail(down[c]) \in Seq(Notes)
    BY <2>1, Taken DEF ViewsOK
  <2>3. /\ down'[c] = Tail(down[c])
        /\ view'[c] = Told(view[c], Head(down[c]))
        /\ \A d \in Clients : d # c => down'[d] = down[d] /\ view'[d] = view[d]
        /\ down' \in [Clients -> Seq(Notes)]
        /\ DOMAIN view' = Clients
    BY <2>1, <2>2 DEF ViewsOK
  <2>4. ToldAll(view'[c], down'[c]) = ToldAll(view[c], down[c])
    BY <2>1, <2>2, <2>3, ToldFirst
  <2>5. Sense(view[c], down[c]) => Sense(view'[c], down'[c])
    BY <2>1, <2>2, <2>3, SenseFirst
  <2> QED
    BY <2>1, <2>3, <2>4, <2>5
<1>3. CASE Leave(c)
  <2>1. /\ UNCHANGED <<vars, sock, view>> /\ down' = [down EXCEPT ![c] = <<>>]
    BY <1>3 DEF Leave
  <2>2. PICK h \in {"fin", "rst", "due"} : peer' = [peer EXCEPT ![c] = h]
    BY <1>3 DEF Leave
  <2>3. down' \in [Clients -> Seq(Notes)] /\ down'[c] = <<>>
        /\ \A d \in Clients : d # c => down'[d] = down[d]
    BY <2>1 DEF ViewsOK
  <2>4. peer'[c] = h /\ \A d \in Clients : d # c => peer'[d] = peer[d]
    BY <2>2 DEF RoomOK, ChatTyped
  <2> QED
    BY <2>1, <2>3, <2>4, SenseNothing DEF ViewsOK
<1>4. CASE ResetArrives(c)
  <2>1. /\ UNCHANGED <<vars, sock, view, down>> /\ peer' = [peer EXCEPT ![c] = "dead"]
    BY <1>4 DEF ResetArrives
  <2>2. \A d \in Clients : peer'[d] = "up" => peer[d] = "up"
    BY <2>1 DEF RoomOK, ChatTyped
  <2> QED
    BY <2>1, <2>2 DEF ViewsOK
<1>5. SendJoin(c) \/ SendLine(c) \/ SendRefused(c) \/ Connect(c) \/ TypeLine(c)
        => UNCHANGED <<vars, sock, view, down, peer>>
  BY DEF SendJoin, SendLine, SendRefused, Connect, TypeLine
<1> QED
  BY <1>1, <1>2, <1>3, <1>4, <1>5 DEF ClientStep, User

LEMMA SameRoster ==
  ASSUME UNCHANGED table PROVE Roster' = Roster
  BY TableUnchanged DEF Roster, table

(* User i of the next state is user p of this one: the same name, the same *)
(* client at the other end, and the same to know of the others.            *)
SameUser(i, p) ==
  /\ clients'[i].name = clients[p].name
  /\ At(i)' = At(p)
  /\ ~Leaving(i)' => ~Leaving(p) /\ ShouldKnow(i)' = ShouldKnow(p)

(* What c will know stays, unless it has ended.                            *)
SameWill(c) ==
  peer'[c] = "up" => /\ peer[c] = "up"
                     /\ ToldAll(view'[c], down'[c]) = ToldAll(view[c], down[c])

Carried == \A i \in Users' : \E p \in Users : SameUser(i, p) /\ SameWill(At(p))

LEMMA CarriedViews ==
  ASSUME RosterOK, Carried PROVE RosterOK'
<1> SUFFICES ASSUME NEW i \in Users', peer'[sock'[clients'[i].fd]] = "up", ~Leaving(i)'
             PROVE  ToldAll(view'[sock'[clients'[i].fd]], down'[sock'[clients'[i].fd]])
                      \in Picture(ShouldKnow(i)')
  BY DEF RosterOK, Will, At
<1>1. PICK p \in Users : SameUser(i, p) /\ SameWill(At(p))
  BY DEF Carried
<1>2. sock'[clients'[i].fd] = At(p) /\ ~Leaving(p) /\ ShouldKnow(i)' = ShouldKnow(p)
  BY <1>1 DEF SameUser, At
<1>3. peer[At(p)] = "up" /\ ToldAll(view'[At(p)], down'[At(p)]) = ToldAll(view[At(p)], down[At(p)])
  BY <1>1, <1>2 DEF SameWill
<1>4. ToldAll(view[At(p)], down[At(p)]) \in Picture(ShouldKnow(p))
  BY <1>2, <1>3 DEF RosterOK, Will
<1> QED
  BY <1>2, <1>3, <1>4


LEMMA ClientViews ==
  ASSUME IInv, RoomOK, ViewsOK, NEW c \in Clients, ClientStep(c) \/ User(c) \/ ResetArrives(c)
  PROVE  /\ ViewsOK'
         /\ \A i \in Users : SameUser(i, i) /\ SameWill(At(i))
<1>1. /\ UNCHANGED <<vars, sock>>
      /\ down' \in [Clients -> Seq(Notes)]
      /\ DOMAIN view' = Clients
      /\ \A d \in Clients :
           /\ peer'[d] = "up" =>
                /\ peer[d] = "up"
                /\ ToldAll(view'[d], down'[d]) = ToldAll(view[d], down[d])
           /\ view[d] = NoView /\ down[d] = <<>> => view'[d] = NoView /\ down'[d] = <<>>
  BY ClientWill
<1>2. \A d \in Clients : cpc'[d] = "off" \/ Waiting(d)' => cpc[d] = "off" \/ Waiting(d)
  <2>1. cpc \in [Clients -> {"off", "conn", "loop", "send", "gone"}]
    BY DEF RoomOK, ChatTyped
  <2>2. CASE Connect(c)
    <3>1. backlog' = Append(backlog, c) /\ cpc[c] = "off" /\ backlog \in Seq(Clients)
          /\ cpc' = [cpc EXCEPT ![c] = "conn"]
      BY <2>2 DEF Connect, RoomOK, ChatTyped
    <3>2. \A i \in 1 .. Len(backlog') :
            backlog'[i] = c \/ \E j \in 1 .. Len(backlog) : backlog'[i] = backlog[j]
      BY <3>1
    <3> QED
      BY <1>1, <2>1, <3>1, <3>2 DEF Waiting, vars
  <2>3. CASE ~Connect(c)
    <3>1. UNCHANGED backlog
      BY <2>3 DEF ClientStep, User, ResetArrives, SendJoin, SendLine, SendRefused, ClientRecv,
                  TypeLine, Leave
    <3>2. \A d \in Clients : cpc'[d] = "off" => cpc[d] = "off"
      BY <2>1, <2>3 DEF ClientStep, User, ResetArrives, SendJoin, SendLine, SendRefused,
                        ClientRecv, TypeLine, Leave
    <3> QED
      BY <1>1, <3>1, <3>2 DEF Waiting, vars
  <2> QED
    BY <2>2, <2>3
<1>3. UNCHANGED <<pc, clients, client_count, cur, msg, todo, table>>
  BY <1>1 DEF vars, table
<1>4. \A i \in Users : At(i) \in Clients
  BY ConnectionsLead DEF RoomOK, IInv
<1>5. \A i \in Users : (Leaving(i)' <=> Leaving(i)) /\ ShouldKnow(i)' = ShouldKnow(i)
  <2>1. Users' = Users
    BY <1>3, TableUnchanged
  <2> QED
    BY <1>3, <2>1 DEF Leaving, ShouldKnow
<1>6. \A i \in Users : SameUser(i, i) /\ SameWill(At(i))
  BY <1>1, <1>3, <1>4, <1>5 DEF SameUser, SameWill, At
<1>7. RosterOK'
  <2>1. Users' = Users
    BY <1>3, TableUnchanged
  <2>2. Carried
    BY <1>6, <2>1 DEF Carried
  <2> QED
    BY <2>2, CarriedViews DEF ViewsOK
<1> QED
  BY <1>1, <1>2, <1>3, <1>6, <1>7 DEF ViewsOK

(* A step of the server that sends nothing and leaves the table alone.     *)
LEMMA SilentViews ==
  ASSUME IInv, RoomOK, ViewsOK, UNCHANGED <<table, cpc, view, down>>,
         \A c \in Clients : peer'[c] = "up" => peer[c] = "up",
         \A fd \in Connected : sock'[fd] = sock[fd],
         pc' = "cast" => msg' \in Forwards /\ msg'.kind # "idle",
         \A c \in Clients : Waiting(c)' => Waiting(c),
         \A i \in Users : ~Leaving(i)' => ~Leaving(i) /\ ShouldKnow(i)' = ShouldKnow(i)
  PROVE  ViewsOK' /\ Carried
<1>1. Users' = Users /\ clients' = clients
  BY TableUnchanged DEF table
<1>2. \A i \in Users : clients[i].fd \in Connected /\ At(i) \in Clients
  BY ConnectionsLead DEF RoomOK, IInv
<1>3. \A i \in Users : sock'[clients[i].fd] = At(i)
  BY <1>2 DEF At
<1>4. \A i \in Users : SameUser(i, i) /\ SameWill(At(i))
  BY <1>1, <1>2, <1>3 DEF SameUser, SameWill, At
<1>5. Carried
  BY <1>1, <1>4 DEF Carried
<1>6. RosterOK'
  BY <1>5, CarriedViews DEF ViewsOK
<1> QED
  BY <1>5, <1>6 DEF ViewsOK

(* Outside a broadcast, and in that of a line, everybody should know all   *)
(* the others.                                                             *)
LEMMA KnowAll ==
  ASSUME UniqueUsers, pc # "cast" \/ msg.kind = "said"
  PROVE  \A i \in Users : ~Leaving(i) /\ ShouldKnow(i) = Roster \ {clients[i].name}
<1>1. \A i \in Users : ~Behind(i) /\ ~Leaving(i)
  BY DEF Behind, Leaving
<1> QED
  BY <1>1, KnowOthers

LEMMA QuietViews ==
  ASSUME IInv, IInv', RoomOK, ViewsOK, NEW fd \in Fds,
         SrvSelect \/ SrvScanDone \/ SrvAccept \/ SrvForward(fd), pc' # "exited"
  PROVE  ViewsOK' /\ Carried
<1>1. UNCHANGED <<cpc, view, down, peer>>
  BY DEF SrvSelect, SrvScanDone, SrvAccept, SrvForward, clientVars
<1>2. pc # "cast" /\ UNCHANGED table
  BY DEF SrvSelect, SrvScanDone, SrvAccept, SrvForward, Select, Exit, ScanDone, Accept, Forward,
         Turn
<1>3. pc' # "cast" \/ msg'.kind = "said"
  BY DEF SrvSelect, SrvScanDone, SrvAccept, SrvForward, Select, Exit, ScanDone, Accept, Forward,
         Broadcast
<1>4. Users' = Users /\ clients' = clients /\ Roster' = Roster
  BY <1>2, TableUnchanged, SameRoster DEF table
<1>5. UniqueUsers /\ UniqueUsers'
  BY DEF IInv
<1>6. \A i \in Users : ~Leaving(i) /\ ShouldKnow(i) = Roster \ {clients[i].name}
  BY <1>2, <1>5, KnowAll
<1>7. \A i \in Users' : ShouldKnow(i)' = Roster' \ {clients'[i].name}
  <2>1. \A i \in Users' : ~Behind(i)'
    BY <1>3 DEF Behind
  <2> QED
    BY <1>5, <2>1, KnowOthersNext
<1>8. \A i \in Users : ~Leaving(i) /\ ShouldKnow(i)' = ShouldKnow(i)
  BY <1>4, <1>6, <1>7
<1>9. (\A c \in Clients : Waiting(c)' => Waiting(c)) /\ (\A f \in Connected : sock'[f] = sock[f])
  <2>1. CASE SrvAccept
    BY <2>1, AcceptRoom
  <2>2. CASE SrvSelect \/ SrvScanDone \/ SrvForward(fd)
    <3>1. UNCHANGED <<backlog, sock>> /\ pc' # "join"
      BY <2>2 DEF SrvSelect, SrvScanDone, SrvForward, clientVars, Select, Exit, ScanDone, Forward,
                  Broadcast
    <3> QED
      BY <3>1 DEF Waiting
  <2> QED
    BY <2>1, <2>2
<1>10. pc' = "cast" => msg' \in Forwards /\ msg'.kind # "idle"
  BY DEF SrvSelect, SrvScanDone, SrvAccept, SrvForward, Select, Exit, ScanDone, Accept, Forward,
         Broadcast
<1> QED
  BY <1>1, <1>2, <1>8, <1>9, <1>10, SilentViews

LEMMA HangupViews ==
  ASSUME IInv, IInv', RoomOK, ViewsOK, NEW fd \in Fds, SrvHangup(fd)
  PROVE  ViewsOK' /\ Carried
<1>1. /\ pc = "scan" /\ pc' = "cast" /\ UNCHANGED <<table, clientVars>> /\ cur' = fd
  BY DEF SrvHangup, Hangup, Turn, Broadcast
<1>2. PICK name \in Names : /\ msg' = [kind |-> "left", name |-> name]
                            /\ todo' = Others(set1, max_fd, fd)
  BY DEF SrvHangup, Hangup, Broadcast
<1>3. Users' = Users /\ clients' = clients /\ Roster' = Roster
  BY <1>1, TableUnchanged, SameRoster DEF table
<1>4. UniqueUsers /\ UniqueUsers'
  BY DEF IInv
<1>5. \A i \in Users : ~Leaving(i) /\ ShouldKnow(i) = Roster \ {clients[i].name}
  BY <1>1, <1>4, KnowAll
<1>6. ASSUME NEW i \in Users, ~Leaving(i)'
      PROVE  ShouldKnow(i)' = Roster' \ {clients'[i].name}
  <2>1. clients[i].fd # fd /\ msg'.kind = "left"
    BY <1>1, <1>2, <1>3, <1>6 DEF Leaving
  <2>2. clients[i].fd \in Members
    BY DEF Members
  <2>3. clients[i].fd \in Watched /\ clients[i].fd # Listener
    BY <1>1, <2>2, Domains DEF IInv, WatchIsTable
  <2>4. clients[i].fd \in todo'
    BY <1>2, <2>1, <2>3 DEF Watched, Others
  <2>5. ~Behind(i)'
    BY <1>3, <2>1, <2>4 DEF Behind
  <2> QED
    BY <1>3, <1>4, <2>5, KnowOthersNext
<1>7. \A i \in Users : ~Leaving(i)' => ~Leaving(i) /\ ShouldKnow(i)' = ShouldKnow(i)
  BY <1>3, <1>5, <1>6
<1>8. msg' \in Forwards /\ msg'.kind # "idle"
  BY <1>2 DEF Forwards
<1> QED
  BY <1>1, <1>7, <1>8, SilentViews DEF clientVars, Waiting

(* A frame that is being broadcast.                                        *)
LEMMA CastFrame ==
  ASSUME ViewsOK, pc = "cast"
  PROVE  /\ msg.kind \in {"joined", "left", "said"}
         /\ msg \in Notes /\ msg.name \in Names
         /\ msg.kind = "said" => msg.text \in Int
<1>1. msg \in Forwards /\ msg.kind # "idle"
  BY DEF ViewsOK
<1> QED
  BY <1>1, ChatConstantsOK DEF Forwards, Notes

(* The user a broadcast has reached, and the one it comes from.            *)
LEMMA Recipient ==
  ASSUME IInv, NEW fd \in Fds, NextRecipient(fd), sock[fd] # "none", SocksOK
  PROVE  /\ \E i \in Users : clients[i].fd = fd
         /\ fd # cur
         /\ \E j \in Users : clients[j] = [name |-> msg.name, fd |-> cur]
<1>1. pc = "cast" /\ fd \in todo
  BY DEF NextRecipient
<1>2. fd # cur /\ \E j \in Users : clients[j] = [name |-> msg.name, fd |-> cur]
  BY <1>1 DEF IInv, CastToMembers, CastNamesSender
<1>3. fd \in Connected
  BY DEF SocksOK
<1>4. fd \in Members
  BY <1>1, <1>3 DEF Connected
<1> QED
  BY <1>2, <1>4 DEF Members

LEMMA DeliverSends ==
  ASSUME ViewsOK, NEW c \in Clients, NEW m \in Notes, Deliver(c, m)
  PROVE  /\ down' \in [Clients -> Seq(Notes)]
         /\ \A d \in Clients : d # c => down'[d] = down[d]
         /\ peer[c] # "up" => down'[c] = down[c]
         /\ peer[c] = "up" =>
              /\ down'[c] = Append(down[c], m)
              /\ ToldAll(view[c], down'[c]) = Told(ToldAll(view[c], down[c]), m)
              /\ Sense(view[c], down[c]) /\ Makes(ToldAll(view[c], down[c]), m) =>
                   Sense(view[c], down'[c])
<1>1. down \in [Clients -> Seq(Notes)] /\ down[c] \in Seq(Notes)
  BY DEF ViewsOK
<1> DEFINE new == IF peer[c] = "up" THEN Append(down[c], m) ELSE down[c]
<1>2. new \in Seq(Notes)
  BY <1>1, Appended
<1>3. down' = [down EXCEPT ![c] = new]
  BY DEF Deliver
<1> HIDE DEF new
<1>4. /\ down' \in [Clients -> Seq(Notes)] /\ down'[c] = new
      /\ \A d \in Clients : d # c => down'[d] = down[d]
  BY <1>1, <1>2, <1>3
<1>5. new = IF peer[c] = "up" THEN Append(down[c], m) ELSE down[c]
  BY DEF new
<1> QED
  BY <1>1, <1>4, <1>5, ToldLast, SenseLast

(* Who hears the frame being broadcast, and how it changes what that user  *)
(* should know of the others.                                              *)
LEMMA SendToNews ==
  ASSUME IInv, IInv', RoomOK, NEW fd \in Fds, SrvSendTo(fd), ViewsOK
  PROVE  \E n, s \in Users :
           /\ clients[n].fd = fd /\ At(n) = sock[fd] /\ n # s
           /\ clients[s].name = msg.name /\ clients[s].fd = cur /\ fd # cur
           /\ \A i \in Users : ~Leaving(i)' => ~Leaving(i)
           /\ \A i \in Users \ {n} : /\ clients[i].fd # fd /\ At(i) # At(n)
                                     /\ ShouldKnow(i)' = ShouldKnow(i)
           /\ msg.kind = "joined" =>
                msg.name \notin ShouldKnow(n) /\ ShouldKnow(n)' = ShouldKnow(n) \cup {msg.name}
           /\ msg.kind = "left" =>
                msg.name \in ShouldKnow(n) /\ ShouldKnow(n)' = ShouldKnow(n) \ {msg.name}
           /\ msg.kind = "said" =>
                msg.name \in ShouldKnow(n) /\ ShouldKnow(n)' = ShouldKnow(n)
<1>1. /\ pc = "cast" /\ UNCHANGED <<pc, table, cur, msg, sock>>
      /\ fd \in todo /\ todo' = todo \ {fd}
      /\ sock[fd] # "none"
      /\ NextRecipient(fd)
  BY DEF SrvSendTo, SendTo, NextRecipient
<1>2. SocksOK /\ ChatTyped /\ UniqueUsers /\ UniqueUsers'
  BY DEF RoomOK, IInv
<1>3. fd # cur /\ \E j \in Users : clients[j] = [name |-> msg.name, fd |-> cur]
  BY <1>1, <1>2, Recipient
<1>4. PICK n \in Users : clients[n].fd = fd
  BY <1>1, <1>2, Recipient
<1>5. PICK s \in Users : clients[s].name = msg.name /\ clients[s].fd = cur
  <2>1. PICK j \in Users : clients[j] = [name |-> msg.name, fd |-> cur]
    BY <1>3
  <2>2. clients[j].name = msg.name /\ clients[j].fd = cur
    BY <2>1
  <2> QED
    BY <2>2
<1>6. At(n) = sock[fd] /\ n # s
  BY <1>3, <1>4, <1>5 DEF At
<1>7. Users' = Users /\ clients' = clients /\ Roster' = Roster
  BY <1>1, TableUnchanged, SameRoster DEF table
<1>8. \A i \in Users : ~Leaving(i)' => ~Leaving(i)
  BY <1>1, <1>7 DEF Leaving
<1>9. \A i \in Users :
        /\ ShouldKnow(i) = IF Behind(i) THEN Roster \ {clients[i].name, msg.name}
                           ELSE Roster \ {clients[i].name}
        /\ ShouldKnow(i)' = IF Behind(i)' THEN Roster \ {clients[i].name, msg.name}
                            ELSE Roster \ {clients[i].name}
  BY <1>1, <1>2, <1>7, KnowOthers, KnowOthersNext
<1>10. ASSUME NEW i \in Users \ {n}
       PROVE  clients[i].fd # fd /\ At(i) # At(n) /\ ShouldKnow(i)' = ShouldKnow(i)
  <2>1. clients[i].fd # fd
    BY <1>2, <1>4 DEF UniqueUsers
  <2>2. Behind(i)' <=> Behind(i)
    BY <1>1, <1>7, <2>1 DEF Behind
  <2>3. At(i) # At(n)
    <3>1. clients[i].fd \in Fds
      BY <1>2, ConnectionsLead DEF IInv
    <3> QED
      BY <1>1, <1>2, <1>6, <2>1, <3>1 DEF At, SocksOK
  <2> QED
    BY <1>9, <2>1, <2>2, <2>3
<1>11. msg.name \in Roster /\ msg.name # clients[n].name
  BY <1>2, <1>5, <1>6 DEF Roster, UniqueUsers
<1>12. /\ Behind(n) <=> msg.kind = "joined"
       /\ Behind(n)' <=> msg.kind = "left"
  BY <1>1, <1>4, <1>7 DEF Behind
<1>13. msg.kind = "joined" =>
         msg.name \notin ShouldKnow(n) /\ ShouldKnow(n)' = ShouldKnow(n) \cup {msg.name}
  BY <1>9, <1>11, <1>12
<1>14. msg.kind = "left" =>
         msg.name \in ShouldKnow(n) /\ ShouldKnow(n)' = ShouldKnow(n) \ {msg.name}
  BY <1>9, <1>11, <1>12
<1>15. msg.kind = "said" =>
         msg.name \in ShouldKnow(n) /\ ShouldKnow(n)' = ShouldKnow(n)
  BY <1>9, <1>11, <1>12
<1> QED
  BY <1>3, <1>4, <1>5, <1>6, <1>8, <1>10, <1>13, <1>14, <1>15

(* What is known after the frame being broadcast has been read is what     *)
(* should be known once it has been sent.                                  *)
LEMMA SendToViews ==
  ASSUME IInv, IInv', RoomOK, ViewsOK, NEW fd \in Fds, SrvSendTo(fd)
  PROVE  ViewsOK'
<1> DEFINE c == sock[fd]
<1>1. /\ pc = "cast" /\ UNCHANGED <<pc, table, cur, msg, cpc, view, backlog, sock>>
      /\ c # "none" /\ Deliver(c, msg)
  BY DEF SrvSendTo, SendTo, NextRecipient
<1>2. PICK n, s \in Users :
        /\ At(n) = c
        /\ \A i \in Users : ~Leaving(i)' => ~Leaving(i)
        /\ \A i \in Users \ {n} : At(i) # At(n) /\ ShouldKnow(i)' = ShouldKnow(i)
        /\ msg.kind = "joined" => ShouldKnow(n)' = ShouldKnow(n) \cup {msg.name}
        /\ msg.kind = "left" => ShouldKnow(n)' = ShouldKnow(n) \ {msg.name}
        /\ msg.kind = "said" => ShouldKnow(n)' = ShouldKnow(n)
  BY SendToNews
<1>3. c \in Clients /\ \A i \in Users : At(i) \in Clients
  BY <1>2, ConnectionsLead DEF IInv, RoomOK
<1>4. /\ down' \in [Clients -> Seq(Notes)]
      /\ \A d \in Clients : d # c => down'[d] = down[d]
      /\ peer[c] = "up" => ToldAll(view[c], down'[c]) = Told(ToldAll(view[c], down[c]), msg)
  BY <1>1, <1>3, CastFrame, DeliverSends
<1>5. \A d \in Clients : peer'[d] = "up" <=> peer[d] = "up"
  BY <1>1, <1>3, DeliverHears DEF RoomOK
<1>6. Users' = Users /\ clients' = clients
  BY <1>1, TableUnchanged DEF table
<1> HIDE DEF c
<1>7. ASSUME NEW i \in Users, peer'[At(i)] = "up", ~Leaving(i)'
      PROVE  ToldAll(view'[At(i)], down'[At(i)]) \in Picture(ShouldKnow(i)')
  <2>1. peer[At(i)] = "up" /\ ToldAll(view[At(i)], down[At(i)]) \in Picture(ShouldKnow(i))
    BY <1>2, <1>3, <1>5, <1>7 DEF ViewsOK, RosterOK, Will
  <2>2. CASE i # n
    BY <1>1, <1>2, <1>3, <1>4, <2>1, <2>2
  <2>3. CASE i = n
    <3> DEFINE v == ToldAll(view[c], down[c])
               S == ShouldKnow(n)
    <3>1. v \in Picture(S) /\ ToldAll(view'[At(i)], down'[At(i)]) = Told(v, msg)
      BY <1>1, <1>2, <1>4, <2>1, <2>3
    <3> HIDE DEF v
    <3>2. CASE msg.kind = "joined"
      <4>1. Told(v, msg) \in Picture(S \cup {msg.name})
        BY <3>1, <3>2, PictureJoined
      <4> QED
        BY <1>2, <2>3, <3>1, <3>2, <4>1
    <3>3. CASE msg.kind = "left"
      <4>1. Told(v, msg) \in Picture(S \ {msg.name})
        BY <3>1, <3>3, PictureLeft
      <4> QED
        BY <1>2, <2>3, <3>1, <3>3, <4>1
    <3>4. CASE msg.kind = "said" /\ msg.text \in Int
      <4>1. Told(v, msg) \in Picture(S)
        BY <3>1, <3>4, PictureSaid
      <4> QED
        BY <1>2, <2>3, <3>1, <3>4, <4>1
    <3> QED
      BY <1>1, <3>2, <3>3, <3>4, CastFrame
  <2> QED
    BY <2>2, <2>3
<1>8. RosterOK'
  <2> SUFFICES ASSUME NEW i \in Users, peer'[At(i)] = "up", ~Leaving(i)'
               PROVE  ToldAll(view'[At(i)], down'[At(i)]) \in Picture(ShouldKnow(i)')
    BY <1>1, <1>6 DEF RosterOK, Will, At
  <2> QED
    BY <1>7
<1>9. \A d \in Clients : Waiting(d)' <=> Waiting(d)
  BY <1>1 DEF Waiting
<1>10. cpc[c] # "off" /\ ~Waiting(c)
  <2>1. fd \in Connected
    BY <1>1 DEF RoomOK, SocksOK, c
  <2> QED
    BY <1>1, <2>1 DEF RoomOK, PlacesOK, Waiting, c
<1> QED
  BY <1>1, <1>4, <1>8, <1>9, <1>10 DEF ViewsOK


(* The connection whose JOIN is about to be read is nobody's in the table. *)
LEMMA Newcomer ==
  ASSUME IInv, RoomOK, pc = "join"
  PROVE  /\ cur \in Connected /\ cur \notin Members
         /\ sock[cur] \in Clients /\ Waiting(sock[cur]) /\ cpc[sock[cur]] # "off"
         /\ \A i \in Users : /\ clients[i].fd \in Members /\ clients[i].fd # cur
                             /\ At(i) \in Clients /\ At(i) # sock[cur]
<1>1. cur \in Connected /\ cur \notin Members /\ cur \in Fds
  BY DEF IInv, Alive, Connected, TypeOK
<1>2. sock[cur] \in Clients /\ sock[cur] # "none"
  BY <1>1, ConnectionsLead, ChatConstantsOK DEF IInv, RoomOK
<1>3. Waiting(sock[cur]) /\ cpc[sock[cur]] # "off"
  BY <1>1 DEF Waiting, RoomOK, PlacesOK
<1>4. \A i \in Users : clients[i].fd \in Members /\ clients[i].fd \in Fds /\ At(i) \in Clients
  BY ConnectionsLead DEF Members, IInv, RoomOK
<1>5. \A i \in Users : clients[i].fd # cur
  BY <1>1, <1>4
<1>6. \A i \in Users : At(i) # sock[cur]
  BY <1>1, <1>2, <1>4, <1>5 DEF At, RoomOK, SocksOK
<1> QED
  BY <1>1, <1>2, <1>3, <1>4, <1>5, <1>6

LEMMA RefuseViews ==
  ASSUME IInv, IInv', RoomOK, ViewsOK, SrvRefuse
  PROVE  ViewsOK' /\ Carried
<1>1. PICK c \in Clients, name \in Names :
        /\ pc = "join" /\ c = sock[cur]
        /\ Refuse(name)
        /\ Deliver(c, [kind |-> "nak"])
        /\ UNCHANGED <<cpc, says, view, backlog>>
  BY DEF SrvRefuse
<1>2. pc' = "scan" /\ UNCHANGED table
  BY <1>1 DEF Refuse
<1>3. /\ \A d \in Clients : Waiting(d)' => Waiting(d) /\ d # c
      /\ \A fd \in Members : sock'[fd] = sock[fd]
  BY <1>1, RefuseRoom
<1>4. /\ cpc[c] # "off"
      /\ \A i \in Users : clients[i].fd \in Members /\ At(i) \in Clients /\ At(i) # c
  BY <1>1, Newcomer
<1>5. Users' = Users /\ clients' = clients /\ Roster' = Roster
  BY <1>2, TableUnchanged, SameRoster DEF table
<1>6. \A i \in Users : sock'[clients[i].fd] = At(i)
  BY <1>3, <1>4 DEF At
<1>7. /\ down' \in [Clients -> Seq(Notes)]
      /\ \A d \in Clients : d # c => down'[d] = down[d]
      /\ \A d \in Clients : peer'[d] = "up" <=> peer[d] = "up"
  <2> DEFINE m == [kind |-> "nak"]
  <2>1. m \in Notes
    BY DEF Notes
  <2>2. Deliver(c, m) /\ ChatTyped
    BY <1>1 DEF RoomOK
  <2> HIDE DEF m
  <2> QED
    BY <2>1, <2>2, DeliverSends, DeliverHears
<1>8. \A i \in Users : ~Leaving(i) /\ ShouldKnow(i) = Roster \ {clients[i].name}
  BY <1>1, KnowAll DEF IInv
<1>9. \A i \in Users' : ShouldKnow(i)' = Roster' \ {clients'[i].name}
  <2>1. \A i \in Users' : ~Behind(i)'
    BY <1>2 DEF Behind
  <2> QED
    BY <2>1, KnowOthersNext DEF IInv
<1>10. \A i \in Users : SameUser(i, i)
  BY <1>5, <1>6, <1>8, <1>9 DEF SameUser, At
<1>11. \A i \in Users : SameWill(At(i))
  BY <1>1, <1>4, <1>7 DEF SameWill
<1>12. Carried
  BY <1>5, <1>10, <1>11 DEF Carried
<1>13. RosterOK'
  BY <1>12, CarriedViews DEF ViewsOK
<1> QED
  BY <1>1, <1>2, <1>3, <1>4, <1>7, <1>12, <1>13 DEF ViewsOK

(* The new user is to know of all who were there, and is news to each.     *)
LEMMA AdmitNews ==
  ASSUME IInv, IInv', RoomOK, RoomOK', ViewsOK, SrvAdmit
  PROVE  \E c \in Clients, name \in Names :
           /\ pc = "join" /\ c = sock[cur]
           /\ Deliver(c, [kind |-> "ack", roster |-> Roster])
           /\ [kind |-> "ack", roster |-> Roster] \in Notes
           /\ JoinReads(c, name) /\ up' = [up EXCEPT ![c] = JoinRest(c)]
           /\ UNCHANGED <<cpc, says, view, backlog, sock, cur>>
           /\ pc' = "cast" /\ msg' = [kind |-> "joined", name |-> name]
           /\ Users' = Users \cup {client_count} /\ client_count \notin Users
           /\ \A i \in Users : clients[i].name # name /\ SameUser(i, i) /\ name \notin ShouldKnow(i)
           /\ \A i \in Users' : i \notin Users =>
                /\ clients'[i] = [name |-> name, fd |-> cur]
                /\ At(i)' = c
                /\ ShouldKnow(i)' = Roster
<1>1. PICK c \in Clients, name \in Names :
        /\ pc = "join" /\ c = sock[cur]
        /\ JoinReads(c, name)
        /\ Admit(name)
        /\ Deliver(c, [kind |-> "ack",
                       roster |-> {clients[i].name : i \in 0 .. client_count - 1}])
        /\ up' = [up EXCEPT ![c] = JoinRest(c)]
        /\ UNCHANGED <<cpc, says, view, backlog, sock, closed>>
  BY DEF SrvAdmit
<1>2. /\ Users' = Users \cup {client_count} /\ client_count \notin Users
      /\ \A i \in Users : clients'[i] = clients[i]
      /\ clients'[client_count] = [name |-> name, fd |-> cur]
      /\ Members' = Members \cup {cur}
      /\ pc' = "cast" /\ UNCHANGED <<set2, cur>>
  BY <1>1, AdmitCells
<1>3. /\ msg' = [kind |-> "joined", name |-> name]
      /\ todo' = Others(set1', max_fd', cur)
      /\ \A i \in Users : clients[i].name # name
  BY <1>1 DEF Admit, Broadcast, check_name, Users
<1>4. Roster = {clients[i].name : i \in 0 .. client_count - 1}
  BY DEF Roster, Users
<1>5. [kind |-> "ack", roster |-> Roster] \in Notes
  <2>1. Roster \in SUBSET Names
    BY UserCells DEF Roster, IInv, Entries
  <2> QED
    BY <2>1, StartNotes
<1>6. cur \notin Members /\ \A i \in Users : clients[i].fd \in Members
  BY <1>1, Newcomer
<1>7. Roster' = Roster \cup {name} /\ name \notin Roster
  BY <1>2, <1>3 DEF Roster
<1>8. \A i \in Users : /\ ~Leaving(i)
                       /\ ShouldKnow(i) = Roster \ {clients[i].name}
                       /\ name \notin ShouldKnow(i)
  BY <1>1, <1>7, KnowAll DEF IInv
<1>9. ASSUME NEW i \in Users
      PROVE  ShouldKnow(i)' = ShouldKnow(i)
  <2>1. clients[i].fd \in Members' /\ clients[i].fd # cur
    BY <1>2, <1>6
  <2>2. clients[i].fd \in Watched' /\ clients[i].fd # Listener
    BY <1>2, <2>1, Domains DEF IInv, WatchIsTable
  <2>3. clients[i].fd \in todo'
    BY <1>3, <2>1, <2>2 DEF Watched, Others
  <2>4. Behind(i)' /\ i \in Users'
    BY <1>2, <1>3, <2>3 DEF Behind
  <2>5. ShouldKnow(i)' = Roster' \ {clients[i].name, name}
    BY <1>2, <1>3, <2>4, KnowOthersNext DEF IInv
  <2>6. Roster' \ {clients[i].name, name} = Roster \ {clients[i].name}
    BY <1>7
  <2> QED
    BY <1>8, <2>5, <2>6
<1>10. \A i \in Users : SameUser(i, i)
  BY <1>1, <1>2, <1>8, <1>9 DEF SameUser, At
<1>11. ASSUME NEW i \in Users', i \notin Users
       PROVE  /\ clients'[i] = [name |-> name, fd |-> cur]
              /\ At(i)' = c
              /\ ShouldKnow(i)' = Roster
  <2>1. clients'[i] = [name |-> name, fd |-> cur]
    BY <1>2, <1>11
  <2>2. clients'[i].fd = cur /\ clients'[i].name = name
    BY <2>1
  <2>3. clients'[i].fd \notin todo' /\ msg'.kind = "joined"
    BY <1>3, <2>2 DEF Others
  <2>4. ~Behind(i)'
    BY <2>3 DEF Behind
  <2>5. ShouldKnow(i)' = Roster' \ {name}
    BY <2>2, <2>4, KnowOthersNext DEF IInv
  <2> QED
    BY <1>1, <1>7, <2>1, <2>2, <2>5 DEF At
<1>12. Deliver(c, [kind |-> "ack", roster |-> Roster])
  BY <1>1, <1>4
<1>13. \A i \in Users : clients[i].name # name /\ SameUser(i, i) /\ name \notin ShouldKnow(i)
  BY <1>3, <1>8, <1>10
<1>14. \A i \in Users' : i \notin Users =>
         clients'[i] = [name |-> name, fd |-> cur] /\ At(i)' = c /\ ShouldKnow(i)' = Roster
  BY <1>11
<1> WITNESS c \in Clients, name \in Names
<1> QED
  BY <1>1, <1>2, <1>3, <1>5, <1>12, <1>13, <1>14

LEMMA AdmitViews ==
  ASSUME IInv, IInv', RoomOK, RoomOK', ViewsOK, SrvAdmit
  PROVE  ViewsOK'
<1> DEFINE m == [kind |-> "ack", roster |-> Roster]
<1>1. PICK c \in Clients, name \in Names :
        /\ pc = "join" /\ c = sock[cur]
        /\ Deliver(c, m) /\ m \in Notes
        /\ UNCHANGED <<cpc, view>>
        /\ msg' = [kind |-> "joined", name |-> name]
        /\ Users' = Users \cup {client_count}
        /\ \A i \in Users : SameUser(i, i)
        /\ \A i \in Users' : i \notin Users => At(i)' = c /\ ShouldKnow(i)' = Roster
  BY AdmitNews
<1>2. cpc[c] # "off" /\ \A i \in Users : At(i) \in Clients /\ At(i) # c
  BY <1>1, Newcomer
<1>3. \A v : Told(v, m) \in Picture(Roster)
  BY PictureBegins
<1> HIDE DEF m
<1>4. /\ down' \in [Clients -> Seq(Notes)]
      /\ \A d \in Clients : d # c => down'[d] = down[d]
      /\ peer[c] = "up" => ToldAll(view[c], down'[c]) = Told(ToldAll(view[c], down[c]), m)
      /\ \A d \in Clients : peer'[d] = "up" <=> peer[d] = "up"
  BY <1>1, DeliverSends, DeliverHears DEF RoomOK
<1>5. ASSUME NEW i \in Users', peer'[sock'[clients'[i].fd]] = "up", ~Leaving(i)'
      PROVE  ToldAll(view'[sock'[clients'[i].fd]], down'[sock'[clients'[i].fd]])
               \in Picture(ShouldKnow(i)')
  <2>1. CASE i \in Users
    <3>1. sock'[clients'[i].fd] = At(i) /\ ~Leaving(i) /\ ShouldKnow(i)' = ShouldKnow(i)
      BY <1>1, <1>5, <2>1 DEF SameUser, At
    <3>2. peer[At(i)] = "up"
      BY <1>2, <1>4, <1>5, <2>1, <3>1
    <3>3. ToldAll(view[At(i)], down[At(i)]) \in Picture(ShouldKnow(i))
      BY <2>1, <3>1, <3>2 DEF ViewsOK, RosterOK, Will
    <3> QED
      BY <1>1, <1>2, <1>4, <2>1, <3>1, <3>3
  <2>2. CASE i \notin Users
    <3>1. sock'[clients'[i].fd] = c /\ ShouldKnow(i)' = Roster
      BY <1>1, <2>2 DEF At
    <3>2. peer[c] = "up"
      BY <1>4, <1>5, <3>1
    <3>3. ToldAll(view'[c], down'[c]) = Told(ToldAll(view[c], down[c]), m)
      BY <1>1, <1>4, <3>2
    <3> QED
      BY <1>3, <3>1, <3>3
  <2> QED
    BY <2>1, <2>2
<1>6. RosterOK'
  BY <1>5 DEF RosterOK, Will, At
<1>7. \A d \in Clients : Waiting(d)' => Waiting(d) /\ d # c
  BY <1>1, AdmitRoom
<1>8. msg' \in Forwards /\ msg'.kind # "idle"
  BY <1>1 DEF Forwards
<1> QED
  BY <1>1, <1>2, <1>4, <1>6, <1>7, <1>8 DEF ViewsOK

LEMMA CastDoneViews ==
  ASSUME IInv, IInv', RoomOK, ViewsOK, SrvCastDone, msg.kind # "left"
  PROVE  ViewsOK' /\ Carried
<1>1. /\ pc = "cast" /\ pc' = "scan" /\ todo = {} /\ UNCHANGED <<table, clientVars>>
  BY DEF SrvCastDone, CastDone
<1>2. Users' = Users /\ clients' = clients /\ Roster' = Roster
  BY <1>1, TableUnchanged, SameRoster DEF table
<1>3. \A i \in Users : ~Leaving(i) /\ ~Behind(i)
  BY <1>1 DEF Leaving, Behind
<1>4. \A i \in Users' : ~Behind(i)'
  BY <1>1 DEF Behind
<1>5. \A i \in Users : ShouldKnow(i) = Roster \ {clients[i].name}
  BY <1>3, KnowOthers DEF IInv
<1>6. \A i \in Users' : ShouldKnow(i)' = Roster' \ {clients'[i].name}
  BY <1>4, KnowOthersNext DEF IInv
<1>7. \A i \in Users : ~Leaving(i) /\ ShouldKnow(i)' = ShouldKnow(i)
  BY <1>2, <1>3, <1>5, <1>6
<1> QED
  BY <1>1, <1>7, SilentViews DEF clientVars, Waiting

(* The user who left is gone from the table and from every picture.        *)
LEMMA HangupDoneViews ==
  ASSUME IInv, IInv', RoomOK, RoomOK', ViewsOK, SrvCastDone, msg.kind = "left"
  PROVE  ViewsOK' /\ Carried
<1>1. /\ pc = "cast" /\ pc' = "scan" /\ todo = {} /\ Forget(cur)
      /\ UNCHANGED <<cpc, says, view, backlog, up, down, peer, cur>>
      /\ client_count' = client_count - 1
  BY DEF SrvCastDone, CastDone, CloseAndClear
<1>2. PICK k \in 0 .. client_count : StopsAt(cur, client_count, k) /\ clients' = Shifted(k)
  BY DEF SrvCastDone, CastDone, CloseAndClear
<1>3. PICK s \in Users : clients[s] = [name |-> msg.name, fd |-> cur]
  BY <1>1 DEF IInv, CastNamesSender
<1>4. k \in Users /\ clients[k].fd = cur /\ k = s
  <2>1. cur \in Members /\ clients[s].fd = cur
    BY <1>3 DEF Members
  <2>2. client_count \in Int /\ client_count <= client_count
    BY Domains DEF IInv, TypeOK
  <2>3. k \in Users /\ clients[k].fd = cur
    BY <1>2, <2>1, <2>2, LookupFinds DEF IInv
  <2> QED
    BY <2>1, <2>3 DEF IInv, UniqueUsers
<1>5. clients[k].name = msg.name
  BY <1>3, <1>4
<1>6. /\ \A i \in Users' : \E j \in Users \ {k} : clients'[i] = clients[j]
      /\ \A j \in Users \ {k} : \E i \in Users' : clients'[i] = clients[j]
  BY <1>1, <1>2, <1>4, RemoveCell DEF IInv
<1>7. UniqueUsers /\ UniqueUsers' /\ SocksOK /\ ChatTyped
  BY DEF IInv, RoomOK
<1>8. Roster' = Roster \ {msg.name}
  <2>1. \A x : x \in Roster' <=> \E j \in Users \ {k} : x = clients[j].name
    BY <1>6 DEF Roster
  <2>2. \A x : (\E j \in Users \ {k} : x = clients[j].name) <=> x \in Roster /\ x # msg.name
    BY <1>4, <1>5, <1>7 DEF Roster, UniqueUsers
  <2> QED
    BY <2>1, <2>2
<1>9. \A fd \in Connected : fd # cur => sock'[fd] = sock[fd]
  BY <1>1, <1>7, ConnectionsLead DEF Forget, IInv, ChatTyped
<1>10. ASSUME NEW i \in Users'
       PROVE  \E p \in Users : SameUser(i, p) /\ SameWill(At(p))
  <2>1. PICK j \in Users \ {k} : clients'[i] = clients[j]
    BY <1>6
  <2>2. clients[j].fd # cur /\ clients[j].fd \in Connected
    BY <1>4, <1>7, <2>1, ConnectionsLead DEF IInv, UniqueUsers
  <2>3. sock'[clients'[i].fd] = At(j) /\ ~Leaving(j)
    BY <1>1, <1>9, <2>1, <2>2 DEF At, Leaving
  <2>4. ShouldKnow(j) = Roster \ {clients[j].name, msg.name}
    <3>1. Behind(j)
      BY <1>1 DEF Behind
    <3> QED
      BY <1>7, <2>1, <3>1, KnowOthers
  <2>5. ShouldKnow(i)' = Roster' \ {clients[j].name}
    <3>1. ~Behind(i)'
      BY <1>1 DEF Behind
    <3> QED
      BY <1>7, <2>1, <3>1, KnowOthersNext
  <2>6. ShouldKnow(i)' = ShouldKnow(j)
    BY <1>8, <2>4, <2>5
  <2>7. SameUser(i, j) /\ SameWill(At(j))
    BY <1>1, <2>1, <2>3, <2>6 DEF SameUser, SameWill, At
  <2> QED
    BY <2>7
<1>11. Carried
  BY <1>10 DEF Carried
<1>12. RosterOK'
  BY <1>11, CarriedViews DEF ViewsOK
<1>13. \A d \in Clients : Waiting(d)' => Waiting(d)
  BY <1>1 DEF Waiting
<1> QED
  BY <1>1, <1>11, <1>12, <1>13 DEF ViewsOK

-----------------------------------------------------------------------------
(* The pictures of the users, throughout.                                  *)

RosterInv == pc # "exited" => ViewsOK

LEMMA InitViews == ChatInit => RosterInv
<1> SUFFICES ASSUME ChatInit PROVE ViewsOK
  BY DEF RosterInv
<1>1. /\ down \in [Clients -> Seq(Notes)]
      /\ DOMAIN view = Clients
      /\ \A c \in Clients : view[c] = NoView /\ down[c] = <<>>
  BY DEF ChatInit
<1>2. pc = "select" /\ Users = {}
  BY DEF ChatInit, Init, Users
<1> QED
  BY <1>1, <1>2 DEF ViewsOK, RosterOK

LEMMA NextViews ==
  ASSUME IInv, IInv', RoomOK, RoomOK', ViewsOK, ChatNext, pc' # "exited"
  PROVE  ViewsOK'
<1>1. CASE SrvSelect \/ SrvScanDone \/ SrvAccept
  <2>1. 0 \in Fds
    BY ConstantsOK DEF Fds
  <2> QED
    BY <1>1, <2>1, QuietViews
<1>2. CASE SrvRefuse
  BY <1>2, RefuseViews
<1>3. CASE SrvAdmit
  BY <1>3, AdmitViews
<1>4. ASSUME NEW fd \in Fds,
             SrvForward(fd) \/ SrvHangup(fd) \/ SrvRecvFails(fd)
               \/ SrvSendTo(fd) \/ SrvSendFails(fd)
      PROVE  ViewsOK'
  <2>1. ~SrvRecvFails(fd) /\ ~SrvSendFails(fd)
    BY DEF SrvRecvFails, SrvSendFails, RecvFails, SendFails, Exit
  <2> QED
    BY <1>4, <2>1, QuietViews, HangupViews, SendToViews
<1>5. CASE SrvCastDone
  BY <1>5, CastDoneViews, HangupDoneViews
<1>6. ASSUME NEW c \in Clients, ClientStep(c) \/ User(c) \/ ResetArrives(c)
      PROVE  ViewsOK'
  BY <1>6, ClientViews
<1>7. ~SrvAcceptFails
  BY DEF SrvAcceptFails, AcceptFails, Exit
<1> QED
  BY <1>1, <1>2, <1>3, <1>4, <1>5, <1>6, <1>7 DEF ChatNext, Server

(* Nobody's part changes when nothing does.                                *)
LEMMA StutterKnows ==
  ASSUME UNCHANGED <<pc, clients, client_count, cur, msg, todo, sock>>
  PROVE  /\ Users' = Users
         /\ \A i : At(i)' = At(i) /\ (Leaving(i)' <=> Leaving(i)) /\ ShouldKnow(i)' = ShouldKnow(i)
<1>1. Users' = Users
  BY DEF Users
<1>2. ASSUME NEW i PROVE At(i)' = At(i) /\ (Leaving(i)' <=> Leaving(i))
  BY DEF At, Leaving
<1>3. ASSUME NEW i PROVE ShouldKnow(i)' = ShouldKnow(i)
  <2> DEFINE others == {clients[j].name : j \in Users \ {i}}
  <2>1. others' = others
    BY <1>1
  <2> HIDE DEF others
  <2>2. ShouldKnow(i) = IF pc = "cast" /\ msg.kind = "joined" /\ clients[i].fd \in todo
                        THEN others \ {msg.name}
                        ELSE IF pc = "cast" /\ msg.kind = "left" /\ clients[i].fd \notin todo
                        THEN others \ {msg.name} ELSE others
    BY DEF ShouldKnow, others
  <2>3. ShouldKnow(i)' = IF pc = "cast" /\ msg.kind = "joined" /\ clients[i].fd \in todo
                         THEN others \ {msg.name}
                         ELSE IF pc = "cast" /\ msg.kind = "left" /\ clients[i].fd \notin todo
                         THEN others \ {msg.name} ELSE others
    BY <2>2, <2>1, <1>1 DEF ShouldKnow, others
  <2> QED
    BY <2>2, <2>3
<1> QED
  BY <1>1, <1>2, <1>3

LEMMA StepViews ==
  ChatInv /\ ChatInv' /\ RosterInv /\ [ChatNext]_chatVars => RosterInv'
<1> SUFFICES ASSUME ChatInv, ChatInv', RosterInv, [ChatNext]_chatVars, pc' # "exited"
             PROVE  ViewsOK'
  BY DEF RosterInv
<1>1. CASE UNCHANGED chatVars
  <2>1. pc # "exited" /\ ViewsOK
    BY <1>1 DEF chatVars, vars, RosterInv
  <2>2. UNCHANGED <<pc, clients, client_count, cur, msg, todo, cpc, view, backlog, sock, down,
                    peer>>
    BY <1>1 DEF chatVars, vars, clientVars
  <2>3. /\ \A c \in Clients : Waiting(c)' => Waiting(c)
        /\ \A c \in Clients : Will(c)' = Will(c)
    BY <2>2 DEF Waiting, Will
  <2>4. RosterOK'
    BY <2>1, <2>2, <2>3, StutterKnows DEF ViewsOK, RosterOK, Will
  <2> QED
    BY <2>1, <2>2, <2>3, <2>4 DEF ViewsOK
<1>2. CASE ChatNext /\ pc # "exited"
  BY <1>2, NextViews DEF ChatInv, RosterInv
<1> QED
  BY <1>1, <1>2, ExitedStays

(* Every user's picture of the room, once it has read all it was sent, is  *)
(* the table of the server: the roster of its ACK and the announcements    *)
(* that followed tell it of all the others and of nobody else.             *)
THEOREM PicturesAreTheTable == ChatSpec => []RosterAgrees
<1>1. ChatInv /\ RosterInv => RosterAgrees
  <2> SUFFICES ASSUME ViewsOK, NEW i \in Users, peer[At(i)] = "up", ~Leaving(i)
               PROVE  /\ ToldAll(view[At(i)], down[At(i)]).told
                      /\ DOMAIN ToldAll(view[At(i)], down[At(i)]).last = ShouldKnow(i)
    BY DEF RosterInv, RosterAgrees, Leaving
  <2>1. ToldAll(view[At(i)], down[At(i)]) \in Picture(ShouldKnow(i))
    BY DEF ViewsOK, RosterOK, Will
  <2> QED
    BY <2>1 DEF Picture
<1> QED
  BY <1>1, ChatInvariance, InitViews, StepViews, PTL DEF ChatSpec

-----------------------------------------------------------------------------
(* The lines on their way to the server.                                   *)

(* How many lines of c the server can have been sent.                      *)
Typed(c) == IF cpc[c] = "send" THEN says[c] - 1 ELSE says[c]

(* The frames of s are the lines that follow line base, in order.          *)
LinesFrom(s, base) == \A k \in 1 .. Len(s) : s[k] = [text |-> base + k]

(* The server has another line of c to read, or can still be sent one,     *)
Speaks(c) == up[c] # <<>> \/ cpc[c] # "gone"

(* and this is its number.                                                 *)
NextLine(c) == IF up[c] # <<>> THEN Head(up[c]).text ELSE Typed(c) + 1

(* The lines of a client whose JOIN is not read yet begin with the first.  *)
JoinLines(c) ==
  /\ cpc[c] \in {"off", "conn"} => says[c] = 0
  /\ Waiting(c) /\ up[c] # <<>> =>
       /\ LinesFrom(Tail(up[c]), 0)
       /\ cpc[c] \in {"loop", "send"} => Len(up[c]) - 1 = Typed(c)

(* The server has read the lines of a user up to line base.                *)
UserLines(c, base) ==
  /\ LinesFrom(up[c], base)
  /\ cpc[c] \in {"loop", "send"} => base + Len(up[c]) = Typed(c)
  /\ cpc[c] # "conn"

(* The broadcast from c is that of its JOIN, or of the line just read.     *)
CastLine(c) ==
  pc = "cast" /\ Speaks(c) =>
    /\ msg.kind = "joined" => NextLine(c) = 1
    /\ msg.kind = "said" => NextLine(c) = msg.text + 1

LinesOK ==
  /\ \A c \in Clients : JoinLines(c)
  /\ \A i \in Users : \E base \in Nat : UserLines(At(i), base)
  /\ \A i \in Users : clients[i].fd = cur => CastLine(At(i))

(* What one more line, or one line less, does to a stream of lines.        *)
LEMMA LineAdded ==
  ASSUME NEW s \in Seq(Frames), NEW base \in Int, NEW t, t = base + Len(s) + 1,
         LinesFrom(s, base)
  PROVE  LinesFrom(Append(s, [text |-> t]), base)
<1> DEFINE f == [text |-> t]
           S == Frames \cup {f}
<1>1. s \in Seq(S)
  OBVIOUS
<1>2. f \in S
  OBVIOUS
<1> HIDE DEF f, S
<1>3. /\ Len(s) \in Nat
      /\ Len(Append(s, f)) = Len(s) + 1
      /\ \A i \in 1 .. Len(s) : Append(s, f)[i] = s[i]
      /\ Append(s, f)[Len(s) + 1] = f
  BY <1>1, <1>2, Appended
<1>4. f = [text |-> base + (Len(s) + 1)]
  <2>1. t = base + (Len(s) + 1)
    BY <1>3
  <2> QED
    BY <2>1 DEF f
<1>5. ASSUME NEW k \in 1 .. Len(s) + 1 PROVE Append(s, f)[k] = [text |-> base + k]
  <2>1. k \in 1 .. Len(s) \/ k = Len(s) + 1
    BY <1>3
  <2> QED
    BY <1>3, <1>4, <2>1 DEF LinesFrom
<1>6. LinesFrom(Append(s, f), base)
  BY <1>3, <1>5 DEF LinesFrom
<1> QED
  BY <1>6 DEF f

LEMMA LineTaken ==
  ASSUME NEW s \in Seq(Frames), s # <<>>, NEW base \in Int, LinesFrom(s, base)
  PROVE  /\ Head(s).text = base + 1
         /\ LinesFrom(Tail(s), base + 1)
         /\ Tail(s) # <<>> => Head(Tail(s)).text = base + 2
<1>1. /\ Head(s) = s[1] /\ Tail(s) \in Seq(Frames) /\ Len(s) \in Nat /\ 0 < Len(s)
      /\ Len(Tail(s)) = Len(s) - 1
      /\ \A i \in 1 .. Len(s) - 1 : Tail(s)[i] = s[i + 1]
  BY Taken
<1>2. Head(s) = [text |-> base + 1]
  BY <1>1 DEF LinesFrom
<1>3. ASSUME NEW k \in 1 .. Len(Tail(s)) PROVE Tail(s)[k] = [text |-> (base + 1) + k]
  <2>1. Tail(s)[k] = s[k + 1] /\ k + 1 \in 1 .. Len(s) /\ (base + 1) + k = base + (k + 1)
    BY <1>1
  <2> QED
    BY <2>1 DEF LinesFrom
<1>4. LinesFrom(Tail(s), base + 1)
  BY <1>3 DEF LinesFrom
<1>5. ASSUME Tail(s) # <<>> PROVE Head(Tail(s)).text = base + 2
  <2> DEFINE r == Tail(s)
  <2>1. r \in Seq(Frames) /\ r # <<>> /\ LinesFrom(r, base + 1)
    BY <1>1, <1>4, <1>5
  <2> HIDE DEF r
  <2>2. Head(r) = r[1] /\ 1 \in 1 .. Len(r)
    BY <2>1, Taken
  <2>3. Head(r) = [text |-> (base + 1) + 1]
    BY <2>1, <2>2 DEF LinesFrom
  <2>4. Head(r).text = base + 2
    BY <2>3
  <2> QED
    BY <2>4 DEF r
<1> QED
  BY <1>2, <1>4, <1>5


LEMMA NextIsNext ==
  ChatTyped =>
    \A c \in Clients, base \in Nat :
      UserLines(c, base) /\ cpc[c] # "off" /\ Speaks(c) => NextLine(c) = base + 1
<1> SUFFICES ASSUME ChatTyped, NEW c \in Clients, NEW base \in Nat,
                    UserLines(c, base), cpc[c] # "off", Speaks(c)
             PROVE  NextLine(c) = base + 1
  OBVIOUS
<1>1. up[c] \in Seq(Frames) /\ cpc[c] \in {"off", "conn", "loop", "send", "gone"}
  BY DEF ChatTyped
<1>2. CASE up[c] # <<>>
  BY <1>1, <1>2, LineTaken DEF NextLine, UserLines
<1>3. CASE up[c] = <<>>
  <2>1. cpc[c] \in {"loop", "send"} /\ Len(up[c]) = 0
    BY <1>1, <1>3 DEF Speaks, UserLines
  <2>2. NextLine(c) = Typed(c) + 1 /\ base + 0 = Typed(c)
    BY <1>3, <2>1 DEF NextLine, UserLines
  <2> QED
    BY <2>2
<1> QED
  BY <1>2, <1>3

LEMMA NextIsNextLater ==
  ASSUME ChatTyped'
  PROVE  \A c \in Clients, base \in Nat :
           UserLines(c, base)' /\ cpc'[c] # "off" /\ Speaks(c)' => NextLine(c)' = base + 1
<1>1. (ChatTyped =>
         \A c \in Clients, base \in Nat :
           UserLines(c, base) /\ cpc[c] # "off" /\ Speaks(c) => NextLine(c) = base + 1)'
  BY NextIsNext, PTL
<1> QED
  BY <1>1

(* The number of the next line of c does not change.                       *)
SameLine(c) == Speaks(c)' => Speaks(c) /\ NextLine(c)' = NextLine(c)

(* Each user of the next state is one of this state, and so are its lines. *)
LEMMA SilentLines ==
  ASSUME LinesOK, UNCHANGED <<cpc, says>>,
         \A c \in Clients : Waiting(c)' => Waiting(c) /\ up'[c] = up[c],
         \A i \in Users' : \E p \in Users : At(i)' = At(p) /\ up'[At(p)] = up[At(p)],
         \A i \in Users' : clients'[i].fd = cur' => CastLine(At(i))'
  PROVE  LinesOK'
<1>1. \A c \in Clients : JoinLines(c)'
  BY DEF LinesOK, JoinLines, Typed
<1>2. ASSUME NEW i \in Users' PROVE \E base \in Nat : UserLines(At(i), base)'
  <2>1. PICK p \in Users : At(i)' = At(p) /\ up'[At(p)] = up[At(p)]
    OBVIOUS
  <2>2. PICK base \in Nat : UserLines(At(p), base)
    BY DEF LinesOK
  <2>3. UserLines(At(i), base)'
    BY <2>1, <2>2 DEF UserLines, Typed
  <2> QED
    BY <2>3
<1> QED
  BY <1>1, <1>2 DEF LinesOK

(* What the program of c, or its user, does keeps its lines in order.      *)
LEMMA OwnLines ==
  ASSUME IInv, RoomOK, NEW c \in Clients, ClientStep(c) \/ User(c) \/ ResetArrives(c),
         JoinLines(c)
  PROVE  /\ JoinLines(c)'
         /\ \A base \in Nat :
              UserLines(c, base) /\ cpc[c] # "off" /\ ~closed[c] =>
                UserLines(c, base)' /\ SameLine(c)
<1>1. /\ cpc \in [Clients -> {"off", "conn", "loop", "send", "gone"}]
      /\ says \in [Clients -> 0 .. MaxSays] /\ says[c] \in Int
      /\ up \in [Clients -> Seq(Frames)] /\ up[c] \in Seq(Frames)
  BY ChatConstantsOK DEF RoomOK, ChatTyped
<1>2. CASE UNCHANGED <<vars, backlog, sock, says, up>> /\ cpc'[c] \in {cpc[c], "gone"}
  <2>1. Waiting(c)' <=> Waiting(c)
    BY <1>2 DEF Waiting, vars
  <2> QED
    BY <1>2, <2>1 DEF JoinLines, UserLines, SameLine, Speaks, NextLine, Typed
<1>3. CASE Connect(c)
  <2>1. cpc[c] = "off" /\ cpc'[c] = "conn" /\ up' = up /\ says' = says /\ up[c] = <<>>
    BY <1>1, <1>3 DEF Connect, RoomOK, JoinFirst
  <2> QED
    BY <2>1 DEF JoinLines
<1>4. CASE SendJoin(c)
  <2> DEFINE f == [join |-> NameOf[c]]
  <2>1. cpc[c] = "conn" /\ cpc'[c] = "loop" /\ says' = says /\ up[c] = <<>>
    BY <1>1, <1>4 DEF SendJoin, RoomOK, JoinFirst
  <2>2. up'[c] = Append(<<>>, f) /\ f \in Frames
    BY <1>1, <1>4, <2>1, ChatConstantsOK DEF SendJoin, Frames
  <2> HIDE DEF f
  <2>3. up'[c] = <<f>>
    BY <2>2
  <2>4. Len(up'[c]) = 1 /\ Tail(up'[c]) = <<>>
    BY <2>3
  <2>5. LinesFrom(<<>>, 0)
    <3>1. \A k \in 1 .. Len(<<>>) : FALSE
      OBVIOUS
    <3> QED
      BY <3>1 DEF LinesFrom
  <2>6. says[c] = 0 /\ says'[c] = 0
    BY <2>1 DEF JoinLines
  <2>7. LinesFrom(Tail(up'[c]), 0) /\ Len(up'[c]) - 1 = 0 /\ Typed(c)' = 0
    <3>1. LinesFrom(Tail(up'[c]), 0)
      BY <2>4, <2>5, Zenon
    <3>2. Typed(c)' = 0
      BY <2>1, <2>6 DEF Typed
    <3>3. Len(up'[c]) - 1 = 0
      BY <2>4
    <3> QED
      BY <3>1, <3>2, <3>3
  <2>8. JoinLines(c)'
    BY <2>1, <2>7 DEF JoinLines
  <2> QED
    BY <2>1, <2>8 DEF UserLines
<1>5. CASE TypeLine(c)
  <2>1. /\ cpc[c] = "loop" /\ cpc'[c] = "send" /\ says'[c] = says[c] + 1
        /\ UNCHANGED <<vars, backlog, sock, up>>
    BY <1>1, <1>5 DEF TypeLine
  <2>2. Typed(c)' = Typed(c)
    BY <1>1, <2>1 DEF Typed
  <2>3. Waiting(c)' <=> Waiting(c)
    BY <2>1 DEF Waiting, vars
  <2> QED
    BY <2>1, <2>2, <2>3 DEF JoinLines, UserLines, SameLine, Speaks, NextLine
<1>6. CASE SendLine(c)
  <2> DEFINE f == [text |-> says[c]]
  <2>1. /\ cpc[c] = "send" /\ cpc'[c] = "loop" /\ says' = says
        /\ up'[c] = Append(up[c], f) /\ f \in Frames
        /\ UNCHANGED <<vars, backlog, sock>>
    BY <1>1, <1>6 DEF SendLine, Frames
  <2>2. Typed(c) = says[c] - 1 /\ Typed(c)' = says[c]
    BY <2>1 DEF Typed
  <2>3. Waiting(c)' <=> Waiting(c)
    BY <2>1 DEF Waiting, vars
  <2>4. /\ Len(up[c]) \in Nat /\ Len(up'[c]) = Len(up[c]) + 1 /\ up'[c] # <<>>
        /\ up[c] = <<>> => Head(up'[c]) = f
        /\ up[c] # <<>> => Head(up'[c]) = Head(up[c])
    <3> HIDE DEF f
    <3> QED
      BY <1>1, <2>1, Appended
  <2>5. ASSUME Waiting(c)
        PROVE  LinesFrom(Tail(up'[c]), 0) /\ Len(up'[c]) - 1 = Typed(c)'
    <3>1. up[c] # <<>>
      BY <2>1, <2>5 DEF RoomOK, JoinFirst
    <3>2. LinesFrom(Tail(up[c]), 0) /\ Len(up[c]) - 1 = says[c] - 1
      BY <2>1, <2>2, <2>5, <3>1 DEF JoinLines
    <3>3. Tail(up[c]) \in Seq(Frames) /\ Len(Tail(up[c])) = Len(up[c]) - 1
      BY <1>1, <3>1, Taken
    <3>4. says[c] = 0 + Len(Tail(up[c])) + 1
      <4>1. says[c] \in Int /\ Len(up[c]) \in Nat
        BY <1>1, <2>4
      <4>2. says[c] = Len(up[c])
        BY <3>2, <4>1
      <4> QED
        BY <3>3, <4>1, <4>2
    <3>5. LinesFrom(Append(Tail(up[c]), f), 0)
      <4> DEFINE r == Tail(up[c])
      <4>1. r \in Seq(Frames) /\ says[c] = 0 + Len(r) + 1 /\ LinesFrom(r, 0) /\ 0 \in Int
        BY <3>2, <3>3, <3>4
      <4> HIDE DEF r
      <4> QED
        BY <4>1, LineAdded DEF r
    <3>6. Tail(Append(up[c], f)) = Append(Tail(up[c]), f)
      <4> HIDE DEF f
      <4> QED
        BY <1>1, <2>1, <3>1
    <3>7. Len(up'[c]) - 1 = says[c]
      BY <1>1, <2>4, <3>2
    <3> QED
      BY <2>1, <2>2, <3>5, <3>6, <3>7
  <2>6. ASSUME NEW base \in Nat, UserLines(c, base)
        PROVE  UserLines(c, base)' /\ SameLine(c)
    <3>1. LinesFrom(up[c], base) /\ base + Len(up[c]) = says[c] - 1
      BY <2>1, <2>2, <2>6 DEF UserLines
    <3>2. says[c] = base + Len(up[c]) + 1
      <4>1. says[c] \in Int /\ Len(up[c]) \in Nat
        BY <1>1, <2>4
      <4> QED
        BY <3>1, <4>1
    <3>3. LinesFrom(Append(up[c], f), base)
      BY <1>1, <3>1, <3>2, LineAdded
    <3>4. base + Len(up'[c]) = says[c]
      BY <2>4, <3>2
    <3>5. UserLines(c, base)'
      BY <2>1, <2>2, <3>3, <3>4 DEF UserLines
    <3>6. Speaks(c) /\ NextLine(c)' = NextLine(c)
      <4>1. CASE up[c] # <<>>
        BY <2>4, <4>1 DEF Speaks, NextLine
      <4>2. CASE up[c] = <<>>
        <5>1. NextLine(c)' = says[c] /\ NextLine(c) = (says[c] - 1) + 1 /\ Speaks(c)
          BY <2>1, <2>2, <2>4, <4>2 DEF Speaks, NextLine
        <5> QED
          BY <1>1, <5>1
      <4> QED
        BY <4>1, <4>2
    <3> QED
      BY <3>5, <3>6 DEF SameLine
  <2>7. JoinLines(c)'
    BY <2>1, <2>3, <2>5 DEF JoinLines
  <2> QED
    BY <2>6, <2>7
<1>7. CASE SendRefused(c)
  <2>1. /\ cpc[c] = "send" /\ cpc'[c] \in {"loop", "gone"} /\ closed[c]
        /\ UNCHANGED <<vars, backlog, sock, says, up>>
    BY <1>1, <1>7 DEF SendRefused
  <2>2. ~Waiting(c)
    <3>1. pc = "join" => cur \in Connected
      BY DEF Connected
    <3> QED
      BY <2>1, <3>1 DEF Waiting, RoomOK, PlacesOK
  <2>3. ~Waiting(c)'
    BY <2>1, <2>2 DEF Waiting, vars
  <2> QED
    BY <2>1, <2>3 DEF JoinLines
<1>8. ClientRecv(c) \/ Leave(c) \/ ResetArrives(c) =>
        UNCHANGED <<vars, backlog, sock, says, up>> /\ cpc'[c] \in {cpc[c], "gone"}
  BY <1>1 DEF ClientRecv, Leave, ResetArrives
<1> QED
  BY <1>2, <1>3, <1>4, <1>5, <1>6, <1>7, <1>8 DEF ClientStep, User

LEMMA ClientLines ==
  ASSUME IInv, RoomOK, LinesOK, NEW c \in Clients, ClientStep(c) \/ User(c) \/ ResetArrives(c)
  PROVE  /\ LinesOK'
         /\ \A i \in Users, d \in Clients : d = At(i) => SameLine(d)
<1>1. /\ cpc \in [Clients -> {"off", "conn", "loop", "send", "gone"}]
      /\ says \in [Clients -> 0 .. MaxSays]
      /\ up \in [Clients -> Seq(Frames)]
      /\ backlog \in Seq(Clients)
  BY DEF RoomOK, ChatTyped
<1>2. UNCHANGED <<vars, sock>>
  BY DEF ClientStep, User, ResetArrives, SendJoin, SendLine, SendRefused, ClientRecv, Connect,
         TypeLine, Leave
<1>3. \A d \in Clients : d # c => cpc'[d] = cpc[d] /\ says'[d] = says[d] /\ up'[d] = up[d]
  BY <1>1 DEF ClientStep, User, ResetArrives, SendJoin, SendLine, SendRefused, ClientRecv, Connect,
              TypeLine, Leave
<1>4. \A d \in Clients : d # c /\ Waiting(d)' => Waiting(d)
  <2>1. CASE Connect(c)
    <3>1. backlog' = Append(backlog, c)
      BY <2>1 DEF Connect
    <3>2. \A i \in 1 .. Len(backlog') :
            backlog'[i] = c \/ \E j \in 1 .. Len(backlog) : backlog'[i] = backlog[j]
      BY <1>1, <3>1
    <3> QED
      BY <1>2, <3>2 DEF Waiting, vars
  <2>2. CASE ~Connect(c)
    <3>1. UNCHANGED backlog
      BY <2>2 DEF ClientStep, User, ResetArrives, SendJoin, SendLine, SendRefused, ClientRecv,
                  TypeLine, Leave
    <3> QED
      BY <1>2, <3>1 DEF Waiting, vars
  <2> QED
    BY <2>1, <2>2
<1>5. /\ JoinLines(c)'
      /\ \A base \in Nat :
           UserLines(c, base) /\ cpc[c] # "off" /\ ~closed[c] =>
             UserLines(c, base)' /\ SameLine(c)
  BY OwnLines DEF LinesOK
<1>6. \A d \in Clients : JoinLines(d)'
  <2>1. \A d \in Clients : d # c => JoinLines(d)'
    BY <1>3, <1>4 DEF LinesOK, JoinLines, Typed
  <2> QED
    BY <1>5, <2>1
<1>7. \A i \in Users : At(i) \in Clients /\ cpc[At(i)] # "off" /\ ~closed[At(i)]
  BY ConnectionsLead DEF IInv, RoomOK, PlacesOK, At
<1>8. ASSUME NEW i \in Users, NEW d \in Clients, d = At(i)
      PROVE  SameLine(d) /\ \E base \in Nat : UserLines(d, base)'
  <2>1. PICK base \in Nat : UserLines(d, base)
    BY <1>8 DEF LinesOK
  <2>2. CASE d = c
    BY <1>5, <1>7, <1>8, <2>1, <2>2
  <2>3. CASE d # c
    BY <1>3, <2>1, <2>3 DEF SameLine, UserLines, Speaks, NextLine, Typed
  <2> QED
    BY <2>2, <2>3
<1>9. Users' = Users /\ clients' = clients /\ UNCHANGED <<pc, msg, cur>>
  BY <1>2 DEF vars, Users
<1>10. ASSUME NEW i \in Users'
       PROVE  /\ \E base \in Nat : UserLines(At(i), base)'
              /\ clients'[i].fd = cur' => CastLine(At(i))'
  <2>1. PICK d \in Clients : d = At(i) /\ At(i)' = d
    BY <1>2, <1>7, <1>9 DEF At
  <2>2. SameLine(d)
    BY <1>8, <1>9, <2>1
  <2>3. PICK base \in Nat : UserLines(d, base)'
    BY <1>8, <1>9, <2>1
  <2>4. UserLines(At(i), base)'
    BY <2>1, <2>3 DEF UserLines, Typed
  <2>5. clients'[i].fd = cur' => CastLine(d)
    BY <1>9, <2>1 DEF LinesOK
  <2>6. clients'[i].fd = cur' => CastLine(d)'
    BY <1>9, <2>2, <2>5 DEF CastLine, SameLine
  <2>7. clients'[i].fd = cur' => CastLine(At(i))'
    BY <2>1, <2>6 DEF CastLine, Speaks, NextLine, Typed
  <2> QED
    BY <2>4, <2>7
<1> QED
  BY <1>6, <1>8, <1>10 DEF LinesOK

(* A step of the server that reads nothing and starts no broadcast of a    *)
(* JOIN or of a line.                                                      *)
LEMMA QuietLines ==
  ASSUME LinesOK, Carried, UNCHANGED <<cpc, says, up>>,
         \A c \in Clients : Waiting(c)' => Waiting(c),
         pc' # "cast" \/ msg'.kind = "left"
  PROVE  LinesOK'
<1>1. \A i \in Users' : \E p \in Users : At(i)' = At(p)
  BY DEF Carried, SameUser
<1>2. \A i \in Users' : CastLine(At(i))'
  BY DEF CastLine
<1> QED
  BY <1>1, <1>2, SilentLines

LEMMA SendToLines ==
  ASSUME LinesOK, UNCHANGED <<cpc, says, up, pc, table, cur, msg, backlog, sock>>
  PROVE  LinesOK'
<1>1. Users' = Users /\ clients' = clients
  BY TableUnchanged DEF table
<1>2. \A c \in Clients : Waiting(c)' <=> Waiting(c)
  BY DEF Waiting
<1>3. \A i \in Users : At(i)' = At(i)
  BY <1>1 DEF At
<1>4. ASSUME NEW i \in Users', clients'[i].fd = cur'
      PROVE  CastLine(At(i))'
  <2>1. CastLine(At(i))
    BY <1>1, <1>4 DEF LinesOK
  <2> QED
    BY <1>1, <1>3, <2>1 DEF CastLine, Speaks, NextLine, Typed
<1> QED
  BY <1>1, <1>2, <1>3, <1>4, SilentLines

LEMMA RefuseLines ==
  ASSUME IInv, RoomOK, LinesOK, SrvRefuse, Carried
  PROVE  /\ LinesOK'
         /\ \A i \in Users, d \in Clients : d = At(i) => SameLine(d)
<1>1. PICK c \in Clients :
        /\ pc = "join" /\ c = sock[cur] /\ pc' # "cast"
        /\ up' = [up EXCEPT ![c] = <<>>]
        /\ UNCHANGED <<cpc, says, view, backlog>>
  BY DEF SrvRefuse, Refuse
<1>2. \A i \in Users : At(i) \in Clients /\ At(i) # c
  BY <1>1, Newcomer
<1>3. \A d \in Clients : Waiting(d)' => Waiting(d) /\ d # c
  BY <1>1, RefuseRoom
<1>4. \A d \in Clients : d # c => up'[d] = up[d]
  BY <1>1 DEF RoomOK, ChatTyped
<1>5. \A i \in Users' : \E p \in Users : At(i)' = At(p) /\ up'[At(p)] = up[At(p)]
  BY <1>2, <1>4 DEF Carried, SameUser
<1>6. \A i \in Users' : CastLine(At(i))'
  BY <1>1 DEF CastLine
<1>7. LinesOK'
  BY <1>1, <1>3, <1>4, <1>5, <1>6, SilentLines
<1>8. \A d \in Clients : d # c => SameLine(d)
  BY <1>1, <1>4 DEF SameLine, Speaks, NextLine, Typed
<1> QED
  BY <1>2, <1>7, <1>8

(* The line read is the next one of its user.                              *)
LEMMA ForwardLines ==
  ASSUME IInv, RoomOK, RoomOK', LinesOK, NEW fd \in Fds, SrvForward(fd)
  PROVE  /\ LinesOK'
         /\ \E s \in Users :
              /\ clients[s].fd = fd
              /\ Speaks(At(s)) /\ NextLine(At(s)) = msg'.text
              /\ \A i \in Users, d \in Clients : i # s /\ d = At(i) => SameLine(d)
<1>0. PICK c \in Clients : c = sock[fd]
  BY ConnectionsLead DEF SrvForward, RoomOK, SocksOK, IInv
<1>1. /\ pc = "scan" /\ c # "none" /\ up[c] # <<>>
      /\ up' = [up EXCEPT ![c] = Tail(@)]
      /\ UNCHANGED <<cpc, says, view, backlog, sock>>
  BY <1>0 DEF SrvForward, Turn
<1>2. pc' = "cast" /\ cur' = fd /\ UNCHANGED table /\ msg'.kind = "said"
  BY DEF SrvForward, Forward, Broadcast
<1>3. msg'.text = Head(up[c]).text
  BY <1>0 DEF SrvForward, Forward, Broadcast
<1>4. fd \in Members /\ c \in Clients
  BY <1>0, <1>1, ConnectionsLead DEF RoomOK, SocksOK, IInv, Connected
<1>5. PICK s \in Users : clients[s].fd = fd
  BY <1>4 DEF Members
<1>6. /\ At(s) = c
      /\ \A i \in Users : /\ At(i) \in Clients
                          /\ clients[i].fd = fd => i = s
                          /\ i # s => At(i) # c
  <2>1. \A i \in Users : clients[i].fd \in Fds /\ At(i) \in Clients
    BY ConnectionsLead DEF IInv, RoomOK
  <2>2. \A i \in Users : clients[i].fd = fd => i = s
    BY <1>5 DEF IInv, UniqueUsers
  <2> QED
    BY <1>0, <1>1, <1>5, <2>1, <2>2 DEF At, RoomOK, SocksOK
<1>7. PICK base \in Nat : UserLines(c, base)
  BY <1>6 DEF LinesOK
<1>8. up \in [Clients -> Seq(Frames)] /\ up[c] \in Seq(Frames)
  BY <1>4 DEF RoomOK, ChatTyped
<1>9. /\ up'[c] = Tail(up[c])
      /\ \A d \in Clients : d # c => up'[d] = up[d]
  BY <1>1, <1>4, <1>8
<1>10. /\ Head(up[c]).text = base + 1 /\ LinesFrom(up'[c], base + 1)
       /\ Len(up'[c]) = Len(up[c]) - 1 /\ Len(up[c]) \in Nat
  <2>1. LinesFrom(up[c], base) /\ base \in Int
    BY <1>7 DEF UserLines
  <2>2. Head(up[c]).text = base + 1 /\ LinesFrom(Tail(up[c]), base + 1)
    BY <1>1, <1>8, <2>1, LineTaken
  <2>3. Len(Tail(up[c])) = Len(up[c]) - 1 /\ Len(up[c]) \in Nat
    BY <1>1, <1>8, Taken
  <2> QED
    BY <1>9, <2>2, <2>3
<1>11. UserLines(c, base + 1)'
  <2>1. cpc'[c] = cpc[c] /\ Typed(c)' = Typed(c)
    BY <1>1 DEF Typed
  <2>2. cpc[c] \in {"loop", "send"} => base + Len(up[c]) = Typed(c)
    BY <1>7 DEF UserLines
  <2>3. (base + 1) + Len(up'[c]) = base + Len(up[c])
    <3> DEFINE rest == Len(up'[c])
               all == Len(up[c])
    <3>1. rest = all - 1 /\ all \in Int /\ base \in Int
      BY <1>10
    <3> HIDE DEF rest, all
    <3>2. (base + 1) + rest = base + all
      BY <3>1
    <3> QED
      BY <3>2 DEF rest, all
  <2>4. cpc'[c] # "conn"
    BY <1>7, <2>1 DEF UserLines
  <2>5. cpc'[c] \in {"loop", "send"} => (base + 1) + Len(up'[c]) = Typed(c)'
    BY <2>1, <2>2, <2>3
  <2> QED
    BY <1>10, <2>4, <2>5 DEF UserLines
<1>12. CastLine(c)'
  <2>1. cpc[c] # "off" /\ cpc' = cpc
    BY <1>0, <1>1, <1>4 DEF RoomOK, PlacesOK, Connected
  <2>2. Speaks(c)' => NextLine(c)' = (base + 1) + 1
    <3>1. ChatTyped' /\ base + 1 \in Nat
      BY DEF RoomOK
    <3> QED
      BY <1>4, <1>11, <2>1, <3>1, NextIsNextLater
  <2>3. msg'.text = base + 1
    BY <1>3, <1>10
  <2> QED
    BY <1>2, <2>2, <2>3 DEF CastLine
<1>13. Users' = Users /\ clients' = clients
  BY <1>2, TableUnchanged DEF table
<1>14. \A i \in Users : At(i)' = At(i)
  BY <1>1, <1>13 DEF At
<1>15. \A d \in Clients : JoinLines(d)'
  <2>1. ~Waiting(c)
    BY <1>0, <1>1, <1>4 DEF Waiting, RoomOK, PlacesOK, Connected
  <2>2. \A d \in Clients : Waiting(d)' => Waiting(d) /\ up'[d] = up[d]
    BY <1>1, <1>2, <1>9, <2>1 DEF Waiting
  <2> QED
    BY <1>1, <2>2 DEF LinesOK, JoinLines, Typed
<1>16. ASSUME NEW i \in Users'
       PROVE  /\ \E b \in Nat : UserLines(At(i), b)'
              /\ clients'[i].fd = cur' => CastLine(At(i))'
  <2>1. CASE i = s
    <3>1. At(i)' = c /\ base + 1 \in Nat
      BY <1>6, <1>13, <1>14, <2>1
    <3>2. UserLines(At(i), base + 1)'
      BY <1>11, <3>1 DEF UserLines, Typed
    <3>3. CastLine(At(i))'
      BY <1>12, <3>1 DEF CastLine, Speaks, NextLine, Typed
    <3> QED
      BY <3>1, <3>2, <3>3
  <2>2. CASE i # s
    <3>1. At(i)' = At(i) /\ up'[At(i)] = up[At(i)] /\ clients'[i].fd # cur'
      BY <1>2, <1>6, <1>9, <1>13, <1>14, <2>2
    <3>2. PICK b \in Nat : UserLines(At(i), b)
      BY <1>13 DEF LinesOK
    <3>3. UserLines(At(i), b)'
      BY <1>1, <3>1, <3>2 DEF UserLines, Typed
    <3> QED
      BY <3>1, <3>3
  <2> QED
    BY <2>1, <2>2
<1>17. LinesOK'
  BY <1>15, <1>16 DEF LinesOK
<1>18. Speaks(At(s)) /\ NextLine(At(s)) = msg'.text
  BY <1>1, <1>3, <1>6 DEF Speaks, NextLine
<1>19. \A i \in Users, d \in Clients : i # s /\ d = At(i) => SameLine(d)
  BY <1>1, <1>6, <1>9 DEF SameLine, Speaks, NextLine, Typed
<1> QED
  BY <1>5, <1>17, <1>18, <1>19

(* The first line of the new user has number 1.                            *)
LEMMA AdmitLines ==
  ASSUME IInv, IInv', RoomOK, RoomOK', ViewsOK, LinesOK, SrvAdmit
  PROVE  /\ LinesOK'
         /\ \A i \in Users, d \in Clients : d = At(i) => SameLine(d)
<1>1. PICK c \in Clients, name \in Names :
        /\ pc = "join" /\ c = sock[cur]
        /\ JoinReads(c, name) /\ up' = [up EXCEPT ![c] = JoinRest(c)]
        /\ UNCHANGED <<cpc, says, view, backlog, sock, cur>>
        /\ pc' = "cast" /\ msg' = [kind |-> "joined", name |-> name]
        /\ Users' = Users \cup {client_count}
        /\ \A i \in Users : SameUser(i, i)
        /\ \A i \in Users' : i \notin Users => At(i)' = c
  BY AdmitNews
<1>2. /\ Waiting(c) /\ cpc[c] # "off"
      /\ \A i \in Users : clients[i].fd # cur /\ At(i) \in Clients /\ At(i) # c
  BY <1>1, Newcomer
<1>3. up \in [Clients -> Seq(Frames)] /\ up[c] \in Seq(Frames)
  BY DEF RoomOK, ChatTyped
<1>4. /\ up'[c] = JoinRest(c)
      /\ \A d \in Clients : d # c => up'[d] = up[d]
  BY <1>1, <1>3
<1>5. \A d \in Clients : d # c => SameLine(d)
  BY <1>1, <1>4 DEF SameLine, Speaks, NextLine, Typed
<1>6. UserLines(c, 0)'
  <2>1. CASE up[c] # <<>>
    <3>1. up'[c] = Tail(up[c]) /\ Len(Tail(up[c])) = Len(up[c]) - 1 /\ Len(up[c]) \in Nat
      BY <1>3, <1>4, <2>1, Taken DEF JoinRest
    <3>2. /\ LinesFrom(Tail(up[c]), 0)
          /\ cpc[c] \in {"loop", "send"} => Len(up[c]) - 1 = Typed(c)
      BY <1>2, <2>1 DEF LinesOK, JoinLines
    <3>3. cpc[c] # "conn" /\ cpc'[c] = cpc[c] /\ Typed(c)' = Typed(c)
      BY <1>1, <2>1 DEF RoomOK, JoinFirst, Typed
    <3>4. cpc'[c] \in {"loop", "send"} => 0 + Len(up'[c]) = Typed(c)'
      BY <3>1, <3>2, <3>3
    <3> QED
      BY <3>1, <3>2, <3>3, <3>4 DEF UserLines
  <2>2. CASE up[c] = <<>>
    <3>1. up'[c] = <<>> /\ cpc'[c] = "gone"
      BY <1>1, <1>4, <2>2 DEF JoinRest, JoinReads, RoomOK, HeardOK
    <3>2. LinesFrom(<<>>, 0)
      <4>1. \A k \in 1 .. Len(<<>>) : FALSE
        OBVIOUS
      <4> QED
        BY <4>1 DEF LinesFrom
    <3> QED
      BY <3>1, <3>2 DEF UserLines
  <2> QED
    BY <2>1, <2>2
<1>7. CastLine(c)'
  <2>1. Speaks(c)' => NextLine(c)' = 0 + 1
    BY <1>1, <1>2, <1>6, NextIsNextLater DEF RoomOK
  <2>2. msg'.kind = "joined"
    BY <1>1
  <2> QED
    BY <2>1, <2>2 DEF CastLine
<1>8. \A d \in Clients : JoinLines(d)'
  <2>1. \A d \in Clients : Waiting(d)' => Waiting(d) /\ d # c
    BY <1>1, AdmitRoom
  <2> QED
    BY <1>1, <1>4, <2>1 DEF LinesOK, JoinLines, Typed
<1>9. ASSUME NEW i \in Users'
      PROVE  /\ \E b \in Nat : UserLines(At(i), b)'
             /\ clients'[i].fd = cur' => CastLine(At(i))'
  <2>1. CASE i \notin Users
    <3>1. At(i)' = c
      BY <1>1, <2>1
    <3>2. UserLines(At(i), 0)'
      BY <1>6, <3>1 DEF UserLines, Typed
    <3>3. CastLine(At(i))'
      BY <1>7, <3>1 DEF CastLine, Speaks, NextLine, Typed
    <3> QED
      BY <3>2, <3>3
  <2>2. CASE i \in Users
    <3>1. At(i)' = At(i) /\ up'[At(i)] = up[At(i)]
      BY <1>1, <1>2, <1>4, <2>2 DEF SameUser
    <3>2. clients'[i].fd # cur'
      BY <1>1, <1>2, <2>2, AdmitCells DEF SrvAdmit
    <3>3. PICK b \in Nat : UserLines(At(i), b)
      BY <2>2 DEF LinesOK
    <3>4. UserLines(At(i), b)'
      BY <1>1, <3>1, <3>3 DEF UserLines, Typed
    <3> QED
      BY <3>2, <3>4
  <2> QED
    BY <2>1, <2>2
<1>10. LinesOK'
  BY <1>8, <1>9 DEF LinesOK
<1> QED
  BY <1>2, <1>5, <1>10

-----------------------------------------------------------------------------
(* The last line a user will have seen of another is the one before the    *)
(* next the server will read, unless that one is being broadcast.          *)

(* The line being broadcast is that of user j, and i is still to get it.   *)
Untold(i, j) == pc = "cast" /\ msg.kind = "said" /\ clients[j].fd = cur /\ clients[i].fd \in todo

LastRight(i, j) ==
  (peer[At(i)] = "up" /\ ~Leaving(i) /\ clients[j].name \in ShouldKnow(i)) =>
    LET last == Seen(ToldAll(view[At(i)], down[At(i)]), clients[j].name)
    IN  /\ Untold(i, j) => last \in {-1, msg.text - 1}
        /\ ~Untold(i, j) /\ Speaks(At(j)) => last \in {-1, NextLine(At(j)) - 1}

LastOK == \A i, j \in Users : i # j => LastRight(i, j)

(* No line is on its way from one user to the others.                      *)
NoLine == pc # "cast" \/ msg.kind # "said" \/ todo = {}

(* Users i and j of the next state are p and q of this one.                *)
LEMMA CarryLast ==
  ASSUME NEW i, NEW j, NEW p, NEW q, NEW c, NEW d, c = At(p), d = At(q),
         LastRight(p, q), SameUser(i, p), SameWill(c),
         clients'[j].name = clients[q].name, At(j)' = d, SameLine(d),
         Untold(i, j)' <=> Untold(p, q),
         Untold(p, q) => msg' = msg
  PROVE  LastRight(i, j)'
<1> SUFFICES ASSUME peer'[At(i)'] = "up", ~Leaving(i)', clients'[j].name \in ShouldKnow(i)'
             PROVE  LET last == Seen(ToldAll(view'[At(i)'], down'[At(i)']), clients'[j].name)
                    IN  /\ Untold(i, j)' => last \in {-1, msg'.text - 1}
                        /\ ~Untold(i, j)' /\ Speaks(At(j))' => last \in {-1, NextLine(At(j))' - 1}
  BY DEF LastRight
<1> DEFINE n == clients[q].name
           last == Seen(ToldAll(view[c], down[c]), n)
<1>1. At(i)' = c /\ ~Leaving(p) /\ ShouldKnow(i)' = ShouldKnow(p) /\ clients'[j].name = n
  BY DEF SameUser
<1>2. peer[c] = "up" /\ ToldAll(view'[c], down'[c]) = ToldAll(view[c], down[c])
  BY <1>1 DEF SameWill
<1>3. /\ Untold(p, q) => last \in {-1, msg.text - 1}
      /\ ~Untold(p, q) /\ Speaks(d) => last \in {-1, NextLine(d) - 1}
  BY <1>1, <1>2 DEF LastRight
<1>4. Speaks(At(j))' => Speaks(d) /\ NextLine(At(j))' = NextLine(d)
  BY DEF SameLine, Speaks, NextLine, Typed
<1>5. Seen(ToldAll(view'[At(i)'], down'[At(i)']), clients'[j].name) = last
  BY <1>1, <1>2
<1> HIDE DEF last
<1> QED
  BY <1>3, <1>4, <1>5

LEMMA CarriedLast ==
  ASSUME IInv', LastOK, Carried, NoLine, NoLine',
         \A q \in Users : At(q) \in Clients,
         \A q \in Users, d \in Clients : d = At(q) => SameLine(d)
  PROVE  LastOK'
<1> SUFFICES ASSUME NEW i \in Users', NEW j \in Users', i # j PROVE LastRight(i, j)'
  BY DEF LastOK
<1>1. PICK p \in Users : SameUser(i, p) /\ SameWill(At(p))
  BY DEF Carried
<1>2. PICK q \in Users : SameUser(j, q)
  BY DEF Carried
<1>3. p # q
  BY <1>1, <1>2 DEF SameUser, IInv, UniqueUsers
<1>4. LastRight(p, q)
  BY <1>3 DEF LastOK
<1>5. PICK c \in Clients, d \in Clients : c = At(p) /\ d = At(q)
  OBVIOUS
<1>6. ~Untold(p, q) /\ ~Untold(i, j)'
  BY DEF Untold, NoLine
<1>7. SameWill(c) /\ SameLine(d) /\ clients'[j].name = clients[q].name /\ At(j)' = d
  BY <1>1, <1>2, <1>5 DEF SameUser
<1> QED
  BY <1>1, <1>4, <1>5, <1>6, <1>7, CarryLast

LEMMA SilentLast ==
  ASSUME IInv, IInv', RoomOK, LastOK, Carried, UNCHANGED <<cpc, says, up>>, NoLine, NoLine'
  PROVE  LastOK'
<1>1. \A q \in Users : At(q) \in Clients
  BY ConnectionsLead DEF IInv, RoomOK
<1>2. \A d : SameLine(d)
  BY DEF SameLine, Speaks, NextLine, Typed
<1> QED
  BY <1>1, <1>2, CarriedLast

LEMMA ClientLast ==
  ASSUME IInv, RoomOK, ViewsOK, LinesOK, LastOK, NEW c \in Clients,
         ClientStep(c) \/ User(c) \/ ResetArrives(c)
  PROVE  LastOK'
<1>1. UNCHANGED <<vars, sock>>
  BY DEF ClientStep, User, ResetArrives, SendJoin, SendLine, SendRefused, ClientRecv, Connect,
         TypeLine, Leave
<1>2. Users' = Users /\ clients' = clients /\ msg' = msg
  BY <1>1 DEF vars, Users
<1>3. \A i \in Users : SameUser(i, i) /\ SameWill(At(i))
  BY ClientViews
<1>4. \A i \in Users, d \in Clients : d = At(i) => SameLine(d)
  BY ClientLines
<1>5. \A i \in Users : At(i) \in Clients /\ At(i)' = At(i)
  BY <1>1, <1>2, ConnectionsLead DEF IInv, RoomOK, At
<1>6. ASSUME NEW i \in Users, NEW j \in Users, i # j PROVE LastRight(i, j)'
  <2>1. LastRight(i, j)
    BY <1>6 DEF LastOK
  <2>2. PICK e \in Clients, d \in Clients : e = At(i) /\ d = At(j)
    BY <1>5
  <2>3. Untold(i, j)' <=> Untold(i, j)
    BY <1>1 DEF Untold, vars
  <2>4. SameWill(e) /\ SameLine(d) /\ clients'[j].name = clients[j].name /\ At(j)' = d
    BY <1>2, <1>3, <1>4, <1>5, <2>2
  <2> QED
    BY <1>2, <1>3, <2>1, <2>2, <2>3, <2>4, CarryLast
<1> QED
  BY <1>2, <1>6 DEF LastOK

(* The line read is the one the others are to see next.                    *)
LEMMA ForwardLast ==
  ASSUME IInv, IInv', RoomOK, RoomOK', ViewsOK, LinesOK, LastOK, NEW fd \in Fds, SrvForward(fd)
  PROVE  LastOK'
<1>1. /\ pc = "scan" /\ pc' = "cast" /\ cur' = fd /\ UNCHANGED <<table, sock, view, down, peer>>
      /\ msg'.kind = "said" /\ todo' = Others(set1, max_fd, fd)
  BY DEF SrvForward, Forward, Broadcast, Turn
<1>2. Users' = Users /\ clients' = clients
  BY <1>1, TableUnchanged DEF table
<1>3. PICK s \in Users :
        /\ clients[s].fd = fd
        /\ Speaks(At(s)) /\ NextLine(At(s)) = msg'.text
        /\ \A i \in Users, d \in Clients : i # s /\ d = At(i) => SameLine(d)
  BY ForwardLines
<1>4. Carried /\ pc' # "exited"
  BY <1>1, QuietViews
<1>5. \A i \in Users : SameUser(i, i) /\ SameWill(At(i))
  <2>1. ASSUME NEW i \in Users PROVE SameUser(i, i) /\ SameWill(At(i))
    <3>1. PICK p \in Users : SameUser(i, p) /\ SameWill(At(p))
      BY <1>2, <1>4 DEF Carried
    <3>2. p = i
      BY <1>2, <3>1 DEF SameUser, IInv, UniqueUsers
    <3> QED
      BY <3>1, <3>2
  <2> QED
    BY <2>1
<1>6. \A i \in Users : At(i) \in Clients /\ At(i)' = At(i)
  BY <1>1, <1>2, ConnectionsLead DEF IInv, RoomOK, At
<1>7. \A i, j \in Users : ~Untold(i, j)
  BY <1>1 DEF Untold
<1>8. ASSUME NEW i \in Users, NEW j \in Users, i # j PROVE LastRight(i, j)'
  <2>1. LastRight(i, j)
    BY <1>8 DEF LastOK
  <2>2. CASE j # s
    <3>1. PICK c \in Clients, d \in Clients : c = At(i) /\ d = At(j)
      BY <1>6
    <3>2. ~Untold(i, j)'
      BY <1>1, <1>2, <1>3, <2>2 DEF Untold, IInv, UniqueUsers
    <3>3. SameWill(c) /\ SameLine(d) /\ clients'[j].name = clients[j].name /\ At(j)' = d
      BY <1>2, <1>3, <1>5, <1>6, <2>2, <3>1
    <3> QED
      BY <1>5, <1>7, <2>1, <3>1, <3>2, <3>3, CarryLast
  <2>3. CASE j = s
    <3>1. Untold(i, j)'
      <4>1. clients[i].fd \in Members /\ clients[i].fd # fd
        BY <1>3, <1>8, <2>3 DEF Members, IInv, UniqueUsers
      <4>2. clients[i].fd \in Watched /\ clients[i].fd # Listener
        BY <1>1, <4>1, Domains DEF IInv, WatchIsTable
      <4>3. clients[i].fd \in todo'
        BY <1>1, <4>1, <4>2 DEF Watched, Others
      <4> QED
        BY <1>1, <1>2, <1>3, <2>3, <4>3 DEF Untold
    <3>2. ASSUME peer[At(i)] = "up", ~Leaving(i)', clients[j].name \in ShouldKnow(i)'
          PROVE  Seen(ToldAll(view[At(i)], down[At(i)]), clients[j].name) \in {-1, msg'.text - 1}
      <4>1. ~Leaving(i) /\ ShouldKnow(i)' = ShouldKnow(i)
        BY <1>5, <3>2 DEF SameUser
      <4> QED
        BY <1>3, <1>7, <2>1, <2>3, <3>2, <4>1 DEF LastRight
    <3> QED
      BY <1>1, <1>2, <1>6, <3>1, <3>2 DEF LastRight
  <2> QED
    BY <2>2, <2>3
<1> QED
  BY <1>2, <1>8 DEF LastOK

(* The frame being broadcast makes sense to the user it is sent to,        *)
LEMMA CastMakesSense ==
  ASSUME IInv, IInv', RoomOK, ViewsOK, LastOK, NEW fd \in Fds, SrvSendTo(fd), peer[sock[fd]] = "up"
  PROVE  Makes(ToldAll(view[sock[fd]], down[sock[fd]]), msg)
<1>1. PICK n, s \in Users :
        /\ clients[n].fd = fd /\ At(n) = sock[fd] /\ n # s
        /\ clients[s].name = msg.name /\ clients[s].fd = cur /\ fd # cur
        /\ msg.kind = "joined" => msg.name \notin ShouldKnow(n)
        /\ msg.kind = "left" => msg.name \in ShouldKnow(n)
        /\ msg.kind = "said" => msg.name \in ShouldKnow(n)
  BY SendToNews
<1>2. pc = "cast" /\ fd \in todo
  BY DEF SrvSendTo, NextRecipient
<1>3. ~Leaving(n)
  BY <1>1 DEF Leaving
<1> DEFINE v == ToldAll(view[sock[fd]], down[sock[fd]])
<1>4. v \in Picture(ShouldKnow(n))
  BY <1>1, <1>3 DEF ViewsOK, RosterOK, Will
<1>5. msg.kind = "said" => Seen(v, msg.name) \in {-1, msg.text - 1}
  <2>1. LastRight(n, s)
    BY <1>1 DEF LastOK
  <2>2. msg.kind = "said" => Untold(n, s)
    BY <1>1, <1>2 DEF Untold
  <2> QED
    BY <1>1, <1>3, <2>1, <2>2 DEF LastRight
<1>6. v.told /\ DOMAIN v.last = ShouldKnow(n)
  BY <1>4 DEF Picture
<1> HIDE DEF v
<1>7. msg.kind \in {"joined", "left", "said"}
  BY <1>2, CastFrame
<1>8. Makes(v, msg)
  BY <1>1, <1>5, <1>6, <1>7 DEF Makes
<1> QED
  BY <1>8 DEF v

(* and leaves it ready for the next line of each of the others.            *)
LEMMA SendToLast ==
  ASSUME IInv, IInv', RoomOK, ViewsOK, LinesOK, LastOK, NEW fd \in Fds, SrvSendTo(fd)
  PROVE  LastOK'
<1>1. PICK n, s \in Users :
        /\ clients[n].fd = fd /\ At(n) = sock[fd] /\ n # s
        /\ clients[s].name = msg.name /\ clients[s].fd = cur /\ fd # cur
        /\ \A i \in Users : ~Leaving(i)' => ~Leaving(i)
        /\ \A i \in Users \ {n} : /\ clients[i].fd # fd /\ At(i) # At(n)
                                  /\ ShouldKnow(i)' = ShouldKnow(i)
        /\ msg.kind = "joined" => ShouldKnow(n)' = ShouldKnow(n) \cup {msg.name}
        /\ msg.kind = "left" => ShouldKnow(n)' = ShouldKnow(n) \ {msg.name}
        /\ msg.kind = "said" => msg.name \in ShouldKnow(n) /\ ShouldKnow(n)' = ShouldKnow(n)
  BY SendToNews
<1>2. /\ pc = "cast" /\ fd \in todo /\ todo' = todo \ {fd}
      /\ UNCHANGED <<pc, table, cur, msg, cpc, says, up, view, sock>>
      /\ Deliver(sock[fd], msg)
  BY DEF SrvSendTo, SendTo, NextRecipient
<1>3. Users' = Users /\ clients' = clients
  BY <1>2, TableUnchanged DEF table
<1>4. \A i \in Users : At(i) \in Clients /\ At(i)' = At(i)
  BY <1>2, <1>3, ConnectionsLead DEF IInv, RoomOK, At
<1>5. PICK c \in Clients : c = sock[fd] /\ c = At(n)
  BY <1>1, <1>4
<1>6. /\ msg.kind \in {"joined", "left", "said"} /\ msg \in Notes
      /\ msg.kind = "said" => msg.text \in Int
  BY <1>2, CastFrame
<1>7. /\ \A d \in Clients : d # c => down'[d] = down[d]
      /\ peer[c] = "up" => ToldAll(view[c], down'[c]) = Told(ToldAll(view[c], down[c]), msg)
      /\ \A d \in Clients : peer'[d] = "up" <=> peer[d] = "up"
  BY <1>2, <1>5, <1>6, DeliverSends, DeliverHears DEF RoomOK
<1>8. \A d : SameLine(d)
  BY <1>2 DEF SameLine, Speaks, NextLine, Typed
<1>9. ASSUME NEW i \in Users, NEW j \in Users, i # j, i # n PROVE LastRight(i, j)'
  <2>1. LastRight(i, j)
    BY <1>9 DEF LastOK
  <2>2. PICK e \in Clients, d \in Clients : e = At(i) /\ d = At(j)
    BY <1>4
  <2>3. Untold(i, j)' <=> Untold(i, j)
    BY <1>1, <1>2, <1>3, <1>9 DEF Untold
  <2>4. SameUser(i, i)
    BY <1>1, <1>3, <1>4, <1>9 DEF SameUser
  <2>5. SameWill(e)
    BY <1>1, <1>2, <1>5, <1>7, <1>9, <2>2 DEF SameWill
  <2>6. clients'[j].name = clients[j].name /\ At(j)' = d /\ msg' = msg
    BY <1>2, <1>3, <1>4, <2>2
  <2> QED
    BY <1>8, <2>1, <2>2, <2>3, <2>4, <2>5, <2>6, CarryLast
<1>10. ASSUME NEW j \in Users, n # j PROVE LastRight(n, j)'
  <2>1. ~Untold(n, j)'
    BY <1>1, <1>2, <1>3 DEF Untold
  <2>2. PICK d \in Clients : d = At(j) /\ At(j)' = d
    BY <1>4
  <2>3. At(n)' = c /\ clients' = clients
    BY <1>3, <1>4, <1>5
  <2> DEFINE v == ToldAll(view[c], down[c])
             m == clients[j].name
             S == ShouldKnow(n)
  <2>4. SUFFICES ASSUME peer'[c] = "up", ~Leaving(n)', m \in ShouldKnow(n)', Speaks(d)
                 PROVE  Seen(Told(v, msg), m) \in {-1, NextLine(d) - 1}
    <3>1. (Speaks(At(j))' => Speaks(d)) /\ NextLine(At(j))' = NextLine(d)
      BY <1>2, <2>2 DEF Speaks, NextLine, Typed
    <3>2. peer'[c] = "up" => ToldAll(view'[c], down'[c]) = Told(v, msg)
      BY <1>2, <1>7
    <3> QED
      BY <2>1, <2>3, <2>4, <3>1, <3>2 DEF LastRight
  <2>5. peer[c] = "up" /\ ~Leaving(n)
    BY <1>1, <1>7, <2>4
  <2>6. v \in Picture(S)
    BY <1>5, <2>5 DEF ViewsOK, RosterOK, Will
  <2> HIDE DEF v, S
  <2>7. CASE j = s
    <3>1. m = msg.name /\ CastLine(d)
      BY <1>1, <2>2, <2>7 DEF LinesOK
    <3>2. CASE msg.kind = "joined"
      <4>1. NextLine(d) = 1
        BY <1>2, <2>4, <3>1, <3>2 DEF CastLine
      <4>2. Seen(Told(v, msg), msg.name) = 0
        BY <2>6, <3>2, PictureJoined
      <4> QED
        BY <3>1, <4>1, <4>2
    <3>3. CASE msg.kind = "left"
      BY <1>1, <2>4, <3>1, <3>3
    <3>4. CASE msg.kind = "said"
      <4>1. NextLine(d) = msg.text + 1 /\ msg.text \in Int /\ msg.name \in S
        BY <1>1, <1>2, <1>6, <2>4, <3>1, <3>4 DEF CastLine, S
      <4>2. Seen(Told(v, msg), msg.name) = msg.text
        BY <2>6, <3>4, <4>1, PictureSaid
      <4>3. NextLine(d) - 1 = msg.text
        BY <4>1
      <4> QED
        BY <3>1, <4>2, <4>3
    <3> QED
      BY <1>6, <3>2, <3>3, <3>4
  <2>8. CASE j # s
    <3>1. m # msg.name /\ clients[j].fd # cur
      BY <1>1, <2>8 DEF IInv, UniqueUsers
    <3>2. m \in S
      BY <1>1, <1>6, <2>4, <3>1 DEF S
    <3>3. ~Untold(n, j) /\ LastRight(n, j)
      BY <1>10, <3>1 DEF Untold, LastOK
    <3>4. Seen(v, m) \in {-1, NextLine(d) - 1}
      BY <1>5, <2>2, <2>4, <2>5, <3>2, <3>3 DEF LastRight, v, S
    <3>5. Seen(Told(v, msg), m) = Seen(v, m)
      <4> HIDE DEF m
      <4>1. CASE msg.kind = "joined"
        <5>1. /\ Told(v, msg) \in Picture(S \cup {msg.name})
              /\ \A k \in S : k # msg.name => Seen(Told(v, msg), k) = Seen(v, k)
          BY <2>6, <4>1, PictureJoined
        <5> QED
          BY <3>1, <3>2, <5>1
      <4>2. CASE msg.kind = "left"
        <5>1. /\ Told(v, msg) \in Picture(S \ {msg.name})
              /\ \A k \in S : k # msg.name => Seen(Told(v, msg), k) = Seen(v, k)
          BY <2>6, <4>2, PictureLeft
        <5> QED
          BY <3>1, <3>2, <5>1
      <4>3. CASE msg.kind = "said" /\ msg.text \in Int
        BY <2>6, <3>1, <3>2, <4>3, PictureSaid
      <4> QED
        BY <1>6, <4>1, <4>2, <4>3
    <3> QED
      BY <3>4, <3>5
  <2> QED
    BY <2>7, <2>8
<1> QED
  BY <1>3, <1>9, <1>10 DEF LastOK

(* To the new user no line has been sent, nor any of its own to the others.*)
LEMMA AdmitLast ==
  ASSUME IInv, IInv', RoomOK, RoomOK', ViewsOK, LinesOK, LastOK, SrvAdmit
  PROVE  LastOK'
<1> DEFINE m == [kind |-> "ack", roster |-> Roster]
<1>1. PICK c \in Clients, name \in Names :
        /\ pc = "join" /\ c = sock[cur]
        /\ Deliver(c, m) /\ m \in Notes
        /\ UNCHANGED <<cpc, says, view>>
        /\ pc' = "cast" /\ msg' = [kind |-> "joined", name |-> name]
        /\ Users' = Users \cup {client_count}
        /\ \A i \in Users : SameUser(i, i) /\ name \notin ShouldKnow(i)
        /\ \A i \in Users' : i \notin Users =>
             /\ clients'[i] = [name |-> name, fd |-> cur]
             /\ At(i)' = c
             /\ ShouldKnow(i)' = Roster
  BY AdmitNews
<1>2. \A i \in Users : At(i) \in Clients /\ At(i) # c
  BY <1>1, Newcomer
<1>3. \A v, n : n \in Roster => Seen(Told(v, m), n) = -1
  BY PictureBegins
<1> HIDE DEF m
<1>4. /\ \A d \in Clients : d # c => down'[d] = down[d]
      /\ peer[c] = "up" => ToldAll(view[c], down'[c]) = Told(ToldAll(view[c], down[c]), m)
      /\ \A d \in Clients : peer'[d] = "up" <=> peer[d] = "up"
  BY <1>1, DeliverSends, DeliverHears DEF RoomOK
<1>5. \A i \in Users, d \in Clients : d = At(i) => SameLine(d)
  BY AdmitLines
<1>6. \A i, j : ~Untold(i, j)'
  BY <1>1 DEF Untold
<1>7. \A i, j : ~Untold(i, j)
  BY <1>1 DEF Untold
<1> SUFFICES ASSUME NEW i \in Users', NEW j \in Users', i # j PROVE LastRight(i, j)'
  BY DEF LastOK
<1>8. CASE i \in Users /\ j \in Users
  <2>1. LastRight(i, j)
    BY <1>8 DEF LastOK
  <2>2. PICK e \in Clients, d \in Clients : e = At(i) /\ d = At(j)
    BY <1>2, <1>8
  <2>3. SameWill(e) /\ SameLine(d)
    BY <1>1, <1>2, <1>4, <1>5, <1>8, <2>2 DEF SameWill
  <2>4. SameUser(i, i) /\ clients'[j].name = clients[j].name /\ At(j)' = d
    BY <1>1, <1>8, <2>2 DEF SameUser
  <2> QED
    BY <1>6, <1>7, <1>8, <2>1, <2>2, <2>3, <2>4, CarryLast
<1>9. CASE i \in Users /\ j \notin Users
  <2>1. clients'[j].name = name
    BY <1>1, <1>9
  <2>2. ~Leaving(i)' => clients'[j].name \notin ShouldKnow(i)'
    BY <1>1, <1>9, <2>1 DEF SameUser
  <2> QED
    BY <2>2 DEF LastRight
<1>10. CASE i \notin Users /\ j \in Users
  <2>1. At(i)' = c /\ ShouldKnow(i)' = Roster
    BY <1>1, <1>10
  <2>2. ASSUME peer'[c] = "up", clients'[j].name \in Roster
        PROVE  Seen(ToldAll(view'[c], down'[c]), clients'[j].name) = -1
    BY <1>1, <1>3, <1>4, <2>2
  <2> QED
    BY <1>6, <2>1, <2>2 DEF LastRight
<1> QED
  BY <1>1, <1>8, <1>9, <1>10

LEMMA RefuseLast ==
  ASSUME IInv, IInv', RoomOK, ViewsOK, LinesOK, LastOK, SrvRefuse
  PROVE  LastOK'
<1>1. Carried
  BY RefuseViews
<1>2. NoLine /\ NoLine'
  BY DEF NoLine, SrvRefuse, Refuse
<1>3. \A i \in Users, d \in Clients : d = At(i) => SameLine(d)
  BY <1>1, RefuseLines
<1>4. \A q \in Users : At(q) \in Clients
  BY ConnectionsLead DEF IInv, RoomOK
<1> QED
  BY <1>1, <1>2, <1>3, <1>4, CarriedLast

-----------------------------------------------------------------------------
(* Every frame sent to a client and not yet read makes sense to it.        *)

SenseOK == \A c \in Clients : Sense(view[c], down[c])

(* The answer to a JOIN is the first frame of all.                         *)
LEMMA AnswerSense ==
  ASSUME ViewsOK, SenseOK, NEW c \in Clients, Waiting(c),
         NEW m \in Notes, m.kind \in {"ack", "nak"}, Deliver(c, m), UNCHANGED view
  PROVE  SenseOK'
<1>1. view[c] = NoView /\ down[c] = <<>>
  BY DEF ViewsOK
<1>2. ToldAll(view[c], down[c]) = NoView
  BY <1>1, ToldNothing
<1>3. Makes(NoView, m)
  BY DEF Makes, NoView
<1>4. Sense(view[c], down'[c])
  BY <1>2, <1>3, DeliverSends DEF SenseOK
<1>5. \A d \in Clients : d # c => down'[d] = down[d]
  BY DeliverSends
<1> QED
  BY <1>4, <1>5 DEF SenseOK

LEMMA RefuseSense ==
  ASSUME IInv, RoomOK, ViewsOK, SenseOK, SrvRefuse
  PROVE  SenseOK'
<1> DEFINE m == [kind |-> "nak"]
<1>1. PICK c \in Clients : pc = "join" /\ c = sock[cur] /\ Deliver(c, m) /\ UNCHANGED view
  BY DEF SrvRefuse
<1>2. m \in Notes /\ m.kind \in {"ack", "nak"}
  BY DEF Notes
<1>3. Waiting(c)
  BY <1>1, Newcomer
<1> HIDE DEF m
<1> QED
  BY <1>1, <1>2, <1>3, AnswerSense

LEMMA AdmitSense ==
  ASSUME IInv, IInv', RoomOK, RoomOK', ViewsOK, SenseOK, SrvAdmit
  PROVE  SenseOK'
<1> DEFINE m == [kind |-> "ack", roster |-> Roster]
<1>1. PICK c \in Clients :
        pc = "join" /\ c = sock[cur] /\ Deliver(c, m) /\ m \in Notes /\ UNCHANGED view
  BY AdmitNews
<1>2. m.kind \in {"ack", "nak"}
  OBVIOUS
<1>3. Waiting(c)
  BY <1>1, Newcomer
<1> HIDE DEF m
<1> QED
  BY <1>1, <1>2, <1>3, AnswerSense

LEMMA SendToSense ==
  ASSUME IInv, IInv', RoomOK, ViewsOK, LastOK, SenseOK, NEW fd \in Fds, SrvSendTo(fd)
  PROVE  SenseOK'
<1>1. PICK c \in Clients : c = sock[fd]
  BY ConnectionsLead DEF SrvSendTo, RoomOK, SocksOK, IInv
<1>2. pc = "cast" /\ Deliver(c, msg) /\ UNCHANGED view
  BY <1>1 DEF SrvSendTo, NextRecipient
<1>3. peer[c] = "up" => Makes(ToldAll(view[c], down[c]), msg)
  BY <1>1, CastMakesSense
<1>4. Sense(view[c], down'[c]) /\ \A d \in Clients : d # c => down'[d] = down[d]
  BY <1>2, <1>3, CastFrame, DeliverSends DEF SenseOK
<1> QED
  BY <1>2, <1>4 DEF SenseOK

LEMMA ClientSense ==
  ASSUME RoomOK, ViewsOK, SenseOK, NEW c \in Clients, ClientStep(c) \/ User(c) \/ ResetArrives(c)
  PROVE  SenseOK'
BY ClientWill DEF SenseOK

LinesInv ==
  /\ down \in [Clients -> Seq(Notes)]
  /\ SenseOK
  /\ pc # "exited" => LinesOK /\ LastOK

LEMMA InitLines == ChatInit => LinesInv
<1> SUFFICES ASSUME ChatInit PROVE LinesInv
  OBVIOUS
<1>1. Users = {}
  BY DEF ChatInit, Init, Users
<1>2. \A c \in Clients : up[c] = <<>> /\ says[c] = 0 /\ down[c] = <<>>
  BY DEF ChatInit
<1>3. SenseOK /\ down \in [Clients -> Seq(Notes)]
  BY <1>2, SenseNothing DEF SenseOK, ChatInit
<1>4. LinesOK /\ LastOK
  BY <1>1, <1>2 DEF LinesOK, LastOK, JoinLines
<1> QED
  BY <1>3, <1>4 DEF LinesInv

(* The server scans, hears that a client has gone, or ends a broadcast.    *)
LEMMA QuietSense ==
  ASSUME IInv, IInv', RoomOK, RoomOK', ViewsOK, LinesOK, LastOK, SenseOK, NEW fd \in Fds,
         SrvSelect \/ SrvScanDone \/ SrvAccept \/ SrvHangup(fd) \/ SrvCastDone, pc' # "exited"
  PROVE  LinesOK' /\ LastOK' /\ SenseOK'
<1>1. UNCHANGED <<cpc, says, up, view, down>>
  BY DEF SrvSelect, SrvScanDone, SrvAccept, SrvHangup, SrvCastDone, clientVars
<1>2. Carried
  BY QuietViews, HangupViews, CastDoneViews, HangupDoneViews
<1>3. pc' # "cast" \/ msg'.kind = "left"
  BY DEF SrvSelect, SrvScanDone, SrvAccept, SrvHangup, SrvCastDone, Select, Exit, ScanDone, Accept,
         Hangup, CastDone, Broadcast
<1>4. NoLine /\ NoLine'
  <2>1. pc # "cast" \/ todo = {}
    BY DEF SrvSelect, SrvScanDone, SrvAccept, SrvHangup, SrvCastDone, Select, ScanDone, Accept,
           Hangup, CastDone, Turn
  <2> QED
    BY <1>3, <2>1 DEF NoLine
<1>5. \A c \in Clients : Waiting(c)' => Waiting(c)
  <2>1. CASE SrvAccept
    BY <2>1, AcceptRoom
  <2>2. CASE SrvSelect \/ SrvScanDone \/ SrvHangup(fd) \/ SrvCastDone
    <3>1. backlog' = backlog /\ pc' # "join"
      BY <2>2 DEF SrvSelect, SrvScanDone, SrvHangup, SrvCastDone, clientVars, Select, Exit,
                  ScanDone, Hangup, CastDone, Broadcast
    <3> QED
      BY <3>1 DEF Waiting
  <2> QED
    BY <2>1, <2>2
<1> QED
  BY <1>1, <1>2, <1>3, <1>4, <1>5, QuietLines, SilentLast DEF SenseOK

LEMMA NextSense ==
  ASSUME IInv, IInv', RoomOK, RoomOK', ViewsOK, LinesOK, LastOK, SenseOK, ChatNext, pc' # "exited"
  PROVE  LinesOK' /\ LastOK' /\ SenseOK'
<1>0. 0 \in Fds
  BY ConstantsOK DEF Fds
<1>1. CASE SrvSelect \/ SrvScanDone \/ SrvAccept \/ SrvCastDone
  BY <1>0, <1>1, QuietSense
<1>2. CASE SrvRefuse
  BY <1>2, RefuseViews, RefuseLines, RefuseLast, RefuseSense
<1>3. CASE SrvAdmit
  BY <1>3, AdmitLines, AdmitLast, AdmitSense
<1>4. ASSUME NEW fd \in Fds,
             SrvForward(fd) \/ SrvHangup(fd) \/ SrvRecvFails(fd)
               \/ SrvSendTo(fd) \/ SrvSendFails(fd)
      PROVE  LinesOK' /\ LastOK' /\ SenseOK'
  <2>1. ~SrvRecvFails(fd) /\ ~SrvSendFails(fd)
    BY DEF SrvRecvFails, SrvSendFails, RecvFails, SendFails, Exit
  <2>2. CASE SrvForward(fd)
    <3>1. UNCHANGED <<view, down>>
      BY <2>2 DEF SrvForward
    <3>2. SenseOK'
      BY <3>1 DEF SenseOK
    <3> QED
      BY <2>2, <3>2, ForwardLines, ForwardLast
  <2>3. CASE SrvHangup(fd)
    BY <2>3, QuietSense
  <2>4. CASE SrvSendTo(fd)
    <3>1. UNCHANGED <<cpc, says, up, pc, table, cur, msg, backlog, sock>>
      BY <2>4 DEF SrvSendTo, SendTo
    <3> QED
      BY <2>4, <3>1, SendToLines, SendToLast, SendToSense
  <2> QED
    BY <1>4, <2>1, <2>2, <2>3, <2>4
<1>5. ASSUME NEW c \in Clients, ClientStep(c) \/ User(c) \/ ResetArrives(c)
      PROVE  LinesOK' /\ LastOK' /\ SenseOK'
  BY <1>5, ClientLines, ClientLast, ClientSense
<1>6. ~SrvAcceptFails
  BY DEF SrvAcceptFails, AcceptFails, Exit
<1> QED
  BY <1>1, <1>2, <1>3, <1>4, <1>5, <1>6 DEF ChatNext, Server

(* The step that ends the server sends nothing.                            *)
LEMMA ExitSendsNothing ==
  ASSUME ChatNext, pc # "exited", pc' = "exited"
  PROVE  UNCHANGED <<view, down>>
<1>1. ASSUME NEW fd \in Fds, SrvForward(fd) \/ SrvHangup(fd) \/ SrvSendTo(fd)
      PROVE  FALSE
  BY <1>1 DEF SrvForward, SrvHangup, SrvSendTo, Forward, Hangup, SendTo, Broadcast
<1>2. ~(SrvScanDone \/ SrvAccept \/ SrvRefuse \/ SrvAdmit \/ SrvCastDone)
  BY DEF SrvScanDone, SrvAccept, SrvRefuse, SrvAdmit, SrvCastDone, ScanDone, Accept, Refuse,
         Admit, Broadcast, CastDone
<1>3. \A c \in Clients : ~(ClientStep(c) \/ User(c) \/ ResetArrives(c))
  BY DEF ClientStep, User, ResetArrives, SendJoin, SendLine, SendRefused, ClientRecv,
         Connect, TypeLine, Leave, vars
<1> QED
  BY <1>1, <1>2, <1>3 DEF ChatNext, Server, SrvSelect, SrvAcceptFails, SrvRecvFails, SrvSendFails,
    clientVars

LEMMA StepLines ==
  ChatInv /\ ChatInv' /\ RosterInv /\ LinesInv /\ [ChatNext]_chatVars => LinesInv'
<1> SUFFICES ASSUME ChatInv, ChatInv', RosterInv, LinesInv, [ChatNext]_chatVars PROVE LinesInv'
  OBVIOUS
<1>1. CASE UNCHANGED chatVars
  <2>1. UNCHANGED <<pc, clients, client_count, cur, msg, todo, cpc, says, view, backlog, sock, up,
                    down, peer>>
    BY <1>1 DEF chatVars, vars, clientVars
  <2>2. SenseOK'
    BY <2>1 DEF LinesInv, SenseOK
  <2>3. LinesOK => LinesOK'
    BY <2>1, SendToLines DEF table
  <2>4. LastOK => LastOK'
    <3>1. \A i, j : LastRight(i, j)' <=> LastRight(i, j)
      <4> SUFFICES ASSUME NEW i, NEW j PROVE LastRight(i, j)' <=> LastRight(i, j)
        OBVIOUS
      <4>1. /\ At(i)' = At(i) /\ At(j)' = At(j)
            /\ Leaving(i)' <=> Leaving(i)
            /\ ShouldKnow(i)' = ShouldKnow(i)
        BY <2>1, StutterKnows
      <4>2. Untold(i, j)' <=> Untold(i, j)
        BY <2>1 DEF Untold
      <4>3. \A c : (Speaks(c)' <=> Speaks(c)) /\ NextLine(c)' = NextLine(c)
        BY <2>1 DEF Speaks, NextLine, Typed
      <4> QED
        BY <2>1, <4>1, <4>2, <4>3 DEF LastRight
    <3> QED
      BY <2>1, <3>1, StutterKnows DEF LastOK
  <2> QED
    BY <2>1, <2>2, <2>3, <2>4 DEF LinesInv
<1>2. CASE ChatNext /\ pc # "exited" /\ pc' # "exited"
  <2>1. LinesOK' /\ LastOK' /\ SenseOK'
    BY <1>2, NextSense DEF ChatInv, RosterInv, LinesInv
  <2>2. ViewsOK'
    BY <1>2, NextViews DEF ChatInv, RosterInv
  <2> QED
    BY <2>1, <2>2 DEF LinesInv, ViewsOK
<1>3. CASE ChatNext /\ pc # "exited" /\ pc' = "exited"
  BY <1>3, ExitSendsNothing DEF LinesInv, SenseOK
<1> QED
  BY <1>1, <1>2, <1>3, ExitedStays

(* Whatever a client reads next makes sense to it: the answer to its JOIN  *)
(* comes first, then announcements of users it did not know, the end of    *)
(* users it knows, and their lines in the order typed, none missing and    *)
(* none twice.                                                             *)
THEOREM FramesMakeSense == ChatSpec => []HeadMakesSense
<1>1. LinesInv => HeadMakesSense
  <2> SUFFICES ASSUME LinesInv, NEW c \in Clients, down[c] # <<>>
               PROVE  LET m == Head(down[c])
                          v == view[c]
                      IN  IF ~v.told THEN m.kind \in {"ack", "nak"}
                          ELSE CASE m.kind = "joined" -> m.name \notin DOMAIN v.last
                                 [] m.kind = "left"   -> m.name \in DOMAIN v.last
                                 [] m.kind = "said"   -> /\ m.name \in DOMAIN v.last
                                                         /\ v.last[m.name] \in {-1, m.text - 1}
                                 [] OTHER             -> FALSE
    BY DEF HeadMakesSense
  <2>1. Makes(view[c], Head(down[c]))
    BY SenseFirst DEF LinesInv, SenseOK
  <2> QED
    BY <2>1 DEF Makes, Seen
<1> QED
  BY <1>1, ChatInvariance, InitViews, StepViews, InitLines, StepLines, PTL DEF ChatSpec
=============================================================================
