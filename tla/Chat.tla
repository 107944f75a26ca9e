-------------------------------- MODULE Chat --------------------------------
(***************************************************************************)
(* The chat room of Programming_Assignment_2 as a closed system: the       *)
(* server of ChatServer, the client processes of client.c, and the TCP     *)
(* connections between them.                                               *)
(*                                                                         *)
(* A connection is a pair of FIFO streams of whole frames (every sender    *)
(* writes sizeof(sbcp_message_t) bytes and every reader asks for as many), *)
(* each holding at most Cap of them, and what the server's end of it has   *)
(* heard of the client's end.  The idle thread of client.c is the subject  *)
(* of ChatClient; its frames travel like those the user types.             *)
(***************************************************************************)
EXTENDS ChatServer, Sequences

CONSTANTS
  Clients,   \* the client processes; each connects at most once
  NameOf,    \* the first argument each of them is started with
  Cap,       \* the frames one direction of a connection can hold
  MaxSays,   \* bound: the lines a user types
  Leavers    \* the clients that may be interrupted or killed

ASSUME ChatConstantsOK ==
  /\ NameOf \in [Clients -> Names]
  /\ Cap \in Nat \ {0}
  /\ MaxSays \in Nat
  /\ Texts = 1 .. MaxSays
  /\ Leavers \subseteq Clients
  /\ "none" \notin Clients

VARIABLES
  cpc,      \* where the main thread of each client is
  says,     \* how many lines each user has typed
  view,     \* what each user has been told of the others, see Told
  backlog,  \* the connections waiting for accept, oldest first
  sock,     \* which client is at the other end of a descriptor of the server
  up,       \* the frames sent to the server and not yet received
  down,     \* the frames sent to the client and not yet received
  peer,     \* what the server's end of the connection has heard
  closed    \* the server has closed the connection

clientVars == <<cpc, says, view, backlog, sock, up, down, peer, closed>>
chatVars   == <<vars, clientVars>>

(* cpc is off: not started; conn: connected, its JOIN not sent; loop: in   *)
(* the main loop; send: a typed line is being sent; gone: no longer        *)
(* running.  peer is up: nothing; fin: the end of the stream; due: the     *)
(* same, and a reset is under way; rst: a reset, not yet reported; dead: a *)
(* reset that has been reported or came after the end of the stream:       *)
(* recv() returns 0 and send() raises SIGPIPE.                             *)

(* What a user who has been told nothing knows.                            *)
NoView == [told |-> FALSE]

ChatInit ==
  /\ Init
  /\ cpc = [c \in Clients |-> "off"]
  /\ says = [c \in Clients |-> 0]
  /\ view = [c \in Clients |-> NoView]
  /\ backlog = <<>>
  /\ sock = [fd \in Fds |-> "none"]
  /\ up = [c \in Clients |-> <<>>]
  /\ down = [c \in Clients |-> <<>>]
  /\ peer = [c \in Clients |-> "up"]
  /\ closed = [c \in Clients |-> FALSE]

-----------------------------------------------------------------------------
(* The client: main of client.c.                                           *)

ServerUp == pc # "exited"

Connect(c) ==
  /\ ServerUp
  /\ cpc[c] = "off"
  /\ cpc' = [cpc EXCEPT ![c] = "conn"]
  /\ backlog' = Append(backlog, c)
  /\ UNCHANGED <<vars, says, view, sock, up, down, peer, closed>>

SendJoin(c) ==
  /\ ServerUp
  /\ cpc[c] = "conn"
  /\ cpc' = [cpc EXCEPT ![c] = "loop"]
  /\ up' = [up EXCEPT ![c] = Append(@, [join |-> NameOf[c]])]
  /\ UNCHANGED <<vars, says, view, backlog, sock, down, peer, closed>>

(* select reports the standard input: the line is read, then sent; the     *)
(* send waits while the stream is full, and nothing is received meanwhile. *)
TypeLine(c) ==
  /\ ServerUp
  /\ cpc[c] = "loop"
  /\ says[c] < MaxSays
  /\ cpc' = [cpc EXCEPT ![c] = "send"]
  /\ says' = [says EXCEPT ![c] = @ + 1]
  /\ UNCHANGED <<vars, view, backlog, sock, up, down, peer, closed>>

SendLine(c) ==
  /\ ServerUp
  /\ cpc[c] = "send"
  /\ ~closed[c]
  /\ Len(up[c]) < Cap
  /\ cpc' = [cpc EXCEPT ![c] = "loop"]
  /\ up' = [up EXCEPT ![c] = Append(@, [text |-> says[c]])]
  /\ UNCHANGED <<vars, says, view, backlog, sock, down, peer, closed>>

(* The server has refused the client: the line is lost, or SIGPIPE ends    *)
(* the client before it has read why.                                      *)
SendRefused(c) ==
  /\ ServerUp
  /\ cpc[c] = "send"
  /\ closed[c]
  /\ \E next \in {"loop", "gone"} : cpc' = [cpc EXCEPT ![c] = next]
  /\ UNCHANGED <<vars, says, view, backlog, sock, up, down, peer, closed>>

(* What a user knows after reading one more frame: the others in the room, *)
(* and the last line seen of each (0: none since it joined; -1: none, and  *)
(* it was there first).                                                    *)
Told(v, m) ==
  CASE m.kind = "ack"    -> [told |-> TRUE, last |-> [n \in m.roster |-> -1]]
    [] m.kind = "joined" -> [v EXCEPT !.last = [n \in DOMAIN v.last \cup {m.name} |->
                               IF n = m.name THEN 0 ELSE v.last[n]]]
    [] m.kind = "left"   -> [v EXCEPT !.last = [n \in DOMAIN v.last \ {m.name} |->
                               v.last[n]]]
    [] m.kind = "said"   -> [v EXCEPT !.last = [n \in DOMAIN v.last |->
                               IF n = m.name THEN m.text ELSE v.last[n]]]
    [] OTHER             -> v

(* select reports the socket: one frame is received and shown; a NAK is    *)
(* the end of the client.                                                  *)
ClientRecv(c) ==
  /\ ServerUp
  /\ cpc[c] = "loop"
  /\ down[c] # <<>>
  /\ down' = [down EXCEPT ![c] = Tail(@)]
  /\ view' = [view EXCEPT ![c] = Told(@, Head(down[c]))]
  /\ cpc' = [cpc EXCEPT ![c] = IF Head(down[c]).kind = "nak" THEN "gone" ELSE @]
  /\ UNCHANGED <<vars, says, backlog, sock, up, peer, closed>>

(* The user interrupts the client.  The kernel sends the end of the        *)
(* stream; with frames not yet read it sends a reset instead, with frames  *)
(* still under way it answers them by a reset.                             *)
Leave(c) ==
  /\ ServerUp
  /\ c \in Leavers
  /\ cpc[c] \in {"conn", "loop", "send"}
  /\ cpc' = [cpc EXCEPT ![c] = "gone"]
  /\ \E heard \in IF down[c] = <<>> THEN {"fin"} ELSE {"rst", "due"} :
       peer' = [peer EXCEPT ![c] = heard]
  /\ down' = [down EXCEPT ![c] = <<>>]
  /\ UNCHANGED <<vars, says, view, backlog, sock, up, closed>>

ResetArrives(c) ==
  /\ ServerUp
  /\ peer[c] = "due"
  /\ peer' = [peer EXCEPT ![c] = "dead"]
  /\ UNCHANGED <<vars, cpc, says, view, backlog, sock, up, down, closed>>

-----------------------------------------------------------------------------
(* The server, its system calls resolved by the state of the connections.  *)

Readable(fd) ==
  IF fd = Listener THEN backlog # <<>>
  ELSE sock[fd] # "none" /\ (up[sock[fd]] # <<>> \/ peer[sock[fd]] # "up")

(* A standard descriptor whose bit set1 held at the start may be reported  *)
(* or not: a terminal is ready when there is input, a file always is.      *)
SrvSelect ==
  /\ \E std \in SUBSET (Watched \cap StdFds) :
       Select({fd \in Watched \ StdFds : Readable(fd)} \cup std)
  /\ UNCHANGED clientVars

SrvScanDone == ScanDone /\ UNCHANGED clientVars

SrvAccept ==
  /\ Accept
  /\ backlog' = Tail(backlog)
  /\ sock' = [sock EXCEPT ![cur'] = Head(backlog)]
  /\ UNCHANGED <<cpc, says, view, up, down, peer, closed>>

(* accept() fails: the process or the system has no descriptor left, or    *)
(* the network reports an error.                                           *)
SrvAcceptFails == AcceptFails /\ UNCHANGED clientVars

Forget(fd) ==
  /\ sock' = [sock EXCEPT ![fd] = "none"]
  /\ closed' = [closed EXCEPT ![sock[fd]] = TRUE]

(* recv() of the JOIN waits for a frame, or for the end of the client; in  *)
(* the second case the name is whatever the buffer holds.                  *)
JoinReads(c, name) ==
  IF up[c] # <<>> THEN name = Head(up[c]).join ELSE peer[c] # "up"

JoinRest(c) == IF up[c] # <<>> THEN Tail(up[c]) ELSE <<>>

(* A frame sent to c, when send() does not fail.  The answer to a JOIN     *)
(* never does: it is the first frame to a client that had nothing unread   *)
(* when it ended, so that no reset can have come before it.                *)
Deliver(c, m) ==
  /\ down' = [down EXCEPT ![c] = IF peer[c] = "up" THEN Append(@, m) ELSE @]
  /\ peer' = [peer EXCEPT ![c] = CASE @ = "fin" -> "due"
                                   [] @ = "rst" -> "dead"
                                   [] OTHER     -> @]

SrvRefuse ==
  \E c \in Clients, name \in Names :
    /\ pc = "join"
    /\ c = sock[cur]
    /\ JoinReads(c, name)
    /\ Refuse(name)
    /\ Deliver(c, [kind |-> "nak"])
    /\ up' = [up EXCEPT ![c] = <<>>]
    /\ Forget(cur)
    /\ UNCHANGED <<cpc, says, view, backlog>>

SrvAdmit ==
  \E c \in Clients, name \in Names :
    /\ pc = "join"
    /\ c = sock[cur]
    /\ JoinReads(c, name)
    /\ Admit(name)
    /\ Deliver(c, [kind |-> "ack", roster |-> {clients[i].name : i \in 0 .. client_count - 1}])
    /\ up' = [up EXCEPT ![c] = JoinRest(c)]
    /\ UNCHANGED <<cpc, says, view, backlog, sock, closed>>

SrvForward(fd) ==
  /\ Turn(fd)
  /\ sock[fd] # "none"
  /\ up[sock[fd]] # <<>>
  /\ \E m \in Forwards : m.kind = "said" /\ m.text = Head(up[sock[fd]]).text /\ Forward(fd, m)
  /\ up' = [up EXCEPT ![sock[fd]] = Tail(@)]
  /\ UNCHANGED <<cpc, says, view, backlog, sock, down, peer, closed>>

SrvHangup(fd) ==
  /\ Turn(fd)
  /\ sock[fd] # "none"
  /\ up[sock[fd]] = <<>>
  /\ peer[sock[fd]] \in {"fin", "due", "dead"}
  /\ Hangup(fd)
  /\ UNCHANGED clientVars

(* recv() returns -1 on a reset connection, once nothing is left to read,  *)
(* and on a standard descriptor, which is no socket.                       *)
SrvRecvFails(fd) ==
  /\ Turn(fd)
  /\ \/ fd \in StdFds
     \/ sock[fd] # "none" /\ up[sock[fd]] = <<>> /\ peer[sock[fd]] = "rst"
  /\ RecvFails(fd)
  /\ UNCHANGED clientVars

(* send() waits while the stream to a living client is full; it never      *)
(* succeeds on a standard descriptor.                                      *)
SrvSendTo(fd) ==
  /\ NextRecipient(fd)
  /\ sock[fd] # "none"
  /\ \/ peer[sock[fd]] = "up" /\ Len(down[sock[fd]]) < Cap
     \/ peer[sock[fd]] \in {"fin", "due"}
  /\ SendTo(fd)
  /\ Deliver(sock[fd], msg)
  /\ UNCHANGED <<cpc, says, view, backlog, sock, up, closed>>

SrvSendFails(fd) ==
  /\ NextRecipient(fd)
  /\ \/ fd \in StdFds
     \/ sock[fd] # "none" /\ peer[sock[fd]] \in {"rst", "dead"}
  /\ SendFails(fd)
  /\ UNCHANGED clientVars

SrvCastDone ==
  /\ CastDone
  /\ IF msg.kind = "left"
     THEN Forget(cur) /\ UNCHANGED <<cpc, says, view, backlog, up, down, peer>>
     ELSE UNCHANGED clientVars

Server ==
  \/ SrvSelect
  \/ SrvScanDone
  \/ SrvAccept
  \/ SrvAcceptFails
  \/ SrvRefuse
  \/ SrvAdmit
  \/ \E fd \in Fds : \/ SrvForward(fd) \/ SrvHangup(fd) \/ SrvRecvFails(fd)
                     \/ SrvSendTo(fd) \/ SrvSendFails(fd)
  \/ SrvCastDone

(* What the program of a client does by itself once it is connected.       *)
ClientStep(c) == SendJoin(c) \/ SendLine(c) \/ SendRefused(c) \/ ClientRecv(c)

User(c) == Connect(c) \/ TypeLine(c) \/ Leave(c)

ChatNext ==
  \/ Server
  \/ \E c \in Clients : ClientStep(c) \/ User(c) \/ ResetArrives(c)

ChatSpec == ChatInit /\ [][ChatNext]_chatVars

(* The processes run when they can; users owe nothing.                     *)
FairChat ==
  /\ ChatSpec
  /\ WF_chatVars(Server)
  /\ \A c \in Clients : WF_chatVars(ClientStep(c))

-----------------------------------------------------------------------------
(* Correctness.                                                            *)

(* The client at the other end of each user of the table.                  *)
At(i) == sock[clients[i].fd]

(* The connections of the table are those of distinct clients that the     *)
(* server has not closed, and a client that still runs is there under the  *)
(* name it asked for: a frame sent to a user reaches that user's program   *)
(* and no other, although descriptors and names are reused.                *)
ConnectionsMatch ==
  pc # "exited" =>
    \A i \in Users :
      /\ At(i) # "none"
      /\ ~closed[At(i)]
      /\ \A j \in Users : i # j => At(i) # At(j)
      /\ peer[At(i)] = "up" => clients[i].name = NameOf[At(i)]

(* What a client will know once it has read every frame sent to it.        *)
ToldAll(v, ms) ==
  LET after[n \in 0 .. Len(ms)] == IF n = 0 THEN v ELSE Told(after[n - 1], ms[n])
  IN  after[Len(ms)]

(* The names the user of cell i should know of: the others in the table,   *)
(* except that the change being broadcast is news to those it has not yet  *)
(* reached.                                                                *)
ShouldKnow(i) ==
  LET others   == {clients[j].name : j \in Users \ {i}}
      informed == clients[i].fd \notin todo
  IN  CASE pc = "cast" /\ msg.kind = "joined" /\ ~informed -> others \ {msg.name}
        [] pc = "cast" /\ msg.kind = "left" /\ informed    -> others \ {msg.name}
        [] OTHER                                           -> others

(* Every user's picture of the room, made of the ACK and the announcements *)
(* sent to it, is the table of the server, whatever joins, leaves, deaths  *)
(* and reuse of names and descriptors came before.                         *)
RosterAgrees ==
  pc # "exited" =>
    \A i \in Users :
      (peer[At(i)] = "up" /\ ~(pc = "cast" /\ msg.kind = "left" /\ clients[i].fd = cur)) =>
        LET v == ToldAll(view[At(i)], down[At(i)])
        IN  v.told /\ DOMAIN v.last = ShouldKnow(i)

(* The next frame always makes sense to the client that reads it: first    *)
(* comes the answer to its JOIN; a user announced as new is unknown; one   *)
(* that speaks or leaves is known; lines of a user come in the order typed *)
(* with none missing or repeated since both are in the room.               *)
HeadMakesSense ==
  \A c \in Clients :
    down[c] # <<>> =>
      LET m == Head(down[c])
          v == view[c]
      IN  IF ~v.told THEN m.kind \in {"ack", "nak"}
          ELSE CASE m.kind = "joined" -> m.name \notin DOMAIN v.last
                 [] m.kind = "left"   -> m.name \in DOMAIN v.last
                 [] m.kind = "said"   -> /\ m.name \in DOMAIN v.last
                                         /\ v.last[m.name] \in {-1, m.text - 1}
                 [] OTHER             -> FALSE

(* A client that sent its JOIN is answered, or is no longer there.         *)
JoinAnswered ==
  \A c \in Clients :
    cpc[c] = "loop" ~> view[c].told \/ cpc[c] = "gone" \/ pc = "exited"

(* A line the user typed leaves the client and is taken by the server.     *)
LineForwarded ==
  \A c \in Clients :
    cpc[c] = "send" ~> \/ cpc[c] = "loop" /\ up[c] = <<>>
                       \/ cpc[c] = "gone"
                       \/ pc = "exited"

(* The descriptor at which a failing call ended the server: a standard one *)
(* (the stale bit of a set1 never zeroed), or that of a client that went   *)
(* away with frames unread, its connection in one of the states heard.     *)
FailedAt(fds, heard) ==
  \E fd \in fds :
    /\ \A g \in fds : fd <= g
    /\ \/ fd \in StdFds
       \/ sock[fd] # "none" /\ cpc[sock[fd]] = "gone" /\ peer[sock[fd]] \in heard

(* What ends the server is one of three things: accept fails; it receives  *)
(* from, or sends to, a standard descriptor left in set1; a recv or a send *)
(* meets the reset of a client that went away with frames unread.  Never   *)
(* is it an answer to a JOIN, a select, a descriptor that was closed or    *)
(* the connection of a client that still runs.                             *)
EndsForACause ==
  pc = "exited" =>
    \/ why = "accept"
    \/ why = "recv" /\ FailedAt(set2, {"rst"})
    \/ why = "send" /\ FailedAt(todo, {"rst", "dead"})
=============================================================================
