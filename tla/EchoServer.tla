----------------------------- MODULE EchoServer -----------------------------
(***************************************************************************)
(* The echo server and its clients (Programming_Assignment_1): a process   *)
(* forked for each connection reads a line and writes it back; a client    *)
(* takes a line of its input, writes it and reads the echo.                *)
(*                                                                         *)
(* A character is its position in the input of its client, of which it     *)
(* matters only where the newlines are.  TCP is external: two streams of   *)
(* bounded capacity, which take as much of a write as they have room for.  *)
(***************************************************************************)
EXTENDS Children, Sequences

CONSTANTS
  Clients,
  Inputs,  \* what each client is given: for each character, is it a newline?
  B,       \* BUFFER_SIZE, 20 in the code
  Cap,     \* the room of a stream
  NoConn   \* accept's -1, and the child that is forked for it

ASSUME EchoConstantsOK ==
  /\ NoConn \notin Clients /\ Kids = Clients \cup {NoConn}
  /\ B \in Nat \ {0, 1} /\ Cap \in Nat \ {0}
  /\ Inputs \in [Clients -> Seq(BOOLEAN)]

VARIABLES
  typed,            \* the clients: how much of their input they have taken,
  line, cbuf, cpc,  \* acSendData, the rest of it or the echo so far, where they are
  up, down, reset,  \* the connections, and those with a reset under way
  kbuf, kpc,        \* the children: their buffer; "none", "read", "write", "refused"
  spc, conn         \* the parent: "accept", "fork", "install"; connect_fd

cvars == <<typed, line, cbuf, cpc>>
tvars == <<up, down, reset>>
svars == <<kbuf, kpc>>
evars == <<cvars, tvars, svars, spc, conn, kvars>>

EchoInit ==
  /\ typed = [c \in Clients |-> 0]
  /\ line = [c \in Clients |-> <<>>] /\ cbuf = line
  /\ cpc = [c \in Clients |-> "new"]   \* "new", "prompt", "write", "read", "gone"
  /\ up = line /\ down = line
  /\ reset = [c \in Clients |-> FALSE]
  /\ kbuf = line /\ kpc = [c \in Clients |-> "none"]
  /\ spc = "accept" /\ conn = NoConn
  /\ ChildrenInit /\ installed = FALSE

Newline(c, i) == Inputs[c][i]

(* fgets has filled acSendData: a newline, or B - 1 characters.            *)
Filled(c, buf) == buf # <<>> /\ (Newline(c, buf[Len(buf)]) \/ Len(buf) = B - 1)

(* Mutant: the buffer is thought one larger.                               *)
LineFull(c, buf) == buf # <<>> /\ (Newline(c, buf[Len(buf)]) \/ Len(buf) = B)

(* iReadLine is done with a line, in the client and in the child.          *)
LineRead(c, buf) == buf # <<>> /\ (Newline(c, buf[Len(buf)]) \/ Len(buf) = B - 1)

(* Mutant: writen does not move on in its buffer.                          *)
SameBuffer(buf, n) == SubSeq(buf, 1, Len(buf) - n)

(* What writen has left after a write of n.                                *)
Rest(buf, n) == SubSeq(buf, n + 1, Len(buf))

(* How much of a buffer one write may take.                                *)
Taken(buf, stream) == {n \in 1 .. Len(buf) : n <= Cap - Len(stream)}

-----------------------------------------------------------------------------
(* A client.                                                               *)

ClientMoves(c, pc) == cpc' = [cpc EXCEPT ![c] = pc]

(* The kernel completes the connection, before accept.                     *)
Connect(c) ==
  /\ cpc[c] = "new" /\ ClientMoves(c, "prompt")
  /\ UNCHANGED <<typed, line, cbuf, tvars, svars, spc, conn, kvars>>

(* fgets: up to the first place where it is filled, or the end of the input. *)
Type(c) ==
  /\ cpc[c] = "prompt" /\ typed[c] < Len(Inputs[c])
  /\ \E n \in typed[c] + 1 .. Len(Inputs[c]) :
       LET taken == [i \in 1 .. n - typed[c] |-> typed[c] + i]
       IN  /\ Filled(c, taken) \/ n = Len(Inputs[c])
           /\ \A k \in 1 .. Len(taken) - 1 : ~ Filled(c, SubSeq(taken, 1, k))
           /\ line' = [line EXCEPT ![c] = taken]
           /\ cbuf' = [cbuf EXCEPT ![c] = taken]
           /\ typed' = [typed EXCEPT ![c] = n]
  /\ ClientMoves(c, "write")
  /\ UNCHANGED <<tvars, svars, spc, conn, kvars>>

(* The end of the input: close and exit.                                   *)
Leave(c) ==
  /\ cpc[c] = "prompt" /\ typed[c] = Len(Inputs[c])
  /\ ClientMoves(c, "gone")
  /\ UNCHANGED <<typed, line, cbuf, tvars, svars, spc, conn, kvars>>

(* One write of writen; the last one begins iReadLine.                     *)
Write(c) ==
  /\ cpc[c] = "write" /\ kpc[c] # "refused"
  /\ \E n \in Taken(cbuf[c], up[c]) :
       /\ up' = [up EXCEPT ![c] = @ \o SubSeq(cbuf[c], 1, n)]
       /\ cbuf' = [cbuf EXCEPT ![c] = Rest(@, n)]
       /\ ClientMoves(c, IF n = Len(cbuf[c]) THEN "read" ELSE "write")
  /\ UNCHANGED <<typed, line, down, reset, svars, spc, conn, kvars>>

ReadEcho(c) ==
  /\ cpc[c] = "read" /\ down[c] # <<>>
  /\ down' = [down EXCEPT ![c] = Tail(@)]
  /\ LET buf == Append(cbuf[c], Head(down[c]))
     IN  /\ cbuf' = [cbuf EXCEPT ![c] = buf]
         /\ ClientMoves(c, IF LineRead(c, buf) THEN "prompt" ELSE "read")
  /\ UNCHANGED <<typed, line, up, reset, svars, spc, conn, kvars>>

(* The parent has closed the connection: a line goes nowhere or ends the   *)
(* client, and reading finds the end of the stream or the reset.           *)
Refused(c) ==
  /\ kpc[c] = "refused"
  /\ \/ cpc[c] = "write" /\ ClientMoves(c, "read") /\ cbuf' = [cbuf EXCEPT ![c] = <<>>]
     \/ cpc[c] = "read" /\ ClientMoves(c, "prompt") /\ UNCHANGED cbuf
     \/ cpc[c] \in {"write", "read"} /\ ClientMoves(c, "gone") /\ UNCHANGED cbuf
  /\ UNCHANGED <<typed, line, tvars, svars, spc, conn, kvars>>

(* A client that is killed with an unread echo leaves a reset behind.      *)
Kill(c) ==
  /\ cpc[c] \in {"prompt", "write", "read"} /\ ClientMoves(c, "gone")
  /\ reset' = [reset EXCEPT ![c] = down[c] # <<>>]
  /\ UNCHANGED <<typed, line, cbuf, up, down, svars, spc, conn, kvars>>

-----------------------------------------------------------------------------
(* The parent, which stands still while the handler runs.                  *)

Parent(pc) == spc = pc /\ ~ handling /\ UNCHANGED <<cvars, tvars>>

Accept(c) ==
  /\ Parent("accept")
  /\ cpc[c] # "new" /\ kpc[c] = "none"
  /\ spc' = "fork" /\ conn' = c
  /\ UNCHANGED <<svars, kvars>>

(* -1 is said and forked for all the same.                                 *)
AcceptFails ==
  /\ Parent("accept")
  /\ spc' = "fork" /\ conn' = NoConn
  /\ UNCHANGED <<svars, kvars>>

(* The child of NoConn, whose reads fail, runs round and never ends.       *)
Fork ==
  /\ Parent("fork")
  /\ Born(conn)
  /\ kpc' = IF conn = NoConn THEN kpc ELSE [kpc EXCEPT ![conn] = "read"]
  /\ spc' = "install"
  /\ UNCHANGED <<conn, kbuf>>

(* fork fails: the parent's branch closes the only descriptor there is.    *)
ForkFails ==
  /\ Parent("fork")
  /\ kpc' = IF conn = NoConn THEN kpc ELSE [kpc EXCEPT ![conn] = "refused"]
  /\ spc' = "install"
  /\ UNCHANGED <<conn, kbuf, kvars>>

(* signal and close, after the fork.                                       *)
InstallHandler ==
  /\ Parent("install")
  /\ Install
  /\ spc' = "accept" /\ conn' = NoConn
  /\ UNCHANGED svars

HandlerRuns == Handler /\ UNCHANGED <<cvars, tvars, svars, spc, conn>>

-----------------------------------------------------------------------------
(* A child: read_write.                                                    *)

(* Mutants: a line that is only a newline is taken for the end; the end is *)
(* taken for -1.                                                           *)
EmptyLine(buf) == Len(buf) <= 1
NeverNothing(buf) == Len(buf) < 0

Nothing(buf) == Len(buf) = 0

(* iReadLine returns: its line is written back, and nothing is the end.    *)
LineReturned(c, buf) ==
  IF Nothing(buf)
  THEN Ends(c) /\ UNCHANGED kpc
  ELSE kpc' = [kpc EXCEPT ![c] = "write"] /\ UNCHANGED kvars

ReadChar(c) ==
  /\ kid[c] = "alive" /\ kpc[c] = "read" /\ up[c] # <<>>
  /\ up' = [up EXCEPT ![c] = Tail(@)]
  /\ LET buf == Append(kbuf[c], Head(up[c]))
     IN  /\ kbuf' = [kbuf EXCEPT ![c] = buf]
         /\ IF LineRead(c, buf) THEN LineReturned(c, buf) ELSE UNCHANGED <<kpc, kvars>>
  /\ UNCHANGED <<cvars, down, reset, spc, conn>>

(* At the end of the stream what was read counts as a line.                *)
ReadEof(c) ==
  /\ kid[c] = "alive" /\ kpc[c] = "read" /\ up[c] = <<>> /\ cpc[c] = "gone"
  /\ LineReturned(c, kbuf[c])
  /\ UNCHANGED <<cvars, tvars, kbuf, spc, conn>>

(* The reset is reported once: -1, which writen writes nothing of, and     *)
(* then the end of the stream.                                             *)
ReadReset(c) ==
  /\ kid[c] = "alive" /\ kpc[c] = "read" /\ reset[c]
  /\ up' = [up EXCEPT ![c] = <<>>]
  /\ reset' = [reset EXCEPT ![c] = FALSE]
  /\ kbuf' = [kbuf EXCEPT ![c] = <<>>]
  /\ UNCHANGED <<cvars, down, kpc, spc, conn, kvars>>

WriteBack(c) ==
  /\ kid[c] = "alive" /\ kpc[c] = "write" /\ cpc[c] # "gone"
  /\ \E n \in Taken(kbuf[c], down[c]) :
       /\ down' = [down EXCEPT ![c] = @ \o SubSeq(kbuf[c], 1, n)]
       /\ kbuf' = [kbuf EXCEPT ![c] = Rest(@, n)]
       /\ kpc' = [kpc EXCEPT ![c] = IF n = Len(kbuf[c]) THEN "read" ELSE "write"]
  /\ UNCHANGED <<cvars, up, reset, spc, conn, kvars>>

(* A write to a client that has gone brings a reset, or meets it: SIGPIPE. *)
WriteToGone(c) ==
  /\ kid[c] = "alive" /\ kpc[c] = "write" /\ cpc[c] = "gone"
  /\ \/ /\ kbuf' = [kbuf EXCEPT ![c] = <<>>]
        /\ kpc' = [kpc EXCEPT ![c] = "read"]
        /\ reset' = [reset EXCEPT ![c] = TRUE]
        /\ UNCHANGED kvars
     \/ Ends(c) /\ UNCHANGED <<kbuf, kpc, reset>>
  /\ UNCHANGED <<cvars, up, down, spc, conn>>

Child(c) == ReadChar(c) \/ ReadEof(c) \/ ReadReset(c) \/ WriteBack(c) \/ WriteToGone(c)

Client(c) == Type(c) \/ Leave(c) \/ Write(c) \/ ReadEcho(c) \/ Refused(c)

EchoNext ==
  \/ \E c \in Clients : Connect(c) \/ Client(c) \/ Kill(c) \/ Accept(c) \/ Child(c)
  \/ AcceptFails \/ Fork \/ ForkFails \/ InstallHandler
  \/ HandlerRuns

EchoSpec == EchoInit /\ [][EchoNext]_evars

(* Processes run, signals are delivered, accept does not fail for ever.    *)
EchoLiveSpec ==
  /\ EchoSpec
  /\ \A c \in Clients : WF_evars(Client(c)) /\ WF_evars(Child(c)) /\ SF_evars(Accept(c))
  /\ WF_evars(Fork \/ ForkFails) /\ WF_evars(InstallHandler)
  /\ WF_evars(HandlerRuns)
-----------------------------------------------------------------------------
(* Correctness.                                                            *)

(* What a client has written and not yet read comes back unchanged: the    *)
(* pieces in the two streams and the two buffers are its line, in order    *)
(* and once, however writes and reads are cut; and back at its prompt it   *)
(* has its line, all of it and nothing of another.                         *)
EchoFaithful ==
  \A c \in Clients :
    kpc[c] # "refused" =>
      CASE cpc[c] = "write"  -> kbuf[c] \o up[c] \o cbuf[c] = line[c] /\ down[c] = <<>>
        [] cpc[c] = "read"   -> cbuf[c] \o down[c] \o kbuf[c] \o up[c] = line[c]
        [] cpc[c] = "prompt" -> cbuf[c] = line[c] /\ down[c] \o kbuf[c] \o up[c] = <<>>
        [] OTHER -> TRUE

(* A child ends only after its client, not at the end of a line or of a    *)
(* failed call.                                                            *)
ChildFollowsClient ==
  \A c \in Clients : kid[c] \in {"zombie", "reaped"} => cpc[c] = "gone"

(* A whole line (with its newline, or of B - 1 characters) is echoed, also *)
(* while other clients say nothing, are killed, or end in the middle of a  *)
(* line; only if fork fails is the client turned away.                     *)
EchoAnswered ==
  \A c \in Clients :
    cpc[c] = "write" /\ Filled(c, line[c]) ~> cpc[c] \in {"prompt", "gone"}

(* After its client a child ends.                                          *)
ConnectionCloses ==
  \A c \in Clients : cpc[c] = "gone" /\ kid[c] = "alive" ~> kid[c] # "alive"

(* "whatever the client sends to the server is echoed back" (README): also *)
(* a last line without a newline.                                          *)
LastLineEchoed ==
  \A c \in Clients : cpc[c] = "write" ~> cpc[c] \in {"prompt", "gone"}
=============================================================================
