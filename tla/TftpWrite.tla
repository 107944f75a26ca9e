----------------------------- MODULE TftpWrite ------------------------------
(***************************************************************************)
(* A write request: the child of the TFTP server stores what the client    *)
(* sends, in the WRQ loop of handle_message (helper.c, 355-455).           *)
(***************************************************************************)
EXTENDS TftpLink

CONSTANTS
  DiskBlocks,   \* the blocks for which the disk has room
  Eager         \* TRUE: the client repeats its block when the ACK of the one
                \* before is repeated, as the BSD program does; FALSE: it does
                \* not, as RFC 1123 demands

ASSUME WriteConstantsOK == DiskBlocks \in Nat /\ Eager \in BOOLEAN

VARIABLE
  sent   \* the block the client is sending; 0: it awaits the ACK of its request

writeVars == <<server, client, stored, network, clocks, sent>>

WriteInit == LinkInit /\ sent = 0

(* The ACK of the request.                                                 *)
WriteStart ==
  /\ spc = "start"
  /\ spc' = "wait"
  /\ toClient' = Post(toClient, AckMsg(block_number))
  /\ sclock' = TIMEOUT
  /\ UNCHANGED <<block_number, retry_count, client, stored, toServer, losses, dups, prompt,
                 cclock, sent>>

(* Mutant: the number of a block is not looked at.                         *)
InAnyTurn(m) == m.op = "data"

InTurn(m) == m.op = "data" /\ m.block = (block_number + 1) % Mod

(* The next block: it is written (a short fwrite goes unnoticed: its       *)
(* unsigned result is never below 0) and acknowledged; a short one is the  *)
(* last.                                                                   *)
DataReceived(i) ==
  /\ ServerTakes(i)
  /\ LET m == toServer[i] IN
       /\ InTurn(m)
       /\ stored' = IF Len(stored) < DiskBlocks THEN Append(stored, m.data) ELSE stored
       /\ block_number' = m.block
       /\ toClient' = Post(toClient, AckMsg(m.block))
       /\ spc' = IF m.data = Blocks THEN "done" ELSE "wait"
  /\ retry_count' = MAX_RETRIES
  /\ sclock' = TIMEOUT
  /\ UNCHANGED <<client, losses, dups, prompt, cclock, sent>>

(* Anything else is answered by an ERROR and ends the transfer: a block    *)
(* out of turn, a repeated one included, and an ERROR of the client, which *)
(* the test that should recognise it (430) is too late to see.             *)
DataRejected(i) ==
  /\ ServerTakes(i)
  /\ ~InTurn(toServer[i])
  /\ Reject
  /\ UNCHANGED sent

(* Mutant: the ACK is sent only once.                                      *)
AckOnce == toClient

AckAgain == Post(toClient, AckMsg(block_number))

(* recvfrom returns EAGAIN: the last ACK is sent again, then the child     *)
(* gives up.                                                               *)
WriteTimeout ==
  /\ spc = "wait"
  /\ sclock = 0
  /\ retry_count' = RetryLeft
  /\ toClient' = AckAgain
  /\ IF Exhausted(retry_count')
     THEN spc' = "failed" /\ UNCHANGED sclock
     ELSE sclock' = TIMEOUT /\ UNCHANGED spc
  /\ UNCHANGED <<block_number, client, stored, toServer, losses, dups, prompt, cclock, sent>>

WriteChild ==
  \/ WriteStart
  \/ WriteTimeout
  \/ \E i \in 1 .. Cap : DataReceived(i) \/ DataRejected(i)

-----------------------------------------------------------------------------
(* The client: it sends a block until that block is acknowledged.          *)

ClientAcked(i) ==
  /\ ClientTakes(i)
  /\ toClient[i].op = "ack"
  /\ toClient[i].block = sent % Mod
  /\ IF sent = Blocks
     THEN cpc' = "done" /\ UNCHANGED <<sent, toServer>>
     ELSE /\ sent' = sent + 1
          /\ toServer' = Post(toServer, DataMsg(sent' % Mod, sent'))
          /\ UNCHANGED cpc
  /\ cretry' = ClientRetries
  /\ cclock' = ClientTimeout
  /\ UNCHANGED <<server, stored, losses, dups, prompt, sclock>>

WriterIgnores(i) ==
  /\ ClientTakes(i)
  /\ toClient[i].op = "ack"
  /\ toClient[i].block # sent % Mod
  /\ IF Eager /\ sent > 0 /\ toClient[i].block = (sent - 1) % Mod
     THEN toServer' = Post(toServer, DataMsg(sent % Mod, sent))
     ELSE UNCHANGED toServer
  /\ cclock' = ClientTimeout
  /\ UNCHANGED <<server, client, stored, losses, dups, prompt, sclock, sent>>

WriterRepeats ==
  /\ cpc = "run"
  /\ cclock = 0
  /\ cretry' = cretry - 1
  /\ IF cretry' = 0
     THEN cpc' = "failed" /\ UNCHANGED <<toServer, cclock>>
     ELSE /\ toServer' = IF sent = 0 THEN toServer ELSE Post(toServer, DataMsg(sent % Mod, sent))
          /\ cclock' = ClientTimeout
          /\ UNCHANGED cpc
  /\ UNCHANGED <<server, stored, toClient, losses, dups, prompt, sclock, sent>>

WriteClient ==
  \/ WriterRepeats
  \/ \E i \in 1 .. Cap : ClientAcked(i) \/ WriterIgnores(i)

WriteNext ==
  \/ WriteChild
  \/ WriteClient
  \/ Environment /\ UNCHANGED sent

WriteSpec == WriteInit /\ [][WriteNext]_writeVars

(* Both programs run, time passes, and what is sent and not lost arrives.  *)
FairWrite ==
  /\ WriteSpec
  /\ WF_writeVars(WriteChild)
  /\ WF_writeVars(WriteClient)
  /\ WF_writeVars(\E i \in 1 .. Cap : ClientRefused(i) /\ UNCHANGED sent)
  /\ WF_writeVars(Unheard /\ UNCHANGED sent)
  /\ WF_writeVars(Tick /\ UNCHANGED sent)

-----------------------------------------------------------------------------
(* Correctness.                                                            *)

WriteAbstract == INSTANCE FileTransfer WITH
  got <- stored, sender <- Status(cpc), receiver <- Status(spc)

(* Whatever the network loses, repeats or delays, the server stores the    *)
(* blocks of the client's file in order and without repetition, and the    *)
(* client reports success only when the file is complete (while the disk   *)
(* has room for it).                                                       *)
WriteTransfers == WriteAbstract!Transfer

(* A child of the server always ends, also when its client has died.       *)
WriteEnds == <>(spc \in {"done", "failed"})

(* The server gets the whole file, when the network duplicates nothing, is *)
(* faster than the timeouts, and loses one datagram at most.               *)
WriteArrives ==
  prompt => <>(spc = "done" \/ cpc \in {"aborted", "dead"} \/ dups > 0 \/ losses > 1)
=============================================================================
