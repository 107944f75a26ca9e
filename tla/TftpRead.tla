------------------------------ MODULE TftpRead ------------------------------
(***************************************************************************)
(* A read request: the child of the TFTP server sends the file, block by   *)
(* block, in the RRQ loop of handle_message (helper.c, 275-353).           *)
(***************************************************************************)
EXTENDS TftpLink

VARIABLE
  pos   \* the blocks fread() has read; the last one is short: exit_flag

readVars == <<server, client, stored, network, clocks, pos>>

ReadInit == LinkInit /\ pos = 0

exit_flag == pos = Blocks

(* fread, block_number++, and the first send_data of the block.            *)
SendNext ==
  /\ pos' = pos + 1
  /\ block_number' = (block_number + 1) % Mod
  /\ retry_count' = MAX_RETRIES
  /\ toClient' = Post(toClient, DataMsg(block_number', pos'))
  /\ sclock' = TIMEOUT
  /\ spc' = "wait"

ReadStart ==
  /\ spc = "start"
  /\ SendNext
  /\ UNCHANGED <<client, stored, toServer, losses, dups, prompt, cclock>>

(* Mutant: the number of an ACK is not looked at.                          *)
AcknowledgesAny(m) == m.op = "ack"

Acknowledges(m) == m.op = "ack" /\ m.block = block_number

(* The expected ACK: the next block, or the end.                           *)
AckReceived(i) ==
  /\ ServerTakes(i)
  /\ Acknowledges(toServer[i])
  /\ IF exit_flag
     THEN /\ spc' = "done"
          /\ UNCHANGED <<block_number, retry_count, toClient, sclock, pos>>
     ELSE SendNext
  /\ UNCHANGED <<client, stored, losses, dups, prompt, cclock>>

(* Any other ACK is answered by an ERROR and ends the transfer.            *)
AckRejected(i) ==
  /\ ServerTakes(i)
  /\ toServer[i].op = "ack"
  /\ ~Acknowledges(toServer[i])
  /\ Reject
  /\ UNCHANGED pos

ErrorReceived(i) ==
  /\ ServerTakes(i)
  /\ toServer[i].op = "error"
  /\ spc' = "failed"
  /\ UNCHANGED <<block_number, retry_count, client, stored, toClient, losses, dups, prompt,
                 clocks, pos>>

(* Mutant: the block is sent only once.                                    *)
DataOnce == toClient

DataAgain == Post(toClient, DataMsg(block_number, pos))

(* recvfrom returns EAGAIN: the block is sent again, or the child gives up.*)
ReadTimeout ==
  /\ spc = "wait"
  /\ sclock = 0
  /\ retry_count' = RetryLeft
  /\ IF Exhausted(retry_count')
     THEN spc' = "failed" /\ UNCHANGED <<toClient, sclock>>
     ELSE /\ toClient' = DataAgain
          /\ sclock' = TIMEOUT
          /\ UNCHANGED spc
  /\ UNCHANGED <<block_number, client, stored, toServer, losses, dups, prompt, cclock, pos>>

ReadChild ==
  \/ ReadStart
  \/ ReadTimeout
  \/ \E i \in 1 .. Cap : AckReceived(i) \/ AckRejected(i) \/ ErrorReceived(i)

-----------------------------------------------------------------------------
(* The client: it stores the block it expects and acknowledges it, and     *)
(* acknowledges again the one before; it repeats its last ACK when nothing *)
(* comes, and ends with the ACK of the short block.                        *)

ClientStores(i) ==
  /\ ClientTakes(i)
  /\ LET m == toClient[i] IN
       /\ m.op = "data"
       /\ m.block = (Len(stored) + 1) % Mod
       /\ stored' = Append(stored, m.data)
       /\ toServer' = Post(toServer, AckMsg(m.block))
       /\ cpc' = IF m.data = Blocks THEN "done" ELSE "run"
  /\ cretry' = ClientRetries
  /\ cclock' = ClientTimeout
  /\ UNCHANGED <<server, losses, dups, prompt, sclock, pos>>

ReaderIgnores(i) ==
  /\ ClientTakes(i)
  /\ toClient[i].op = "data"
  /\ toClient[i].block # (Len(stored) + 1) % Mod
  /\ IF toClient[i].block = Len(stored) % Mod
     THEN toServer' = Post(toServer, AckMsg(toClient[i].block))
     ELSE UNCHANGED toServer
  /\ cclock' = ClientTimeout
  /\ UNCHANGED <<server, client, stored, losses, dups, prompt, sclock, pos>>

ReaderRepeats ==
  /\ cpc = "run"
  /\ cclock = 0
  /\ cretry' = cretry - 1
  /\ IF cretry' = 0
     THEN cpc' = "failed" /\ UNCHANGED <<toServer, cclock>>
     ELSE /\ toServer' = IF stored = <<>> THEN toServer
                         ELSE Post(toServer, AckMsg(Len(stored) % Mod))
          /\ cclock' = ClientTimeout
          /\ UNCHANGED cpc
  /\ UNCHANGED <<server, stored, toClient, losses, dups, prompt, sclock, pos>>

ReadClient ==
  \/ ReaderRepeats
  \/ \E i \in 1 .. Cap : ClientStores(i) \/ ReaderIgnores(i)

ReadNext ==
  \/ ReadChild
  \/ ReadClient
  \/ Environment /\ UNCHANGED pos

ReadSpec == ReadInit /\ [][ReadNext]_readVars

(* Both programs run, time passes, and what is sent and not lost arrives.  *)
FairRead ==
  /\ ReadSpec
  /\ WF_readVars(ReadChild)
  /\ WF_readVars(ReadClient)
  /\ WF_readVars(\E i \in 1 .. Cap : ClientRefused(i) /\ UNCHANGED pos)
  /\ WF_readVars(Unheard /\ UNCHANGED pos)
  /\ WF_readVars(Tick /\ UNCHANGED pos)

-----------------------------------------------------------------------------
(* Correctness.                                                            *)

ReadAbstract == INSTANCE FileTransfer WITH
  got <- stored, sender <- Status(spc), receiver <- Status(cpc)

(* Whatever the network loses, repeats or delays, the client stores the    *)
(* blocks of the file in order, and the server reports success only when   *)
(* the client has them all: 16-bit block numbers that wrap around are      *)
(* enough for it.                                                          *)
ReadTransfers == ReadAbstract!Transfer

(* A child of the server always ends, also when its client has died.       *)
ReadEnds == <>(spc \in {"done", "failed"})

(* The client gets the whole file, when the network duplicates nothing, is *)
(* faster than the timeouts, and loses one datagram at most: the timeout   *)
(* of the server, the shorter one, repairs the loss.                       *)
ReadArrives ==
  prompt => <>(cpc \in {"done", "aborted", "dead"} \/ dups > 0 \/ losses > 1)
=============================================================================
