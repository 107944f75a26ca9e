------------------------------ MODULE TftpLink ------------------------------
(***************************************************************************)
(* What the two transfer loops of handle_message (Programming_Assignment_3 *)
(* /src/helper.c) have in common: datagrams between the child process that *)
(* serves a request and its client, the clocks behind the two receive      *)
(* timeouts, and the client's own state.  The client is not part of the    *)
(* repository (README.md, 55: "sudo apt-get install tftp"); it is modelled *)
(* as RFC 1350 and that program have it.                                   *)
(***************************************************************************)
EXTENDS Naturals, SequencesExt

CONSTANTS
  Blocks,         \* the blocks of the file, the short last one included
  Mod,            \* block numbers are taken modulo this: 2^16 in the code
  TIMEOUT,        \* seconds the server waits for a datagram
  MAX_RETRIES,    \* how often it does so for one block
  ClientTimeout,  \* the same of the client
  ClientRetries,
  Cap,            \* bound: datagrams under way in one direction
  Reorder,        \* bound: how many later datagrams may overtake one
  MaxLosses,      \* bound: datagrams the network loses
  MaxDups,        \* bound: datagrams the network duplicates
  Paces,          \* the values prompt may have
  Faults          \* what may become of the client: "aborted", "dead"

ASSUME LinkConstantsOK ==
  /\ {Blocks, TIMEOUT, MAX_RETRIES, ClientTimeout, ClientRetries, Cap} \subseteq Nat \ {0}
  /\ Mod \in Nat \ {0, 1}
  /\ {Reorder, MaxLosses, MaxDups} \subseteq Nat
  /\ Paces \subseteq BOOLEAN
  /\ Faults \subseteq {"aborted", "dead"}

(* A datagram is not overtaken by as many others as there are numbers for  *)
(* blocks, 65536 in the code: otherwise its number could come to mean      *)
(* another block while it is under way.                                    *)
ASSUME NumbersSuffice == Reorder + 1 < Mod

VARIABLES
  spc,           \* the child: "start", "wait", "done" or "failed"
  block_number,  \* block_number
  retry_count,   \* retry_count
  cpc,           \* the client: "run", "done", "failed", "aborted" or "dead"
  cretry,        \* the attempts the client has left
  stored,        \* the blocks in the receiver's file
  toServer,      \* the datagrams under way, oldest first
  toClient,
  losses, dups,  \* how many were lost and duplicated
  prompt,        \* TRUE: datagrams arrive before the clocks advance
  sclock,        \* seconds until recvfrom() of the child returns EAGAIN
  cclock         \* seconds until the client loses patience

server  == <<spc, block_number, retry_count>>
client  == <<cpc, cretry>>
network == <<toServer, toClient, losses, dups, prompt>>
clocks  == <<sclock, cclock>>

LinkInit ==
  /\ spc = "start"
  /\ block_number = 0
  /\ retry_count = MAX_RETRIES
  /\ cpc = "run"
  /\ cretry = ClientRetries
  /\ stored = <<>>
  /\ toServer = <<>>
  /\ toClient = <<>>
  /\ losses = 0
  /\ dups = 0
  /\ prompt \in Paces
  /\ sclock = TIMEOUT
  /\ cclock = ClientTimeout

(* send_data, send_ack and send_error_message.                             *)
DataMsg(block, index) == [op |-> "data", block |-> block, data |-> index, over |-> 0]
AckMsg(block)         == [op |-> "ack", block |-> block, over |-> 0]
ErrorMsg              == [op |-> "error", block |-> 0, over |-> 0]

(* sendto() never waits: what finds no room is lost.                       *)
Post(channel, m) == IF Len(channel) < Cap THEN Append(channel, m) ELSE channel

(* The datagrams that may arrive next, and what is left when one has: the  *)
(* older ones have been overtaken once more.                               *)
Arriving(channel) == {i \in DOMAIN channel : \A j \in 1 .. i - 1 : channel[j].over < Reorder}

Without(channel, i) ==
  RemoveAt([j \in DOMAIN channel |-> IF j < i THEN [channel[j] EXCEPT !.over = @ + 1]
                                             ELSE channel[j]], i)

(* Mutant: the counter is reset within the loop.                           *)
RetryReset == MAX_RETRIES

(* retry_count--.                                                          *)
RetryLeft == retry_count - 1

(* The end of the loop while (retry_count).                                *)
Exhausted(n) == n = 0

(* receive_message(), when a datagram is there.                            *)
ServerTakes(i) ==
  /\ spc = "wait"
  /\ sclock > 0
  /\ i \in Arriving(toServer)
  /\ toServer' = Without(toServer, i)

ClientTakes(i) ==
  /\ cpc = "run"
  /\ i \in Arriving(toClient)
  /\ toClient' = Without(toClient, i)

(* The child ends by an error it reports to the client.                    *)
Reject ==
  /\ spc' = "failed"
  /\ toClient' = Post(toClient, ErrorMsg)
  /\ UNCHANGED <<block_number, retry_count, stored, client, losses, dups, prompt, clocks>>

(* How a side stands, for the abstract transfer (ret of handle_message).   *)
Status(pcValue) ==
  CASE pcValue \in {"start", "wait", "run"} -> "run"
    [] pcValue = "done"                     -> "done"
    [] OTHER                                -> "failed"

-----------------------------------------------------------------------------
(* The client ends: on an ERROR; by giving up with an ERROR; by dying.     *)
ClientRefused(i) ==
  /\ ClientTakes(i)
  /\ toClient[i].op = "error"
  /\ cpc' = "failed"
  /\ UNCHANGED <<server, cretry, stored, toServer, losses, dups, prompt, clocks>>

ClientGivesUp ==
  /\ "aborted" \in Faults
  /\ cpc = "run"
  /\ cpc' = "aborted"
  /\ toServer' = Post(toServer, ErrorMsg)
  /\ UNCHANGED <<server, cretry, stored, toClient, losses, dups, prompt, clocks>>

ClientDies ==
  /\ "dead" \in Faults
  /\ cpc = "run"
  /\ cpc' = "dead"
  /\ UNCHANGED <<server, cretry, stored, network, clocks>>

-----------------------------------------------------------------------------
(* The network, and time.                                                  *)

Lose ==
  /\ losses < MaxLosses
  /\ losses' = losses + 1
  /\ \/ /\ \E i \in DOMAIN toServer : toServer' = RemoveAt(toServer, i)
        /\ UNCHANGED toClient
     \/ /\ \E i \in DOMAIN toClient : toClient' = RemoveAt(toClient, i)
        /\ UNCHANGED toServer
  /\ UNCHANGED <<server, client, stored, dups, prompt, clocks>>

Duplicate ==
  /\ dups < MaxDups
  /\ dups' = dups + 1
  /\ \/ /\ toServer # <<>> /\ Len(toServer) < Cap
        /\ toServer' = <<Head(toServer)>> \o toServer
        /\ UNCHANGED toClient
     \/ /\ toClient # <<>> /\ Len(toClient) < Cap
        /\ toClient' = <<Head(toClient)>> \o toClient
        /\ UNCHANGED toServer
  /\ UNCHANGED <<server, client, stored, losses, prompt, clocks>>

(* Datagrams to a side that has ended go nowhere.                          *)
Unheard ==
  /\ \/ /\ spc \in {"done", "failed"} /\ toServer # <<>>
        /\ toServer' = <<>>
        /\ UNCHANGED toClient
     \/ /\ cpc # "run" /\ toClient # <<>>
        /\ toClient' = <<>>
        /\ UNCHANGED toServer
  /\ UNCHANGED <<server, client, stored, losses, dups, prompt, clocks>>

Expiring(clock, waits) == waits /\ clock = 0

(* One second; a timeout that is due comes first.                          *)
Tick ==
  /\ spc = "wait" \/ cpc = "run"
  /\ spc # "start"
  /\ ~Expiring(sclock, spc = "wait")
  /\ ~Expiring(cclock, cpc = "run")
  /\ prompt => toServer = <<>> /\ toClient = <<>>
  /\ sclock' = IF spc = "wait" THEN sclock - 1 ELSE sclock
  /\ cclock' = IF cpc = "run" THEN cclock - 1 ELSE cclock
  /\ UNCHANGED <<server, client, stored, network>>

Environment ==
  \/ \E i \in 1 .. Cap : ClientRefused(i)
  \/ ClientGivesUp
  \/ ClientDies
  \/ Lose
  \/ Duplicate
  \/ Unheard
  \/ Tick
=============================================================================
