---------------------------- MODULE FileTransfer ----------------------------
(***************************************************************************)
(* What a TFTP transfer promises, whichever side sends: the receiver gets  *)
(* the blocks of the file in order, each once, and the sender believes the *)
(* transfer complete only when it is.  Either side may give up instead.    *)
(***************************************************************************)
EXTENDS Naturals, Sequences

CONSTANT Blocks   \* the blocks of the file, the short last one included

VARIABLES
  got,       \* the blocks the receiver has stored, by their place in the file
  sender,    \* "run", "done" or "failed"
  receiver

ftVars == <<got, sender, receiver>>

FTInit == got = <<>> /\ sender = "run" /\ receiver = "run"

Store ==
  /\ receiver = "run"
  /\ Len(got) < Blocks
  /\ got' = Append(got, Len(got) + 1)
  /\ receiver' = IF Len(got') = Blocks THEN "done" ELSE "run"
  /\ UNCHANGED sender

SenderDone ==
  /\ sender = "run"
  /\ receiver = "done"
  /\ sender' = "done"
  /\ UNCHANGED <<got, receiver>>

SenderFails   == sender = "run" /\ sender' = "failed" /\ UNCHANGED <<got, receiver>>
ReceiverFails == receiver = "run" /\ receiver' = "failed" /\ UNCHANGED <<got, sender>>

FTNext == Store \/ SenderDone \/ SenderFails \/ ReceiverFails

Transfer == FTInit /\ [][FTNext]_ftVars
=============================================================================
