----------------------------- MODULE ChatClient -----------------------------
(***************************************************************************)
(* The two threads of one SBCP client (Programming_Assignment_2, client.c) *)
(* once its JOIN is sent: the main loop, which sends the lines the user    *)
(* types, and vSendIdleMessage, which reports a silent user.  They share   *)
(* the flag isIdleMessageSent, a condition variable and the socket.        *)
(*                                                                         *)
(* Both critical sections are single steps: ready_mutex keeps them apart,  *)
(* and everything the threads do outside of it is a step of its own.       *)
(***************************************************************************)
EXTENDS Integers, Sequences, FiniteSets

CONSTANTS
  IDLE_WAIT_TIME,  \* seconds of silence after which the user is idle
  Horizon,         \* bound: the last second that is modelled
  MaxLines,        \* bound: the lines the user types
  Paces,           \* the values prompt may have
  Spurious,        \* TRUE: the wait may end without a signal, as POSIX allows
  NsecValid        \* the values valid may have

ASSUME ClientConstantsOK ==
  /\ IDLE_WAIT_TIME \in Nat \ {0}
  /\ Horizon \in Nat
  /\ MaxLines \in Nat
  /\ Paces \subseteq BOOLEAN
  /\ Spurious \in BOOLEAN
  /\ NsecValid \subseteq BOOLEAN

VARIABLES
  mpc,                \* the main thread: "loop" or "send"
  ipc,                \* the idle thread: see IdlePCs
  isIdleMessageSent,  \* isIdleMessageSent
  deadline,           \* t.tv_sec
  valid,              \* what the stack held for t.tv_nsec is below 10^9
  now,                \* time()
  prompt,             \* TRUE: a thread that can run does so within the second
  typed,              \* how many lines the user has typed
  decided,            \* history: the lines typed when the flag was last set
  wire                \* history: the frames sent, see Sent

clientVars ==
  <<mpc, ipc, isIdleMessageSent, deadline, valid, prompt, now, typed, decided, wire>>

(* time: about to call time(); lock: about to wait; waiting; woken: by a   *)
(* signal; check: timed out, about to test the flag; set: it was false;    *)
(* send: about to send IDLE.                                               *)
IdlePCs == {"time", "lock", "waiting", "woken", "check", "set", "send"}

ClientInit ==
  /\ mpc = "loop"
  /\ ipc = "time"
  /\ isIdleMessageSent = FALSE
  /\ deadline = 0
  /\ valid \in NsecValid
  /\ prompt \in Paces
  /\ now = 0
  /\ typed = 0
  /\ decided = 0
  /\ wire = <<[kind |-> "join", at |-> 0, line |-> 0]>>

(* A frame is recorded with the second it is sent in and a line: its own,  *)
(* or, for an IDLE, the last one typed when it was decided to send it.     *)
Sent(kind, line) == Append(wire, [kind |-> kind, at |-> now, line |-> line])

-----------------------------------------------------------------------------
(* The main thread, when select reports the standard input: it signals the *)
(* condition and clears the flag under the mutex, then sends the line.     *)

TypeLine ==
  /\ mpc = "loop"
  /\ typed < MaxLines
  /\ typed' = typed + 1
  /\ ipc' = IF ipc = "waiting" THEN "woken" ELSE ipc
  /\ isIdleMessageSent' = FALSE
  /\ mpc' = "send"
  /\ UNCHANGED <<deadline, valid, prompt, now, decided, wire>>

SendLine ==
  /\ mpc = "send"
  /\ wire' = Sent("send", typed)
  /\ mpc' = "loop"
  /\ UNCHANGED <<ipc, isIdleMessageSent, deadline, valid, prompt, now, typed, decided>>

-----------------------------------------------------------------------------
(* The idle thread.                                                        *)

ReadClock ==
  /\ ipc = "time"
  /\ deadline' = now + IDLE_WAIT_TIME
  /\ ipc' = "lock"
  /\ UNCHANGED <<mpc, isIdleMessageSent, valid, prompt, now, typed, decided, wire>>

Wait ==
  /\ ipc = "lock"
  /\ ipc' = "waiting"
  /\ UNCHANGED <<mpc, isIdleMessageSent, deadline, valid, prompt, now, typed, decided, wire>>

(* Mutant: the result of the wait is not looked at.                        *)
WokenGoesOn ==
  /\ ipc = "woken" \/ (Spurious /\ ipc = "waiting")
  /\ ipc' = "check"
  /\ UNCHANGED <<mpc, isIdleMessageSent, deadline, valid, prompt, now, typed, decided, wire>>

(* pthread_cond_timedwait returns 0: the wait begins anew.                 *)
Woken ==
  /\ ipc = "woken" \/ (Spurious /\ ipc = "waiting")
  /\ ipc' = "time"
  /\ UNCHANGED <<mpc, isIdleMessageSent, deadline, valid, prompt, now, typed, decided, wire>>

(* It fails: with ETIMEDOUT at the deadline, with EINVAL at once.           *)
TimedOut ==
  /\ ipc = "waiting"
  /\ now >= deadline \/ ~valid
  /\ ipc' = "check"
  /\ UNCHANGED <<mpc, isIdleMessageSent, deadline, valid, prompt, now, typed, decided, wire>>

(* Mutant: the flag is not looked at.                                      *)
CheckNothing ==
  /\ ipc = "check"
  /\ ipc' = "set"
  /\ UNCHANGED <<mpc, isIdleMessageSent, deadline, valid, prompt, now, typed, decided, wire>>

(* The flag is read, and then written, without the mutex.                  *)
CheckFlag ==
  /\ ipc = "check"
  /\ ipc' = IF isIdleMessageSent THEN "time" ELSE "set"
  /\ UNCHANGED <<mpc, isIdleMessageSent, deadline, valid, prompt, now, typed, decided, wire>>

(* Mutant: the flag is not set.                                            *)
SetNothing ==
  /\ ipc = "set"
  /\ ipc' = "send"
  /\ decided' = typed
  /\ UNCHANGED <<mpc, isIdleMessageSent, deadline, valid, prompt, now, typed, wire>>

SetFlag ==
  /\ ipc = "set"
  /\ isIdleMessageSent' = TRUE
  /\ ipc' = "send"
  /\ decided' = typed
  /\ UNCHANGED <<mpc, deadline, valid, prompt, now, typed, wire>>

SendIdle ==
  /\ ipc = "send"
  /\ wire' = Sent("idle", decided)
  /\ ipc' = "time"
  /\ UNCHANGED <<mpc, isIdleMessageSent, deadline, valid, prompt, now, typed, decided>>

(* A second passes.  Threads may sleep through it, unless prompt.          *)
Tick ==
  /\ now < Horizon
  /\ prompt => mpc = "loop" /\ (valid => ipc = "waiting" /\ now < deadline)
  /\ now' = now + 1
  /\ UNCHANGED <<mpc, ipc, isIdleMessageSent, deadline, valid, prompt, typed, decided, wire>>

ClientNext ==
  \/ TypeLine
  \/ SendLine
  \/ ReadClock
  \/ Wait
  \/ Woken
  \/ TimedOut
  \/ CheckFlag
  \/ SetFlag
  \/ SendIdle
  \/ Tick

ClientSpec == ClientInit /\ [][ClientNext]_clientVars

-----------------------------------------------------------------------------
(* Correctness.                                                            *)

ClientTypeOK ==
  /\ mpc \in {"loop", "send"}
  /\ ipc \in IdlePCs
  /\ isIdleMessageSent \in BOOLEAN
  /\ deadline \in Nat
  /\ valid \in BOOLEAN
  /\ prompt \in BOOLEAN
  /\ now \in Nat
  /\ typed \in Nat
  /\ decided \in Nat
  /\ wire \in Seq([kind : {"join", "send", "idle"}, at : Nat, line : Nat])

Positions(kind) == {k \in 1 .. Len(wire) : wire[k].kind = kind}

(* A new IDLE needs a new line ("the message is already sent" otherwise):  *)
(* between the decisions to send any two of them the user typed one.  It   *)
(* holds for every interleaving, although the flag is tested and set       *)
(* outside the mutex.  It does not order the frames: the IDLE is sent some *)
(* time after it was decided and the line some time after it was typed, so *)
(* that the line may leave before the first IDLE or after the second.      *)
IdleOncePerLine ==
  \A j, k \in Positions("idle") : j < k => wire[j].line < wire[k].line

(* What the server sees of it: three IDLEs may arrive with no line between *)
(* them, when the one between the first two overtook the first and the one *)
(* between the last two is held up, but of four there is a line between    *)
(* the first and the last, however long a SEND or an IDLE is held up.      *)
NoFourIdles ==
  \A i, j, k, l \in Positions("idle") :
    i < j /\ j < k /\ k < l => \E p \in Positions("send") : i < p /\ p < l

(* With threads that run promptly, and a valid time to wait for, an IDLE   *)
(* follows IDLE_WAIT_TIME seconds of silence, or a line of the very second *)
(* in which the wait ran out.                                              *)
IdleAfterSilence ==
  prompt /\ valid =>
    \A k \in Positions("idle"), j \in Positions("send") \cup Positions("join") :
      j < k => \/ wire[k].at - wire[j].at >= IDLE_WAIT_TIME
               \/ wire[k].at = wire[j].at /\ wire[j].kind = "send"

(* A client that has sent nothing for more than IDLE_WAIT_TIME seconds has *)
(* said so.                                                                *)
SilenceAnnounced ==
  LET last == wire[Len(wire)]
  IN  last.kind # "idle" => now - last.at <= IDLE_WAIT_TIME
=============================================================================
