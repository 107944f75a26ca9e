-------------------------- MODULE ChatClientProofs --------------------------
(* Machine-checked proofs about ChatClient, for every wait and every user. *)
EXTENDS ChatClient, TLAPS

Frames == [kind : {"join", "send", "idle"}, at : Nat, line : Nat]

LEMMA FramesTyped ==
  ASSUME ClientTypeOK
  PROVE  \A k \in 1 .. Len(wire) : wire[k].at \in Nat /\ wire[k].line \in Nat
<1>1. \A f \in Frames : f.at \in Nat /\ f.line \in Nat
  BY DEF Frames
<1>2. wire \in Seq(Frames)
  BY DEF ClientTypeOK, Frames
<1>3. \A k \in 1 .. Len(wire) : wire[k] \in Frames
  BY <1>2
<1> QED
  BY <1>1, <1>3

(* A frame is added to those there are.                                    *)
Added(kind, line) ==
  /\ Len(wire) \in Nat
  /\ Len(wire') = Len(wire) + 1
  /\ \A k \in 1 .. Len(wire) :
       wire'[k] = wire[k] /\ wire[k].at \in Nat /\ wire[k].line \in Nat
  /\ wire'[Len(wire) + 1] = [kind |-> kind, at |-> now, line |-> line]

LEMMA SentFrames ==
  ASSUME ClientTypeOK, NEW kind \in {"send", "idle"}, NEW line \in Nat,
         wire' = Sent(kind, line)
  PROVE  Added(kind, line)
<1>1. wire \in Seq(Frames)
  BY DEF ClientTypeOK, Frames
<1>2. /\ Len(wire) \in Nat /\ Len(wire') = Len(wire) + 1
      /\ \A k \in 1 .. Len(wire) : wire'[k] = wire[k]
      /\ wire'[Len(wire) + 1] = [kind |-> kind, at |-> now, line |-> line]
  BY <1>1 DEF Sent
<1> QED
  BY <1>2, FramesTyped DEF Added

(* It adds one position to those of its kind and none to the others.       *)
LEMMA SentPositions ==
  ASSUME ClientTypeOK, NEW kind \in {"send", "idle"}, NEW line \in Nat,
         wire' = Sent(kind, line), NEW other \in {"send", "idle"}
  PROVE  Positions(other)' = IF other = kind THEN Positions(other) \cup {Len(wire) + 1}
                                             ELSE Positions(other)
<1>1. Added(kind, line)
  BY SentFrames
<1>2. 1 .. Len(wire') = (1 .. Len(wire)) \cup {Len(wire) + 1}
  BY <1>1 DEF Added
<1> QED
  BY <1>1, <1>2 DEF Added, Positions

LEMMA ClientInitType == ClientInit => ClientTypeOK
<1> SUFFICES ASSUME ClientInit PROVE ClientTypeOK
  OBVIOUS
<1>1. [kind |-> "join", at |-> 0, line |-> 0]
        \in [kind : {"join", "send", "idle"}, at : Nat, line : Nat]
  OBVIOUS
<1>2. wire \in Seq([kind : {"join", "send", "idle"}, at : Nat, line : Nat])
  BY <1>1 DEF ClientInit
<1> QED
  BY <1>2, ClientConstantsOK DEF ClientInit, ClientTypeOK, IdlePCs

LEMMA NoFrameYet == ClientInit => Positions("idle") = {} /\ Positions("send") = {}
<1> SUFFICES ASSUME ClientInit PROVE Positions("idle") = {} /\ Positions("send") = {}
  OBVIOUS
<1>1. Len(wire) = 1 /\ wire[1].kind = "join"
  BY DEF ClientInit
<1> QED
  BY <1>1 DEF Positions

LEMMA ClientNextType ==
  ASSUME ClientTypeOK, [ClientNext]_clientVars
  PROVE  ClientTypeOK'
<1> USE DEF ClientTypeOK, IdlePCs
<1>1. CASE TypeLine
  <2>1. mpc' \in {"loop", "send"} /\ typed' \in Nat
    BY <1>1 DEF TypeLine
  <2>2. ipc' \in IdlePCs
    BY <1>1 DEF TypeLine
  <2>3. isIdleMessageSent' \in BOOLEAN
    BY <1>1 DEF TypeLine
  <2>4. deadline' \in Nat /\ now' \in Nat
    BY <1>1 DEF TypeLine
  <2>7. decided' \in Nat
    BY <1>1 DEF TypeLine
  <2>5. wire' \in Seq([kind : {"join", "send", "idle"}, at : Nat, line : Nat])
    BY <1>1 DEF TypeLine
  <2>6. valid' \in BOOLEAN /\ prompt' \in BOOLEAN
    BY <1>1 DEF TypeLine
  <2> QED
    BY <2>1, <2>2, <2>3, <2>4, <2>5, <2>6, <2>7, Zenon
<1>2. CASE SendLine
  <2>1. [kind |-> "send", at |-> now, line |-> typed]
          \in [kind : {"join", "send", "idle"}, at : Nat, line : Nat]
    OBVIOUS
  <2>2. wire' \in Seq([kind : {"join", "send", "idle"}, at : Nat, line : Nat])
    BY <1>2, <2>1 DEF SendLine, Sent
  <2> QED
    BY <1>2, <2>2 DEF SendLine
<1>3. CASE ReadClock
  BY <1>3, ClientConstantsOK DEF ReadClock
<1>4. CASE Wait \/ Woken \/ TimedOut
  BY <1>4 DEF Wait, Woken, TimedOut
<1>5. CASE CheckFlag
  BY <1>5 DEF CheckFlag
<1>6. CASE SetFlag
  BY <1>6 DEF SetFlag
<1>7. CASE SendIdle
  <2>1. [kind |-> "idle", at |-> now, line |-> decided]
          \in [kind : {"join", "send", "idle"}, at : Nat, line : Nat]
    OBVIOUS
  <2>2. wire' \in Seq([kind : {"join", "send", "idle"}, at : Nat, line : Nat])
    BY <1>7, <2>1 DEF SendIdle, Sent
  <2> QED
    BY <1>7, <2>2 DEF SendIdle
<1>8. CASE Tick
  BY <1>8 DEF Tick
<1>9. CASE UNCHANGED clientVars
  BY <1>9 DEF clientVars
<1> QED
  BY <1>1, <1>2, <1>3, <1>4, <1>5, <1>6, <1>7, <1>8, <1>9 DEF ClientNext

-----------------------------------------------------------------------------
(* The decisions to send an IDLE.                                          *)

(* A decision was made when no line had been typed that is not counted in  *)
(* it, and a flag that is clear, or was seen clear by the thread about to  *)
(* set it, means that another line has been typed since.                   *)
Fresh(line) ==
  /\ line <= typed
  /\ ~isIdleMessageSent \/ ipc = "set" => line < typed

DecisionsOK ==
  /\ \A k \in Positions("idle") : Fresh(wire[k].line)
  /\ ipc = "send" => /\ Fresh(decided)
                     /\ \A k \in Positions("idle") : wire[k].line < decided
  /\ IdleOncePerLine

(* Where the lines are among the frames: every line typed is sent before   *)
(* the next one is; an IDLE comes after every line but the last of those   *)
(* its decision counted; a line typed after the decision to send an IDLE   *)
(* comes after every IDLE before that one.                                 *)
OrderOK ==
  /\ \A p \in Positions("send") : wire[p].line <= typed
  /\ \A n \in 1 .. typed :
       n < typed \/ mpc = "loop" => \E p \in Positions("send") : wire[p].line = n
  /\ \A l \in Positions("idle"), n \in 1 .. typed :
       n < wire[l].line => \E p \in Positions("send") : p < l /\ wire[p].line = n
  /\ \A i, j \in Positions("idle"), p \in Positions("send") :
       i < j /\ wire[j].line < wire[p].line => i < p
  /\ ipc = "send" => \A i \in Positions("idle"), p \in Positions("send") :
                       decided < wire[p].line => i < p

ClientInv == ClientTypeOK /\ DecisionsOK /\ OrderOK

LEMMA ClientInitInv == ClientInit => ClientInv
<1> SUFFICES ASSUME ClientInit PROVE ClientInv
  OBVIOUS
<1>1. ClientTypeOK /\ Positions("idle") = {} /\ Positions("send") = {}
  BY ClientInitType, NoFrameYet
<1>2. typed = 0 /\ ipc = "time"
  BY DEF ClientInit
<1> QED
  BY <1>1, <1>2 DEF ClientInv, DecisionsOK, OrderOK, IdleOncePerLine

LEMMA LineSent ==
  ASSUME ClientInv, SendLine
  PROVE  DecisionsOK' /\ OrderOK'
<1> DEFINE N == Len(wire) + 1
<1>1. ClientTypeOK /\ typed \in Nat /\ mpc = "send" /\ mpc' = "loop"
      /\ UNCHANGED <<ipc, isIdleMessageSent, typed, decided>> /\ wire' = Sent("send", typed)
  BY DEF ClientInv, ClientTypeOK, SendLine
<1>2. /\ N \in Nat
      /\ \A k \in 1 .. Len(wire) : k < N /\ wire'[k] = wire[k] /\ wire[k].line \in Nat
      /\ wire'[N].line = typed
  <2>1. Added("send", typed)
    BY <1>1, SentFrames
  <2> QED
    BY <2>1 DEF Added
<1>3. /\ Positions("idle")' = Positions("idle")
      /\ Positions("send")' = Positions("send") \cup {N}
  BY <1>1, SentPositions
<1>4. \A k \in Positions("idle") \cup Positions("send") : k \in 1 .. Len(wire)
  BY DEF Positions
<1> HIDE DEF N
<1>5. DecisionsOK'
  BY <1>1, <1>2, <1>3, <1>4 DEF ClientInv, DecisionsOK, IdleOncePerLine, Fresh
<1>6. ASSUME NEW p \in Positions("send")' PROVE wire'[p].line <= typed'
  BY <1>1, <1>2, <1>3, <1>4 DEF ClientInv, OrderOK
<1>7. ASSUME NEW n \in 1 .. typed' PROVE \E p \in Positions("send")' : wire'[p].line = n
  <2>1. CASE n = typed
    BY <1>2, <1>3, <2>1
  <2>2. CASE n < typed
    <3>1. PICK p \in Positions("send") : wire[p].line = n
      BY <1>1, <1>7, <2>2 DEF ClientInv, OrderOK
    <3> QED
      BY <1>2, <1>3, <1>4, <3>1
  <2> QED
    BY <1>1, <1>7, <2>1, <2>2
<1>8. ASSUME NEW l \in Positions("idle")', NEW n \in 1 .. typed', n < wire'[l].line
      PROVE  \E p \in Positions("send")' : p < l /\ wire'[p].line = n
  <2>1. PICK p \in Positions("send") : p < l /\ wire[p].line = n
    BY <1>1, <1>2, <1>3, <1>4, <1>8 DEF ClientInv, OrderOK
  <2> QED
    BY <1>2, <1>3, <1>4, <2>1
<1>9. ASSUME NEW i \in Positions("idle")', NEW j \in Positions("idle")',
             NEW p \in Positions("send")', i < j, wire'[j].line < wire'[p].line
      PROVE  i < p
  BY <1>1, <1>2, <1>3, <1>4, <1>9 DEF ClientInv, OrderOK
<1>10. ASSUME ipc' = "send", NEW i \in Positions("idle")', NEW p \in Positions("send")',
              decided' < wire'[p].line
       PROVE  i < p
  BY <1>1, <1>2, <1>3, <1>4, <1>10 DEF ClientInv, OrderOK
<1> QED
  BY <1>5, <1>6, <1>7, <1>8, <1>9, <1>10 DEF OrderOK

LEMMA DecisionSent ==
  ASSUME ClientInv, SendIdle
  PROVE  DecisionsOK' /\ OrderOK'
<1> DEFINE N == Len(wire) + 1
<1>1. ClientTypeOK /\ typed \in Nat /\ decided \in Nat /\ ipc = "send" /\ ipc' = "time"
      /\ UNCHANGED <<mpc, isIdleMessageSent, typed, decided>> /\ wire' = Sent("idle", decided)
  BY DEF ClientInv, ClientTypeOK, SendIdle
<1>2. /\ N \in Nat
      /\ \A k \in 1 .. Len(wire) : k < N /\ wire'[k] = wire[k] /\ wire[k].line \in Nat
      /\ wire'[N].line = decided
  <2>1. Added("idle", decided)
    BY <1>1, SentFrames
  <2> QED
    BY <2>1 DEF Added
<1>3. /\ Positions("idle")' = Positions("idle") \cup {N}
      /\ Positions("send")' = Positions("send")
  BY <1>1, SentPositions
<1>4. \A k \in Positions("idle") \cup Positions("send") : k \in 1 .. Len(wire)
  BY DEF Positions
<1> HIDE DEF N
<1>5. Fresh(decided) /\ \A k \in Positions("idle") : wire[k].line < decided
  BY <1>1 DEF ClientInv, DecisionsOK
<1>6. DecisionsOK'
  <2>1. ASSUME NEW k \in Positions("idle")' PROVE Fresh(wire[k].line)'
    BY <1>1, <1>2, <1>3, <1>4, <1>5, <2>1 DEF ClientInv, DecisionsOK, Fresh
  <2>2. ASSUME NEW j \in Positions("idle")', NEW k \in Positions("idle")', j < k
        PROVE  wire'[j].line < wire'[k].line
    BY <1>1, <1>2, <1>3, <1>4, <1>5, <2>2 DEF ClientInv, DecisionsOK, IdleOncePerLine
  <2> QED
    BY <1>1, <2>1, <2>2 DEF DecisionsOK, IdleOncePerLine
<1>7. \A p \in Positions("send")' : wire'[p].line <= typed'
  BY <1>1, <1>2, <1>3, <1>4 DEF ClientInv, OrderOK
<1>8. ASSUME NEW n \in 1 .. typed', n < typed' \/ mpc' = "loop"
      PROVE  \E p \in Positions("send")' : wire'[p].line = n
  <2>1. PICK p \in Positions("send") : wire[p].line = n
    BY <1>1, <1>8 DEF ClientInv, OrderOK
  <2> QED
    BY <1>2, <1>3, <1>4, <2>1
<1>9. ASSUME NEW l \in Positions("idle")', NEW n \in 1 .. typed', n < wire'[l].line
      PROVE  \E p \in Positions("send")' : p < l /\ wire'[p].line = n
  <2>1. CASE l = N
    <3>1. n < typed
      BY <1>1, <1>2, <1>5, <1>9, <2>1 DEF Fresh
    <3>2. PICK p \in Positions("send") : wire[p].line = n
      BY <1>1, <1>9, <3>1 DEF ClientInv, OrderOK
    <3> QED
      BY <1>2, <1>3, <1>4, <2>1, <3>2
  <2>2. CASE l \in Positions("idle")
    <3>1. PICK p \in Positions("send") : p < l /\ wire[p].line = n
      BY <1>1, <1>2, <1>4, <1>9, <2>2 DEF ClientInv, OrderOK
    <3> QED
      BY <1>2, <1>3, <1>4, <3>1
  <2> QED
    BY <1>3, <2>1, <2>2
<1>10. ASSUME NEW i \in Positions("idle")', NEW j \in Positions("idle")',
              NEW p \in Positions("send")', i < j, wire'[j].line < wire'[p].line
       PROVE  i < p
  <2>1. i \in Positions("idle") /\ p \in Positions("send") /\ wire'[p] = wire[p]
    BY <1>2, <1>3, <1>4, <1>10
  <2>2. CASE j = N
    BY <1>1, <1>2, <1>10, <2>1, <2>2 DEF ClientInv, OrderOK
  <2>3. CASE j \in Positions("idle")
    BY <1>2, <1>4, <1>10, <2>1, <2>3 DEF ClientInv, OrderOK
  <2> QED
    BY <1>3, <2>2, <2>3
<1>11. ipc' # "send"
  BY <1>1
<1> QED
  BY <1>6, <1>7, <1>8, <1>9, <1>10, <1>11 DEF OrderOK

LEMMA ClientNextInv == ClientInv /\ [ClientNext]_clientVars => ClientInv'
<1> SUFFICES ASSUME ClientInv, [ClientNext]_clientVars PROVE ClientInv'
  OBVIOUS
<1>1. ClientTypeOK /\ ClientTypeOK' /\ DecisionsOK /\ OrderOK
  BY ClientNextType DEF ClientInv
<1>2. typed \in Nat /\ decided \in Nat
      /\ \A k \in Positions("idle") \cup Positions("send") : wire[k].line \in Nat
  BY <1>1, FramesTyped DEF ClientTypeOK, Positions
<1>3. wire' = wire => \A kind : Positions(kind)' = Positions(kind)
  BY DEF Positions
<1> SUFFICES DecisionsOK' /\ OrderOK'
  BY <1>1 DEF ClientInv
<1>4. CASE TypeLine
  <2>1. DecisionsOK'
    BY <1>1, <1>2, <1>3, <1>4 DEF TypeLine, DecisionsOK, Fresh, IdleOncePerLine
  <2>2. \A n \in 1 .. typed' : n < typed' => n \in 1 .. typed /\ mpc = "loop"
    BY <1>2, <1>4 DEF TypeLine
  <2>3. /\ typed' = typed + 1 /\ mpc' = "send" /\ UNCHANGED <<decided, wire>>
        /\ ipc' = "send" => ipc = "send"
    BY <1>4 DEF TypeLine
  <2>4. \A p \in Positions("send") : wire[p].line <= typed'
    BY <1>1, <1>2, <2>3 DEF OrderOK
  <2>5. \A n \in 1 .. typed' : n < typed' \/ mpc' = "loop" =>
          \E p \in Positions("send") : wire[p].line = n
    BY <1>1, <2>2, <2>3 DEF OrderOK
  <2>6. ASSUME NEW l \in Positions("idle"), NEW n \in 1 .. typed', n < wire[l].line
        PROVE  \E p \in Positions("send") : p < l /\ wire[p].line = n
    <3>1. n \in 1 .. typed
      BY <1>1, <1>2, <2>3, <2>6 DEF DecisionsOK, Fresh
    <3> QED
      BY <1>1, <2>6, <3>1 DEF OrderOK
  <2>7. OrderOK'
    BY <1>1, <1>3, <2>3, <2>4, <2>5, <2>6 DEF OrderOK
  <2> QED
    BY <2>1, <2>7
<1>5. CASE SetFlag
  <2>1. DecisionsOK'
    BY <1>1, <1>2, <1>3, <1>5 DEF SetFlag, DecisionsOK, Fresh, IdleOncePerLine
  <2>2. OrderOK'
    BY <1>1, <1>2, <1>3, <1>5 DEF SetFlag, OrderOK
  <2> QED
    BY <2>1, <2>2
<1>6. CASE ReadClock \/ Wait \/ Woken \/ TimedOut \/ CheckFlag \/ Tick \/ UNCHANGED clientVars
  <2>1. /\ UNCHANGED <<mpc, isIdleMessageSent, typed, decided, wire>>
        /\ ipc' # "send" \/ ipc' = ipc
        /\ ipc' = "set" => ipc = "set" \/ ~isIdleMessageSent
    BY <1>6 DEF ReadClock, Wait, Woken, TimedOut, CheckFlag, Tick, clientVars
  <2>2. DecisionsOK'
    BY <1>1, <1>3, <2>1 DEF DecisionsOK, Fresh, IdleOncePerLine
  <2>3. OrderOK'
    BY <1>1, <1>3, <2>1 DEF OrderOK
  <2> QED
    BY <2>2, <2>3
<1> QED
  BY <1>4, <1>5, <1>6, LineSent, DecisionSent DEF ClientNext

LEMMA ClientInvariant == ClientSpec => []ClientInv
<1>1. ClientInit => ClientInv
  BY ClientInitInv
<1>2. ClientInv /\ [ClientNext]_clientVars => ClientInv'
  BY ClientNextInv
<1> QED
  BY <1>1, <1>2, PTL DEF ClientSpec

(* The flag that the threads share without a lock still does its work:     *)
(* between the decisions to send any two IDLEs the user typed a line,      *)
(* whatever the interleaving and the timing.                               *)
THEOREM IdleNotRepeated == ClientSpec => []IdleOncePerLine
<1>1. ClientInv => IdleOncePerLine
  BY DEF ClientInv, DecisionsOK
<1> QED
  BY <1>1, ClientInvariant, PTL

LEMMA FourNeedALine == ClientInv => NoFourIdles
<1> SUFFICES ASSUME ClientInv,
                    NEW i \in Positions("idle"), NEW j \in Positions("idle"),
                    NEW k \in Positions("idle"), NEW l \in Positions("idle"),
                    i < j, j < k, k < l
             PROVE  \E p \in Positions("send") : i < p /\ p < l
  BY DEF NoFourIdles
<1>1. /\ wire[j].line \in Nat /\ wire[k].line \in Nat /\ wire[l].line \in Nat
      /\ typed \in Nat
  BY FramesTyped DEF ClientInv, ClientTypeOK, Positions
<1>2. wire[j].line < wire[k].line /\ wire[k].line < wire[l].line /\ wire[k].line <= typed
  BY DEF ClientInv, DecisionsOK, IdleOncePerLine, Fresh
<1>3. PICK p \in Positions("send") : p < l /\ wire[p].line = wire[k].line
  <2>1. wire[k].line \in 1 .. typed
    BY <1>1, <1>2
  <2> QED
    BY <1>2, <2>1 DEF ClientInv, OrderOK
<1>4. i < p
  BY <1>2, <1>3 DEF ClientInv, OrderOK
<1> QED
  BY <1>3, <1>4

(* Four IDLEs never reach the server without a line between the first and  *)
(* the last of them, although a frame may be held up for any time between  *)
(* the step that decides on it and the step that sends it.                 *)
THEOREM IdlesBounded == ClientSpec => []NoFourIdles
<1>1. ClientInv => NoFourIdles
  BY FourNeedALine
<1> QED
  BY <1>1, ClientInvariant, PTL

-----------------------------------------------------------------------------
(* The seconds before an IDLE.                                             *)

Words == Positions("send") \cup Positions("join")

(* What is known of the words sent so far: before the wait, that they are  *)
(* not of the future; in it, that they are from before the deadline was    *)
(* set, the one that is still to be sent included; after it, that they are *)
(* old, or of this second.                                                 *)
WaitOK ==
  /\ \A j \in 1 .. Len(wire) : wire[j].at <= now
  /\ ipc = "lock" => deadline = now + IDLE_WAIT_TIME
  /\ ipc = "waiting" /\ mpc = "send" => deadline = now + IDLE_WAIT_TIME
  /\ ipc = "waiting" => \A j \in Words : wire[j].at + IDLE_WAIT_TIME <= deadline
  /\ ipc \in {"check", "set", "send"} =>
       \A j \in Words : \/ wire[j].at + IDLE_WAIT_TIME <= now
                        \/ wire[j].at = now /\ wire[j].kind = "send"

SilenceInv == prompt /\ valid => WaitOK /\ IdleAfterSilence

LEMMA SilenceKept ==
  ASSUME ClientTypeOK, SilenceInv, UNCHANGED <<wire, prompt, valid>>, prompt /\ valid => WaitOK'
  PROVE  SilenceInv'
  BY DEF SilenceInv, IdleAfterSilence, Positions

LEMMA WordsSent ==
  ASSUME ClientTypeOK, SilenceInv, SendLine
  PROVE  SilenceInv'
<1> SUFFICES ASSUME prompt, valid PROVE WaitOK' /\ IdleAfterSilence'
  BY DEF SilenceInv, SendLine
<1> DEFINE n == Len(wire) + 1
<1>1. /\ n \in Nat /\ Len(wire') = n
      /\ \A k \in 1 .. Len(wire) : wire'[k] = wire[k] /\ wire[k].at \in Nat
      /\ wire'[n].kind = "send" /\ wire'[n].at = now
      /\ \A k \in 1 .. Len(wire') : k \in 1 .. Len(wire) \/ k = n
  <2>1. Added("send", typed)
    BY SentFrames DEF SendLine, ClientTypeOK
  <2> QED
    BY <2>1 DEF Added
<1> HIDE DEF n
<1>2. WaitOK /\ IdleAfterSilence /\ now \in Nat /\ mpc = "send"
      /\ UNCHANGED <<ipc, deadline, now, prompt, valid>> /\ mpc' = "loop"
  BY DEF SilenceInv, SendLine, ClientTypeOK
<1>3. \A j \in Words' : j \in Words \/ j = n
  BY <1>1 DEF Words, Positions
<1>4. \A j \in Words : j \in 1 .. Len(wire)
  BY DEF Words, Positions
<1>5. WaitOK'
  <2>1. \A j \in 1 .. Len(wire') : wire'[j].at <= now
    BY <1>1, <1>2 DEF WaitOK
  <2>2. ASSUME ipc = "waiting", NEW j \in Words' PROVE wire'[j].at + IDLE_WAIT_TIME <= deadline
    <3>1. CASE j = n
      BY <1>1, <1>2, <2>2, <3>1, ClientConstantsOK DEF WaitOK, ClientTypeOK
    <3> QED
      BY <1>1, <1>2, <1>3, <1>4, <2>2, <3>1 DEF WaitOK
  <2>3. ASSUME ipc \in {"check", "set", "send"}, NEW j \in Words'
        PROVE  \/ wire'[j].at + IDLE_WAIT_TIME <= now
               \/ wire'[j].at = now /\ wire'[j].kind = "send"
    BY <1>1, <1>2, <1>3, <1>4, <2>3 DEF WaitOK
  <2> QED
    BY <1>2, <2>1, <2>2, <2>3 DEF WaitOK
<1>6. IdleAfterSilence'
  <2> SUFFICES ASSUME NEW k \in Positions("idle")', NEW j \in Words', j < k
               PROVE  \/ wire'[k].at - wire'[j].at >= IDLE_WAIT_TIME
                      \/ wire'[k].at = wire'[j].at /\ wire'[j].kind = "send"
    BY DEF IdleAfterSilence, Words
  <2>1. k \in Positions("idle") /\ k \in 1 .. Len(wire)
    BY <1>1 DEF Positions
  <2>2. j \in Words
    <3>1. ~ (n < k)
      BY <1>1, <2>1 DEF n
    <3> QED
      BY <1>3, <3>1
  <2> QED
    BY <1>1, <1>2, <1>4, <2>1, <2>2 DEF IdleAfterSilence, Words
<1> QED
  BY <1>5, <1>6

LEMMA IdleSent ==
  ASSUME ClientTypeOK, SilenceInv, SendIdle
  PROVE  SilenceInv'
<1> SUFFICES ASSUME prompt, valid PROVE WaitOK' /\ IdleAfterSilence'
  BY DEF SilenceInv, SendIdle
<1> DEFINE n == Len(wire) + 1
<1>1. /\ n \in Nat /\ Len(wire') = n
      /\ \A k \in 1 .. Len(wire) : wire'[k] = wire[k] /\ wire[k].at \in Nat
      /\ wire'[n].kind = "idle" /\ wire'[n].at = now
      /\ \A k \in 1 .. Len(wire') : k \in 1 .. Len(wire) \/ k = n
  <2>1. Added("idle", decided)
    BY SentFrames DEF SendIdle, ClientTypeOK
  <2> QED
    BY <2>1 DEF Added
<1>2. WaitOK /\ IdleAfterSilence /\ now \in Nat /\ ipc = "send"
      /\ UNCHANGED <<deadline, now, prompt, valid>> /\ ipc' = "time"
  BY DEF SilenceInv, SendIdle, ClientTypeOK
<1> HIDE DEF n
<1>3. \A j \in Words' : j \in Words /\ j \in 1 .. Len(wire)
  BY <1>1 DEF Words, Positions
<1>4. WaitOK'
  BY <1>1, <1>2 DEF WaitOK
<1>5. IdleAfterSilence'
  <2> SUFFICES ASSUME NEW k \in Positions("idle")', NEW j \in Words', j < k
               PROVE  \/ wire'[k].at - wire'[j].at >= IDLE_WAIT_TIME
                      \/ wire'[k].at = wire'[j].at /\ wire'[j].kind = "send"
    BY DEF IdleAfterSilence, Words
  <2>1. j \in Words /\ j \in 1 .. Len(wire) /\ wire'[j] = wire[j] /\ wire[j].at \in Nat
    BY <1>1, <1>3
  <2>2. CASE k = n
    <3>1. wire[j].at + IDLE_WAIT_TIME <= now \/ (wire[j].at = now /\ wire[j].kind = "send")
      BY <1>2, <2>1 DEF WaitOK
    <3> QED
      BY <1>1, <1>2, <2>1, <2>2, <3>1, ClientConstantsOK
  <2>3. CASE k \in 1 .. Len(wire)
    <3>1. k \in Positions("idle")
      BY <1>1, <2>3 DEF Positions
    <3> QED
      BY <1>1, <1>2, <2>1, <2>3, <3>1 DEF IdleAfterSilence, Words
  <2>4. k \in 1 .. Len(wire')
    BY DEF Positions
  <2> QED
    BY <1>1, <2>2, <2>3, <2>4
<1> QED
  BY <1>4, <1>5

LEMMA SilenceNext ==
  ASSUME ClientTypeOK, SilenceInv, [ClientNext]_clientVars
  PROVE  SilenceInv'
<1>0. /\ IDLE_WAIT_TIME \in Nat \ {0} /\ now \in Nat /\ deadline \in Nat
      /\ \A j \in 1 .. Len(wire) : wire[j].at \in Nat
  BY ClientConstantsOK, FramesTyped DEF ClientTypeOK
<1>1. prompt /\ valid => WaitOK
  BY DEF SilenceInv
<1>2. \A j \in Words : j \in 1 .. Len(wire)
  BY DEF Words, Positions
<1>3. UNCHANGED wire => Words' = Words
  BY DEF Words, Positions
<1>4. CASE TypeLine
  BY <1>1, <1>3, <1>4, SilenceKept DEF TypeLine, WaitOK
<1>5. CASE ReadClock \/ Woken \/ CheckFlag \/ SetFlag
  BY <1>1, <1>3, <1>5, SilenceKept DEF ReadClock, Woken, CheckFlag, SetFlag, WaitOK
<1>6. CASE Wait
  <2>1. ASSUME prompt, valid PROVE WaitOK'
    <3>1. deadline = now + IDLE_WAIT_TIME
      BY <1>1, <1>6, <2>1 DEF Wait, WaitOK
    <3>2. \A j \in Words : wire[j].at + IDLE_WAIT_TIME <= deadline
      BY <1>0, <1>1, <1>2, <2>1, <3>1 DEF WaitOK
    <3> QED
      BY <1>1, <1>3, <1>6, <2>1, <3>1, <3>2 DEF Wait, WaitOK
  <2> QED
    BY <1>6, <2>1, SilenceKept DEF Wait
<1>7. CASE TimedOut
  <2>1. ASSUME prompt, valid PROVE WaitOK'
    <3>1. now >= deadline /\ ipc = "waiting"
      BY <1>7, <2>1 DEF TimedOut
    <3>2. \A j \in Words : wire[j].at + IDLE_WAIT_TIME <= now
      BY <1>0, <1>1, <1>2, <2>1, <3>1 DEF WaitOK
    <3> QED
      BY <1>1, <1>3, <1>7, <2>1, <3>2 DEF TimedOut, WaitOK
  <2> QED
    BY <1>7, <2>1, SilenceKept DEF TimedOut
<1>8. CASE Tick
  <2>1. ASSUME prompt, valid PROVE WaitOK'
    <3>1. mpc = "loop" /\ ipc = "waiting" /\ now' = now + 1 /\ UNCHANGED <<mpc, ipc, deadline, wire>>
      BY <1>8, <2>1 DEF Tick
    <3>2. \A j \in 1 .. Len(wire) : wire[j].at <= now'
      BY <1>0, <1>1, <2>1, <3>1 DEF WaitOK
    <3> QED
      BY <1>1, <1>3, <2>1, <3>1, <3>2 DEF WaitOK
  <2> QED
    BY <1>8, <2>1, SilenceKept DEF Tick
<1>9. CASE UNCHANGED clientVars
  BY <1>1, <1>3, <1>9, SilenceKept DEF clientVars, WaitOK
<1> QED
  BY <1>4, <1>5, <1>6, <1>7, <1>8, <1>9, WordsSent, IdleSent DEF ClientNext

(* With prompt threads an IDLE comes after the time to wait, counted from  *)
(* every word sent before it, or right behind a line of its own second.    *)
THEOREM IdleInTime == ClientSpec => []IdleAfterSilence
<1>1. ClientInit => SilenceInv
  <2> SUFFICES ASSUME ClientInit PROVE SilenceInv
    OBVIOUS
  <2>1. Len(wire) = 1 /\ wire[1].kind = "join" /\ wire[1].at = 0 /\ now = 0
    BY DEF ClientInit
  <2>2. Positions("idle") = {}
    BY <2>1 DEF Positions
  <2> QED
    BY <2>1, <2>2 DEF SilenceInv, WaitOK, IdleAfterSilence, ClientInit
<1>2. ClientInv /\ SilenceInv /\ [ClientNext]_clientVars => SilenceInv'
  BY SilenceNext DEF ClientInv
<1>3. SilenceInv => IdleAfterSilence
  BY DEF SilenceInv, IdleAfterSilence
<1> QED
  BY <1>1, <1>2, <1>3, ClientInvariant, PTL DEF ClientSpec
=============================================================================
