----------------------------- MODULE EchoProofs -----------------------------
(***************************************************************************)
(* Theorems about EchoServer, for any clients, inputs, buffer and streams. *)
(***************************************************************************)
EXTENDS EchoServer, ChildrenProofs, SequenceTheorems

(* What the processes keep has its type; a child that writes has something *)
(* to write; a connection that is to be forked for has no child.           *)
EchoTypeOK ==
  /\ typed \in [Clients -> Nat]
  /\ line \in [Clients -> Seq(Nat)] /\ cbuf \in [Clients -> Seq(Nat)]
  /\ up \in [Clients -> Seq(Nat)] /\ down \in [Clients -> Seq(Nat)]
  /\ kbuf \in [Clients -> Seq(Nat)]
  /\ cpc \in [Clients -> {"new", "prompt", "write", "read", "gone"}]
  /\ kpc \in [Clients -> {"none", "read", "write", "refused"}]
  /\ conn \in Kids

(* The processes of EchoServer are children as Children has them: each     *)
(* step bears one, ends one, runs the handler, or leaves them alone.       *)
THEOREM EchoImplementsChildren == EchoSpec => ChildrenSpec
<1>1. EchoInit => conn \in Kids
  BY EchoConstantsOK DEF EchoInit
<1>2. conn \in Kids /\ [EchoNext]_evars => (conn \in Kids)'
  BY EchoConstantsOK
     DEF EchoNext, Connect, Client, Type, Leave, Write, ReadEcho, Refused, Kill, Accept,
         Child, ReadChar, ReadEof, ReadReset, WriteBack, WriteToGone,
         AcceptFails, Fork, ForkFails, InstallHandler, HandlerRuns, evars
<1>3. conn \in Kids /\ [EchoNext]_evars => [ChildrenNext]_kvars
  <2> SUFFICES ASSUME conn \in Kids, [EchoNext]_evars PROVE [ChildrenNext]_kvars
    OBVIOUS
  <2>1. ASSUME NEW c \in Clients, Connect(c) \/ Client(c) \/ Kill(c) \/ Accept(c)
        PROVE  UNCHANGED kvars
    BY <2>1 DEF Connect, Client, Type, Leave, Write, ReadEcho, Refused, Kill, Accept
  <2>2. ASSUME NEW c \in Clients, Child(c) PROVE Ends(c) \/ UNCHANGED kvars
    BY <2>2 DEF Child, ReadChar, ReadEof, ReadReset, WriteBack, WriteToGone, LineReturned
  <2>3. CASE AcceptFails \/ ForkFails
    BY <2>3 DEF AcceptFails, ForkFails
  <2>4. CASE Fork
    BY <2>4 DEF Fork, ChildrenNext
  <2>5. CASE InstallHandler \/ HandlerRuns
    BY <2>5 DEF InstallHandler, HandlerRuns, ChildrenNext
  <2>6. CASE UNCHANGED evars
    BY <2>6 DEF evars
  <2> QED
    BY <2>1, <2>2, <2>3, <2>4, <2>5, <2>6, EchoConstantsOK DEF EchoNext, ChildrenNext
<1>4. EchoInit => ChildrenInit
  BY DEF EchoInit
<1> QED
  BY <1>1, <1>2, <1>3, <1>4, PTL DEF EchoSpec, ChildrenSpec

(* The parent of the echo server never waits in its handler for a child    *)
(* that still serves a client: it goes back to accept.                     *)
THEOREM EchoHandlerReturns == EchoSpec => []HandlerNeverBlocks
  BY EchoImplementsChildren, HandlerFindsZombie, PTL

(* What a write takes of a buffer and what it leaves are sequences.        *)
LEMMA SplitSeq ==
  ASSUME NEW s \in Seq(Nat), NEW n \in 1 .. Len(s)
  PROVE  SubSeq(s, 1, n) \in Seq(Nat) /\ Rest(s, n) \in Seq(Nat)
  BY DEF Rest

(* Taking a character from one sequence of numbers and adding it to        *)
(* another, and appending one, leaves sequences of numbers.                *)
LEMMA MoveChar ==
  ASSUME NEW s \in Seq(Nat), NEW t \in Seq(Nat), t # <<>>
  PROVE  /\ Tail(t) \in Seq(Nat) /\ Head(t) \in Nat
         /\ Append(s, Head(t)) \in Seq(Nat) /\ Append(s, Head(t)) # <<>>
         /\ Len(Append(s, Head(t))) > 0
<1>1. Tail(t) \in Seq(Nat) /\ Head(t) \in Nat
  BY HeadTailProperties
<1> QED
  BY <1>1, AppendProperties, EmptySeq

LEMMA JoinSeq ==
  ASSUME NEW s \in Seq(Nat), NEW t \in Seq(Nat)
  PROVE  s \o t \in Seq(Nat)
  OBVIOUS

LEMMA EchoTypeCorrect == EchoSpec => []EchoTypeOK
<1>1. EchoInit => EchoTypeOK
  BY EchoConstantsOK DEF EchoInit, EchoTypeOK
<1>2. EchoTypeOK /\ [EchoNext]_evars => EchoTypeOK'
  <2> SUFFICES ASSUME EchoTypeOK, [EchoNext]_evars PROVE EchoTypeOK'
    OBVIOUS
  <2> USE EchoConstantsOK DEF EchoTypeOK, cvars, tvars, svars, ClientMoves
  <2>1. ASSUME NEW c \in Clients, Connect(c) \/ Leave(c) \/ Kill(c) PROVE EchoTypeOK'
    BY <2>1 DEF Connect, Leave, Kill
  <2>2. ASSUME NEW c \in Clients, Type(c) PROVE EchoTypeOK'
    <3>1. PICK n \in typed[c] + 1 .. Len(Inputs[c]) :
            LET taken == [i \in 1 .. n - typed[c] |-> typed[c] + i]
            IN  /\ line' = [line EXCEPT ![c] = taken]
                /\ cbuf' = [cbuf EXCEPT ![c] = taken]
                /\ typed' = [typed EXCEPT ![c] = n]
      BY <2>2 DEF Type
    <3>2. n \in Nat /\ [i \in 1 .. n - typed[c] |-> typed[c] + i] \in Seq(Nat)
      <4>1. typed[c] \in Nat /\ n \in Int /\ n >= typed[c] + 1
        BY <3>1
      <4>2. n \in Nat /\ n - typed[c] \in Nat
        BY <4>1, SMTT(30)
      <4>3. [i \in 1 .. n - typed[c] |-> typed[c] + i] \in [1 .. n - typed[c] -> Nat]
        BY <4>1, SMTT(30)
      <4>4. [i \in 1 .. n - typed[c] |-> typed[c] + i] \in UNION {[1 .. k -> Nat] : k \in Nat}
        BY <4>2, <4>3
      <4> QED
        BY <4>2, <4>4, SeqDef, Zenon
    <3> QED
      BY <2>2, <3>1, <3>2 DEF Type
  <2>3. ASSUME NEW c \in Clients, Write(c) PROVE EchoTypeOK'
    <3>1. PICK n \in Taken(cbuf[c], up[c]) :
            /\ up' = [up EXCEPT ![c] = @ \o SubSeq(cbuf[c], 1, n)]
            /\ cbuf' = [cbuf EXCEPT ![c] = Rest(@, n)]
            /\ cpc' = [cpc EXCEPT ![c] = IF n = Len(cbuf[c]) THEN "read" ELSE "write"]
      BY <2>3 DEF Write
    <3>2. SubSeq(cbuf[c], 1, n) \in Seq(Nat) /\ Rest(cbuf[c], n) \in Seq(Nat)
      BY <3>1, SplitSeq DEF Taken
    <3>3. up[c] \o SubSeq(cbuf[c], 1, n) \in Seq(Nat)
      BY <3>2, JoinSeq
    <3>4. UNCHANGED <<typed, line, down, kbuf, kpc, conn>>
      BY <2>3 DEF Write
    <3> QED
      BY <3>1, <3>2, <3>3, <3>4
  <2>4. ASSUME NEW c \in Clients, ReadEcho(c) PROVE EchoTypeOK'
    <3>1. Tail(down[c]) \in Seq(Nat) /\ Append(cbuf[c], Head(down[c])) \in Seq(Nat)
      BY <2>4, MoveChar DEF ReadEcho
    <3>2. PICK pc \in {"prompt", "read"} : cpc' = [cpc EXCEPT ![c] = pc]
      BY <2>4 DEF ReadEcho
    <3>3. /\ down' = [down EXCEPT ![c] = Tail(down[c])]
          /\ cbuf' = [cbuf EXCEPT ![c] = Append(cbuf[c], Head(down[c]))]
          /\ UNCHANGED <<typed, line, up, kbuf, kpc, conn>>
      BY <2>4 DEF ReadEcho
    <3> QED
      BY <3>1, <3>2, <3>3
  <2>5. ASSUME NEW c \in Clients, Refused(c) PROVE EchoTypeOK'
    <3>1. PICK pc \in {"prompt", "read", "gone"} : cpc' = [cpc EXCEPT ![c] = pc]
      BY <2>5 DEF Refused
    <3>2. cbuf' = [cbuf EXCEPT ![c] = <<>>] \/ cbuf' = cbuf
      BY <2>5 DEF Refused
    <3>3. UNCHANGED <<typed, line, up, down, kbuf, kpc, conn>>
      BY <2>5 DEF Refused
    <3>4. cbuf' \in [Clients -> Seq(Nat)]
      <4>1. <<>> \in Seq(Nat)
        BY EmptySeq
      <4> QED
        BY <3>2, <4>1
    <3> QED
      BY <3>1, <3>3, <3>4
  <2>6. ASSUME NEW c \in Clients, Accept(c) PROVE EchoTypeOK'
    BY <2>6 DEF Accept, Parent
  <2>7. ASSUME NEW c \in Clients, ReadChar(c) PROVE EchoTypeOK'
    <3>1. Tail(up[c]) \in Seq(Nat) /\ Append(kbuf[c], Head(up[c])) \in Seq(Nat)
      BY <2>7, MoveChar DEF ReadChar
    <3>2. kpc' = kpc \/ kpc' = [kpc EXCEPT ![c] = "write"]
      BY <2>7 DEF ReadChar, LineReturned
    <3>3. /\ up' = [up EXCEPT ![c] = Tail(up[c])]
          /\ kbuf' = [kbuf EXCEPT ![c] = Append(kbuf[c], Head(up[c]))]
          /\ UNCHANGED <<typed, line, cbuf, cpc, down, conn>>
      BY <2>7 DEF ReadChar
    <3> QED
      BY <3>1, <3>2, <3>3
  <2>8. ASSUME NEW c \in Clients, ReadEof(c) \/ ReadReset(c) \/ WriteToGone(c) PROVE EchoTypeOK'
    <3>1. \E pc \in {"read", "write"} : kpc' = kpc \/ kpc' = [kpc EXCEPT ![c] = pc]
      BY <2>8 DEF ReadEof, ReadReset, WriteToGone, LineReturned
    <3>2. /\ kbuf' = kbuf \/ kbuf' = [kbuf EXCEPT ![c] = <<>>]
          /\ up' = up \/ up' = [up EXCEPT ![c] = <<>>]
      BY <2>8 DEF ReadEof, ReadReset, WriteToGone
    <3>3. UNCHANGED <<typed, line, cbuf, cpc, down, conn>>
      BY <2>8 DEF ReadEof, ReadReset, WriteToGone
    <3>4. kbuf' \in [Clients -> Seq(Nat)] /\ up' \in [Clients -> Seq(Nat)]
      <4>1. <<>> \in Seq(Nat)
        BY EmptySeq
      <4>2. kbuf' \in [Clients -> Seq(Nat)]
        BY <3>2, <4>1
      <4>3. up' \in [Clients -> Seq(Nat)]
        BY <3>2, <4>1
      <4> QED
        BY <4>2, <4>3
    <3>5. kpc' \in [Clients -> {"none", "read", "write", "refused"}]
      BY <3>1
    <3> QED
      BY <3>3, <3>4, <3>5
  <2>9. ASSUME NEW c \in Clients, WriteBack(c) PROVE EchoTypeOK'
    <3>1. PICK n \in Taken(kbuf[c], down[c]) :
            /\ down' = [down EXCEPT ![c] = @ \o SubSeq(kbuf[c], 1, n)]
            /\ kbuf' = [kbuf EXCEPT ![c] = Rest(@, n)]
            /\ kpc' = [kpc EXCEPT ![c] = IF n = Len(kbuf[c]) THEN "read" ELSE "write"]
      BY <2>9 DEF WriteBack
    <3>2. SubSeq(kbuf[c], 1, n) \in Seq(Nat) /\ Rest(kbuf[c], n) \in Seq(Nat)
      BY <3>1, SplitSeq DEF Taken
    <3>3. down[c] \o SubSeq(kbuf[c], 1, n) \in Seq(Nat)
      BY <3>2, JoinSeq
    <3>4. UNCHANGED <<typed, line, cbuf, cpc, up, conn>>
      BY <2>9 DEF WriteBack
    <3> QED
      BY <3>1, <3>2, <3>3, <3>4
  <2>10. CASE AcceptFails \/ Fork \/ ForkFails \/ InstallHandler \/ HandlerRuns
    BY <2>10 DEF AcceptFails, Fork, ForkFails, InstallHandler, HandlerRuns, Parent
  <2>11. CASE UNCHANGED evars
    BY <2>11 DEF evars
  <2> QED
    BY <2>1, <2>2, <2>3, <2>4, <2>5, <2>6, <2>7, <2>8, <2>9, <2>10, <2>11
       DEF EchoNext, Client, Child
<1> QED
  BY <1>1, <1>2, PTL DEF EchoSpec

(* A child ends only when its client has gone: what it read was never      *)
(* empty before, and every write failed for want of a reader.              *)
THEOREM ChildOutlivesClient == EchoSpec => []ChildFollowsClient
<1>1. EchoInit => ChildFollowsClient
  BY EchoConstantsOK DEF EchoInit, ChildrenInit, ChildFollowsClient
<1>2. EchoTypeOK /\ ChildrenTypeOK /\ ChildFollowsClient /\ [EchoNext]_evars => ChildFollowsClient'
  <2> SUFFICES ASSUME EchoTypeOK, ChildrenTypeOK, ChildFollowsClient, [EchoNext]_evars
               PROVE  ChildFollowsClient'
    OBVIOUS
  <2> USE EchoConstantsOK DEF ChildrenTypeOK, ChildFollowsClient
  <2>1. ASSUME NEW c \in Clients, Connect(c) \/ Client(c) \/ Kill(c) \/ Accept(c)
        PROVE  ChildFollowsClient'
    BY <2>1 DEF EchoTypeOK, Connect, Client, Type, Leave, Write, ReadEcho, Refused, Kill, Accept,
                ClientMoves, Parent, cvars, kvars
  <2>2. ASSUME NEW c \in Clients, ReadChar(c) PROVE ChildFollowsClient'
    <3>1. ~ Nothing(Append(kbuf[c], Head(up[c])))
      BY <2>2, MoveChar DEF EchoTypeOK, ReadChar, Nothing
    <3> QED
      BY <2>2, <3>1 DEF ReadChar, LineReturned, cvars, kvars
  <2>3. ASSUME NEW c \in Clients, ReadEof(c) \/ WriteToGone(c) PROVE ChildFollowsClient'
    BY <2>3 DEF ReadEof, WriteToGone, LineReturned, Ends, cvars, kvars
  <2>4. ASSUME NEW c \in Clients, ReadReset(c) \/ WriteBack(c) PROVE ChildFollowsClient'
    BY <2>4 DEF ReadReset, WriteBack, cvars, kvars
  <2>5. CASE AcceptFails \/ ForkFails \/ InstallHandler
    BY <2>5 DEF AcceptFails, ForkFails, InstallHandler, Install, Parent, cvars, kvars
  <2>6. CASE Fork
    BY <2>6 DEF Fork, Born, Parent, cvars
  <2>7. CASE HandlerRuns
    BY <2>7 DEF HandlerRuns, Handler, HandlerStarts, HandlerWaits, Zombies, cvars
  <2>8. CASE UNCHANGED evars
    BY <2>8 DEF evars, cvars, kvars
  <2> QED
    BY <2>1, <2>2, <2>3, <2>4, <2>5, <2>6, <2>7, <2>8 DEF EchoNext, Child
<1> QED
  BY <1>1, <1>2, EchoTypeCorrect, EchoImplementsChildren, ChildrenType, PTL DEF EchoSpec

-----------------------------------------------------------------------------
(* The echo is faithful.                                                   *)

(* Concatenation, kept folded in the steps below.                          *)
Join(s, t) == s \o t

LEMMA JoinIsSeq == \A s, t \in Seq(Nat) : Join(s, t) \in Seq(Nat)
  BY JoinSeq DEF Join

LEMMA JoinAssociative ==
  \A s, t, u \in Seq(Nat) : Join(Join(s, t), u) = Join(s, Join(t, u))
<1> SUFFICES ASSUME NEW s \in Seq(Nat), NEW t \in Seq(Nat), NEW u \in Seq(Nat)
             PROVE  Join(Join(s, t), u) = Join(s, Join(t, u))
  OBVIOUS
<1>1. (s \o t) \o u = s \o (t \o u)
  BY ConcatAssociative, SMTT(30)
<1> QED
  BY <1>1, Zenon DEF Join

LEMMA JoinEmpty ==
  \A s, t \in Seq(Nat) :
    /\ Join(s, <<>>) = s /\ Join(<<>>, s) = s
    /\ Join(s, t) = <<>> => s = <<>> /\ t = <<>>
  BY ConcatEmptySeq, ConcatEqualIffEmpty DEF Join

(* A write that is cut loses nothing.                                      *)
LEMMA CutAndJoin ==
  ASSUME NEW s \in Seq(Nat), NEW n \in 1 .. Len(s)
  PROVE  /\ SubSeq(s, 1, n) \o Rest(s, n) = s
         /\ n = Len(s) => SubSeq(s, 1, n) = s /\ Rest(s, n) = <<>>
         /\ n # Len(s) => Rest(s, n) # <<>>
<1>0. Len(s) \in Nat
  BY LenProperties
<1>1. SubSeq(s, 1, n) \o Rest(s, n) = SubSeq(s, 1, Len(s))
  BY <1>0, ConcatAdjacentSubSeq DEF Rest
<1>2. SubSeq(s, 1, Len(s)) = s
  BY SubSeqFull
<1>3. n = Len(s) => Rest(s, n) = <<>>
  BY <1>0, SubSeqEmpty DEF Rest
<1>4. n # Len(s) => Rest(s, n) # <<>>
  <2>1. \A i \in n + 1 .. Len(s) : s[i] \in Nat
    BY <1>0, ElementOfSeq
  <2>2. n + 1 <= Len(s) => Len(SubSeq(s, n + 1, Len(s))) = Len(s) - n
    BY <1>0, <2>1, SubSeqProperties
  <2>3. n # Len(s) => Len(Rest(s, n)) # 0
    BY <1>0, <2>2 DEF Rest
  <2> QED
    BY <2>3, EmptySeq
<1> QED
  BY <1>1, <1>2, <1>3, <1>4

(* Neither does moving one character.                                      *)
LEMMA MoveAndJoin ==
  ASSUME NEW s \in Seq(Nat), NEW t \in Seq(Nat), t # <<>>
  PROVE  Append(s, Head(t)) \o Tail(t) = s \o t
<1>1. Append(s, Head(t)) = s \o <<Head(t)>> /\ Head(t) \in Nat /\ Tail(t) \in Seq(Nat)
  BY HeadTailProperties, AppendIsConcat
<1>2. <<Head(t)>> \in Seq(Nat)
  BY <1>1
<1>3. <<Head(t)>> \o Tail(t) = t
  <2>1. Len(t) \in Nat \ {0} /\ t[1] = Head(t)
    BY EmptySeq
  <2>2. SubSeq(t, 1, Len(t)) = <<t[1]>> \o SubSeq(t, 2, Len(t))
    BY <2>1, SubSeqRecursiveFirst
  <2> QED
    BY <2>1, <2>2, SubSeqFull, TailIsSubSeq
<1>4. (s \o <<Head(t)>>) \o Tail(t) = s \o (<<Head(t)>> \o Tail(t))
  BY <1>1, <1>2, ConcatAssociative
<1> QED
  BY <1>1, <1>3, <1>4, Zenon

(* A line of acSendData: a newline only at its end, B - 1 characters at    *)
(* most.                                                                   *)
OneLine(c, l) ==
  /\ Len(l) <= B - 1
  /\ \A i \in 1 .. Len(l) - 1 : ~ Newline(c, l[i])

(* iReadLine does not stop within a line.                                  *)
LEMMA WholeLine ==
  ASSUME NEW c \in Clients, NEW p \in Seq(Nat), NEW q \in Seq(Nat),
         OneLine(c, p \o q), LineRead(c, p)
  PROVE  q = <<>>
<1> SUFFICES ASSUME q # <<>> PROVE FALSE
  OBVIOUS
<1>1. Len(p) \in Nat \ {0} /\ Len(q) \in Nat \ {0}
  BY EmptySeq DEF LineRead
<1>2. Len(p \o q) = Len(p) + Len(q) /\ (p \o q)[Len(p)] = p[Len(p)]
  <2>1. Len(p) \in 1 .. Len(p) + Len(q)
    BY <1>1
  <2> QED
    BY <1>1, <2>1, ConcatProperties
<1>3. Len(p) \in 1 .. Len(p \o q) - 1
  BY <1>1, <1>2
<1> QED
  BY <1>1, <1>2, <1>3, EchoConstantsOK DEF OneLine, LineRead

(* What clients take with fgets are lines.                                 *)
LEMMA LinesTaken == EchoSpec => [](\A c \in Clients : OneLine(c, line[c]))
<1>1. EchoInit => \A c \in Clients : OneLine(c, line[c])
  <2> SUFFICES ASSUME EchoInit, NEW c \in Clients PROVE OneLine(c, line[c])
    OBVIOUS
  <2>1. line[c] = <<>> /\ Len(line[c]) = 0
    BY EmptySeq DEF EchoInit
  <2> QED
    BY <2>1, EchoConstantsOK DEF OneLine
<1>2. EchoTypeOK /\ (\A c \in Clients : OneLine(c, line[c])) /\ [EchoNext]_evars
        => (\A c \in Clients : OneLine(c, line[c]))'
  <2> SUFFICES ASSUME EchoTypeOK, \A c \in Clients : OneLine(c, line[c]), [EchoNext]_evars
               PROVE  \A c \in Clients : OneLine(c, line'[c])
    BY DEF OneLine, Newline
  <2>1. ASSUME NEW c \in Clients, Type(c) PROVE \A d \in Clients : OneLine(d, line'[d])
    <3>1. PICK n \in typed[c] + 1 .. Len(Inputs[c]) :
            LET taken == [i \in 1 .. n - typed[c] |-> typed[c] + i]
            IN  /\ \A k \in 1 .. Len(taken) - 1 : ~ Filled(c, SubSeq(taken, 1, k))
                /\ line' = [line EXCEPT ![c] = taken]
      BY <2>1 DEF Type
    <3> DEFINE size  == n - typed[c]
               taken == [i \in 1 .. size |-> typed[c] + i]
    <3>2. typed[c] \in Nat /\ n \in Int /\ size \in Nat
      BY <3>1 DEF EchoTypeOK
    <3>3. Len(taken) = size
      BY <3>2
    <3>4. ASSUME NEW k \in 1 .. size - 1
          PROVE  ~ Newline(c, taken[k]) /\ k # B - 1
      <4>1. ~ Filled(c, SubSeq(taken, 1, k))
        BY <3>1, <3>3
      <4>2. \A i \in 1 .. k : taken[i] \in Nat
        BY <3>2
      <4>3. Len(SubSeq(taken, 1, k)) = k /\ SubSeq(taken, 1, k)[k] = taken[k]
        BY <3>2, <4>2, SubSeqProperties
      <4>4. SubSeq(taken, 1, k) # <<>>
        <5>1. Len(<<>>) = 0
          BY EmptySeq
        <5>2. k # 0
          BY <3>2
        <5> QED
          BY <4>3, <5>1, <5>2
      <4> QED
        BY <4>1, <4>3, <4>4 DEF Filled
    <3>5. size <= B - 1
      <4> SUFFICES ASSUME size > B - 1 PROVE FALSE
        BY <3>2, EchoConstantsOK
      <4>1. B - 1 \in 1 .. size - 1
        BY <3>2, EchoConstantsOK
      <4> QED
        BY <3>4, <4>1
    <3>6. OneLine(c, taken)
      BY <3>3, <3>4, <3>5 DEF OneLine
    <3> QED
      BY <3>1, <3>6 DEF EchoTypeOK
  <2>2. ASSUME NEW c \in Clients,
               Connect(c) \/ Leave(c) \/ Write(c) \/ ReadEcho(c) \/ Refused(c) \/ Kill(c) \/ Accept(c) \/ Child(c)
        PROVE  line' = line
    BY <2>2 DEF Connect, Leave, Write, ReadEcho, Refused, Kill, Accept, Child, Parent,
                ReadChar, ReadEof, ReadReset, WriteBack, WriteToGone, cvars
  <2>3. CASE AcceptFails \/ Fork \/ ForkFails \/ InstallHandler \/ HandlerRuns
    BY <2>3 DEF AcceptFails, Fork, ForkFails, InstallHandler, HandlerRuns, Parent, cvars
  <2>4. CASE UNCHANGED evars
    BY <2>4 DEF evars, cvars
  <2> QED
    BY <2>1, <2>2, <2>3, <2>4 DEF EchoNext, Client
<1> QED
  BY <1>1, <1>2, EchoTypeCorrect, PTL DEF EchoSpec

(* Only who has gone leaves a reset behind; and who is forked for is new.  *)
Quiet ==
  /\ reset \in [Clients -> BOOLEAN]
  /\ \A c \in Clients : reset[c] => cpc[c] = "gone"
  /\ spc = "fork" /\ conn \in Clients => kpc[conn] = "none"

LEMMA EchoQuiet == EchoSpec => []Quiet
<1>1. EchoInit => Quiet
  BY EchoConstantsOK DEF EchoInit, Quiet
<1>2. EchoTypeOK /\ Quiet /\ [EchoNext]_evars => Quiet'
  <2> SUFFICES ASSUME EchoTypeOK, Quiet, [EchoNext]_evars PROVE Quiet'
    OBVIOUS
  <2> USE EchoConstantsOK DEF EchoTypeOK, Quiet, ClientMoves, tvars, svars
  <2>1. ASSUME NEW c \in Clients, Connect(c) \/ Type(c) \/ Leave(c) \/ Write(c) \/ ReadEcho(c) \/ Refused(c)
        PROVE  Quiet'
    BY <2>1, ZenonT(30) DEF Connect, Type, Leave, Write, ReadEcho, Refused
  <2>2. ASSUME NEW c \in Clients, Kill(c) PROVE Quiet'
    BY <2>2 DEF Kill
  <2>3. ASSUME NEW c \in Clients, Accept(c) PROVE Quiet'
    BY <2>3 DEF Accept, Parent, cvars
  <2>4. ASSUME NEW c \in Clients, ReadChar(c) \/ ReadEof(c) \/ ReadReset(c) PROVE Quiet'
    BY <2>4 DEF ReadChar, ReadEof, ReadReset, LineReturned, cvars
  <2>5. ASSUME NEW c \in Clients, WriteBack(c) \/ WriteToGone(c) PROVE Quiet'
    BY <2>5, ZenonT(30) DEF WriteBack, WriteToGone, cvars
  <2>6. CASE AcceptFails \/ Fork \/ ForkFails \/ InstallHandler \/ HandlerRuns
    BY <2>6 DEF AcceptFails, Fork, ForkFails, InstallHandler, HandlerRuns, Parent, cvars
  <2>7. CASE UNCHANGED evars
    BY <2>7 DEF evars, cvars
  <2> QED
    BY <2>1, <2>2, <2>3, <2>4, <2>5, <2>6, <2>7 DEF EchoNext, Client, Child
<1> QED
  BY <1>1, <1>2, EchoTypeCorrect, PTL DEF EchoSpec

(* Where the pieces of a client's line are: with its child only what was   *)
(* written, on its way back only when all of it was, nowhere at a prompt.  *)
Whole(c) ==
  kpc[c] # "refused" =>
    /\ kpc[c] = "write" => kbuf[c] # <<>>
    /\ cpc[c] \in {"new", "prompt"} =>
         cbuf[c] = line[c] /\ down[c] = <<>> /\ kbuf[c] = <<>> /\ up[c] = <<>>
    /\ cpc[c] = "write" =>
         /\ kpc[c] # "write" /\ cbuf[c] # <<>> /\ down[c] = <<>>
         /\ Join(Join(kbuf[c], up[c]), cbuf[c]) = line[c]
    /\ cpc[c] = "read" => Join(Join(Join(cbuf[c], down[c]), kbuf[c]), up[c]) = line[c]

EchoInv ==
  /\ EchoTypeOK /\ Quiet
  /\ \A c \in Clients : OneLine(c, line[c])
  /\ \A c \in Clients : Whole(c)

(* fgets fills an empty buffer.                                            *)
LEMMA TypeWhole ==
  ASSUME EchoInv, NEW c \in Clients, Type(c), EchoTypeOK'
  PROVE  Whole(c)'
<1>1. PICK n \in typed[c] + 1 .. Len(Inputs[c]) :
        LET taken == [i \in 1 .. n - typed[c] |-> typed[c] + i]
        IN  /\ line' = [line EXCEPT ![c] = taken]
            /\ cbuf' = [cbuf EXCEPT ![c] = taken]
  BY DEF Type
<1>2. line'[c] = cbuf'[c] /\ line'[c] \in Seq(Nat)
  BY <1>1 DEF EchoInv, EchoTypeOK
<1>3. Len(cbuf'[c]) = n - typed[c] /\ n - typed[c] # 0
  BY <1>1, SMTT(30) DEF EchoInv, EchoTypeOK
<1>4. cbuf'[c] # <<>>
  BY <1>3, EmptySeq
<1>5. cpc[c] = "prompt" /\ cpc'[c] = "write" /\ UNCHANGED <<up, down, kbuf, kpc>>
  BY DEF EchoInv, EchoTypeOK, Type, ClientMoves, tvars, svars
<1>6. <<>> \in Seq(Nat)
  BY EmptySeq
<1>7. Join(Join(<<>>, <<>>), cbuf'[c]) = line'[c]
  BY <1>2, <1>6, JoinEmpty
<1> QED
  BY <1>4, <1>5, <1>7 DEF EchoInv, Whole

(* A piece of the line moves into the stream.                              *)
LEMMA WriteWhole ==
  ASSUME EchoInv, NEW c \in Clients, Write(c)
  PROVE  Whole(c)'
<1>1. PICK n \in 1 .. Len(cbuf[c]) :
        /\ up'[c] = Join(up[c], SubSeq(cbuf[c], 1, n))
        /\ cbuf'[c] = Rest(cbuf[c], n)
        /\ cpc'[c] = IF n = Len(cbuf[c]) THEN "read" ELSE "write"
  BY DEF EchoInv, EchoTypeOK, Write, Taken, ClientMoves, Join
<1>2. cpc[c] = "write" /\ kpc[c] # "refused" /\ UNCHANGED <<line, down, kbuf, kpc>>
  BY DEF Write, svars
<1>3. up[c] \in Seq(Nat) /\ cbuf[c] \in Seq(Nat) /\ kbuf[c] \in Seq(Nat)
  BY DEF EchoInv, EchoTypeOK
<1>4. PICK s \in Seq(Nat), r \in Seq(Nat) :
        /\ up'[c] = Join(up[c], s) /\ cbuf'[c] = r /\ Join(s, r) = cbuf[c]
        /\ r = <<>> <=> n = Len(cbuf[c])
  <2>1. SubSeq(cbuf[c], 1, n) \in Seq(Nat) /\ Rest(cbuf[c], n) \in Seq(Nat)
    BY <1>1, <1>3, SplitSeq
  <2>2. /\ Join(SubSeq(cbuf[c], 1, n), Rest(cbuf[c], n)) = cbuf[c]
        /\ Rest(cbuf[c], n) = <<>> <=> n = Len(cbuf[c])
    BY <1>1, <1>3, CutAndJoin, Zenon DEF Join
  <2> QED
    BY <1>1, <2>1, <2>2, Zenon
<1>5. /\ down[c] = <<>> /\ kpc[c] # "write"
      /\ Join(Join(kbuf[c], up[c]), Join(s, r)) = line[c]
  BY <1>2, <1>4 DEF EchoInv, Whole
<1>6. Join(Join(kbuf[c], Join(up[c], s)), r) = line[c]
  <2>1. Join(kbuf[c], up[c]) \in Seq(Nat)
    BY <1>3, JoinIsSeq
  <2>2. Join(Join(Join(kbuf[c], up[c]), s), r) = line[c]
    BY <1>5, <2>1, JoinAssociative
  <2>3. Join(Join(kbuf[c], up[c]), s) = Join(kbuf[c], Join(up[c], s))
    BY <1>3, JoinAssociative
  <2> QED
    BY <2>2, <2>3
<1>7. CASE r # <<>>
  BY <1>1, <1>2, <1>4, <1>5, <1>6, <1>7 DEF Whole
<1>8. CASE r = <<>>
  <2>1. Join(Join(<<>>, <<>>), kbuf[c]) = kbuf[c]
    BY <1>3, <1>4, <1>8, JoinEmpty
  <2>2. Join(kbuf[c], Join(up[c], s)) = line[c]
    BY <1>3, <1>4, <1>6, <1>8, JoinIsSeq, JoinEmpty
  <2> QED
    BY <1>1, <1>2, <1>4, <1>5, <1>8, <2>1, <2>2 DEF Whole
<1> QED
  BY <1>7, <1>8

(* The client reads a character; if that ends its line, nothing is left.   *)
LEMMA ReadEchoWhole ==
  ASSUME EchoInv, NEW c \in Clients, ReadEcho(c)
  PROVE  Whole(c)'
<1> SUFFICES ASSUME kpc[c] # "refused" PROVE Whole(c)'
  BY DEF ReadEcho, svars, Whole
<1>1. /\ cpc[c] = "read" /\ down[c] # <<>>
      /\ down'[c] = Tail(down[c]) /\ cbuf'[c] = Append(cbuf[c], Head(down[c]))
      /\ cpc'[c] = IF LineRead(c, cbuf'[c]) THEN "prompt" ELSE "read"
      /\ UNCHANGED <<line, up, kbuf, kpc>>
  BY DEF EchoInv, EchoTypeOK, ReadEcho, ClientMoves, svars
<1>2. up[c] \in Seq(Nat) /\ kbuf[c] \in Seq(Nat) /\ cbuf[c] \in Seq(Nat) /\ down[c] \in Seq(Nat)
  BY DEF EchoInv, EchoTypeOK
<1>3. PICK b \in Seq(Nat), t \in Seq(Nat) :
        b = cbuf'[c] /\ t = down'[c] /\ Join(b, t) = Join(cbuf[c], down[c])
  BY <1>1, <1>2, MoveChar, MoveAndJoin, ZenonT(30) DEF Join
<1>4. Join(Join(Join(b, t), kbuf[c]), up[c]) = line[c]
  BY <1>1, <1>3 DEF EchoInv, Whole
<1>5. CASE ~ LineRead(c, b)
  BY <1>1, <1>3, <1>4, <1>5 DEF EchoInv, Whole
<1>6. CASE LineRead(c, b)
  <2>1. PICK q \in Seq(Nat) : q = Join(Join(t, kbuf[c]), up[c])
    BY <1>2, JoinIsSeq
  <2>2. Join(b, q) = line[c]
    <3>1. Join(b, t) \in Seq(Nat) /\ Join(t, kbuf[c]) \in Seq(Nat)
      BY <1>2, JoinIsSeq
    <3>2. Join(Join(b, t), kbuf[c]) = Join(b, Join(t, kbuf[c]))
      BY <1>2, JoinAssociative
    <3>3. Join(Join(b, Join(t, kbuf[c])), up[c]) = Join(b, q)
      BY <1>2, <2>1, <3>1, JoinAssociative
    <3> QED
      BY <1>4, <3>2, <3>3
  <2>3. OneLine(c, b \o q)
    BY <2>2 DEF EchoInv, Join
  <2>4. q = <<>>
    BY <1>6, <2>3, WholeLine
  <2>5. t = <<>> /\ kbuf[c] = <<>> /\ up[c] = <<>>
    <3>1. Join(t, kbuf[c]) \in Seq(Nat)
      BY <1>2, JoinIsSeq
    <3>2. Join(t, kbuf[c]) = <<>> /\ up[c] = <<>>
      <4>1. Join(Join(t, kbuf[c]), up[c]) = <<>>
        BY <2>1, <2>4
      <4> QED
        BY <1>2, <3>1, <4>1, JoinEmpty, Zenon
    <3> QED
      BY <1>2, <3>2, JoinEmpty
  <2>6. b = line[c]
    BY <2>2, <2>4, JoinEmpty
  <2> QED
    BY <1>1, <1>3, <1>6, <2>5, <2>6 DEF EchoInv, Whole
<1> QED
  BY <1>5, <1>6

(* The child reads a character; before the whole line is written it does   *)
(* not stop.                                                               *)
LEMMA ReadCharWhole ==
  ASSUME EchoInv, NEW c \in Clients, ReadChar(c)
  PROVE  Whole(c)'
<1>1. /\ up[c] # <<>> /\ kpc[c] = "read"
      /\ up'[c] = Tail(up[c]) /\ kbuf'[c] = Append(kbuf[c], Head(up[c]))
      /\ UNCHANGED <<line, cpc, cbuf, down>>
      /\ \/ LineRead(c, kbuf'[c]) /\ kpc'[c] \in {"read", "write"}
         \/ kpc'[c] = "read"
  BY DEF EchoInv, EchoTypeOK, ReadChar, LineReturned, cvars
<1>2. up[c] \in Seq(Nat) /\ kbuf[c] \in Seq(Nat) /\ cbuf[c] \in Seq(Nat) /\ down[c] \in Seq(Nat)
  BY DEF EchoInv, EchoTypeOK
<1>3. PICK b \in Seq(Nat), t \in Seq(Nat) :
        b = kbuf'[c] /\ t = up'[c] /\ b # <<>> /\ Join(b, t) = Join(kbuf[c], up[c])
  BY <1>1, <1>2, MoveChar, MoveAndJoin, ZenonT(30) DEF Join
<1>4. CASE cpc[c] = "write"
  <2>1. Join(Join(b, t), cbuf[c]) = line[c] /\ down[c] = <<>> /\ cbuf[c] # <<>>
    BY <1>1, <1>3, <1>4 DEF EchoInv, Whole
  <2>2. Join(b, Join(t, cbuf[c])) = line[c]
    BY <1>2, <2>1, JoinAssociative
  <2>3. ASSUME LineRead(c, b) PROVE FALSE
    <3>1. PICK q \in Seq(Nat) : q = Join(t, cbuf[c])
      BY <1>2, JoinIsSeq
    <3>2. OneLine(c, b \o q)
      BY <2>2, <3>1 DEF EchoInv, Join
    <3>3. q = <<>>
      BY <2>3, <3>2, WholeLine
    <3> QED
      BY <1>2, <2>1, <3>1, <3>3, JoinEmpty, ZenonT(30)
  <2> QED
    BY <1>1, <1>3, <1>4, <2>1, <2>3 DEF Whole
<1>5. CASE cpc[c] = "read"
  <2>1. PICK a \in Seq(Nat) : a = Join(cbuf[c], down[c])
    BY <1>2, JoinIsSeq
  <2>2. Join(Join(a, kbuf[c]), up[c]) = line[c]
    BY <1>1, <1>5, <2>1 DEF EchoInv, Whole
  <2>3. Join(Join(a, kbuf[c]), up[c]) = Join(a, Join(b, t))
    BY <1>2, <1>3, JoinAssociative
  <2>4. Join(Join(a, b), t) = line[c]
    BY <2>2, <2>3, JoinAssociative
  <2> QED
    BY <1>1, <1>3, <1>5, <2>1, <2>4 DEF Whole
<1>6. CASE cpc[c] \in {"new", "prompt"}
  BY <1>1, <1>6 DEF EchoInv, Whole
<1>7. CASE cpc[c] = "gone"
  BY <1>1, <1>3, <1>7 DEF Whole
<1> QED
  BY <1>4, <1>5, <1>6, <1>7 DEF EchoInv, EchoTypeOK

(* A piece of the line moves into the stream that leads back.              *)
LEMMA WriteBackWhole ==
  ASSUME EchoInv, NEW c \in Clients, WriteBack(c)
  PROVE  Whole(c)'
<1>1. PICK n \in 1 .. Len(kbuf[c]) :
        /\ down'[c] = Join(down[c], SubSeq(kbuf[c], 1, n))
        /\ kbuf'[c] = Rest(kbuf[c], n)
        /\ kpc'[c] = IF n = Len(kbuf[c]) THEN "read" ELSE "write"
  BY DEF EchoInv, EchoTypeOK, WriteBack, Taken, Join
<1>2. kpc[c] = "write" /\ cpc[c] # "gone" /\ UNCHANGED <<line, cpc, cbuf, up>>
  BY DEF WriteBack, cvars
<1>3. up[c] \in Seq(Nat) /\ kbuf[c] \in Seq(Nat) /\ cbuf[c] \in Seq(Nat) /\ down[c] \in Seq(Nat)
  BY DEF EchoInv, EchoTypeOK
<1>4. PICK s \in Seq(Nat), r \in Seq(Nat) :
        /\ down'[c] = Join(down[c], s) /\ kbuf'[c] = r /\ Join(s, r) = kbuf[c]
        /\ r = <<>> <=> n = Len(kbuf[c])
  <2>1. SubSeq(kbuf[c], 1, n) \in Seq(Nat) /\ Rest(kbuf[c], n) \in Seq(Nat)
    BY <1>1, <1>3, SplitSeq
  <2>2. /\ Join(SubSeq(kbuf[c], 1, n), Rest(kbuf[c], n)) = kbuf[c]
        /\ Rest(kbuf[c], n) = <<>> <=> n = Len(kbuf[c])
    BY <1>1, <1>3, CutAndJoin, Zenon DEF Join
  <2> QED
    BY <1>1, <2>1, <2>2, Zenon
<1>5. cpc[c] = "read"
  BY <1>2 DEF EchoInv, EchoTypeOK, Whole
<1>6. Join(Join(Join(cbuf[c], down[c]), Join(s, r)), up[c]) = line[c]
  BY <1>2, <1>4, <1>5 DEF EchoInv, Whole
<1>7. Join(Join(cbuf[c], down[c]), Join(s, r)) = Join(Join(cbuf[c], Join(down[c], s)), r)
  <2>1. Join(cbuf[c], down[c]) \in Seq(Nat)
    BY <1>3, JoinIsSeq
  <2>2. Join(Join(cbuf[c], down[c]), Join(s, r)) = Join(Join(Join(cbuf[c], down[c]), s), r)
    BY <2>1, JoinAssociative
  <2>3. Join(Join(cbuf[c], down[c]), s) = Join(cbuf[c], Join(down[c], s))
    BY <1>3, JoinAssociative
  <2> QED
    BY <2>2, <2>3
<1>8. Join(Join(Join(cbuf[c], Join(down[c], s)), r), up[c]) = line[c]
  BY <1>6, <1>7
<1> QED
  BY <1>1, <1>2, <1>4, <1>5, <1>8 DEF Whole

(* The echo comes back as the line was written, however the writes and     *)
(* reads of both are cut, whoever is killed and whatever else fails.       *)
THEOREM EchoComesBack == EchoSpec => []EchoFaithful
<1> DEFINE Wholes == \A c \in Clients : Whole(c)
<1>1. EchoInit => Wholes
  BY EchoConstantsOK DEF EchoInit, Whole
<1>2. EchoInv /\ EchoTypeOK' /\ [EchoNext]_evars => Wholes'
  <2> SUFFICES ASSUME EchoInv, EchoTypeOK', [EchoNext]_evars, NEW c \in Clients
               PROVE  Whole(c)'
    OBVIOUS
  <2> DEFINE Same == UNCHANGED <<line[c], cbuf[c], cpc[c], up[c], down[c], kbuf[c], kpc[c]>>
  <2>1. CASE Same
    BY <2>1 DEF EchoInv, Whole
  <2>2. CASE Type(c)
    BY <2>2, TypeWhole
  <2>3. CASE Write(c)
    BY <2>3, WriteWhole
  <2>4. CASE ReadEcho(c)
    BY <2>4, ReadEchoWhole
  <2>5. CASE ReadChar(c)
    BY <2>5, ReadCharWhole
  <2>6. CASE WriteBack(c)
    BY <2>6, WriteBackWhole
  <2>7. CASE Connect(c) \/ Leave(c) \/ Kill(c)
    BY <2>7 DEF EchoInv, EchoTypeOK, Whole, Connect, Leave, Kill, ClientMoves, tvars, svars
  <2>8. CASE Refused(c)
    BY <2>8 DEF EchoInv, Whole, Refused, svars
  <2>9. CASE ReadEof(c)
    <3>1. kpc[c] = "read" /\ cpc'[c] = "gone" /\ kbuf' = kbuf
      BY <2>9 DEF ReadEof, cvars
    <3>2. kpc'[c] = "write" => Len(kbuf[c]) # 0
      BY <2>9, <3>1 DEF ReadEof, LineReturned, Nothing
    <3> QED
      BY <3>1, <3>2, EmptySeq DEF Whole
  <2>10. CASE ReadReset(c) \/ WriteToGone(c)
    BY <2>10 DEF EchoInv, EchoTypeOK, Quiet, Whole, ReadReset, WriteToGone, cvars
  <2>11. CASE Fork \/ ForkFails
    BY <2>11 DEF EchoInv, EchoTypeOK, Quiet, Whole, Fork, ForkFails, Parent, cvars, tvars
  <2>12. CASE Accept(c) \/ AcceptFails \/ InstallHandler \/ HandlerRuns \/ UNCHANGED evars
    <3> Same
      BY <2>12 DEF Accept, AcceptFails, InstallHandler, HandlerRuns, Parent, evars, cvars, tvars, svars
    <3> QED
      BY <2>1
  <2>13. ASSUME NEW d \in Clients, d # c,
                Connect(d) \/ Client(d) \/ Kill(d) \/ Accept(d) \/ Child(d)
         PROVE  Same
    <3> USE DEF EchoInv, EchoTypeOK, ClientMoves, cvars, tvars, svars
    <3>1. CASE Connect(d) \/ Leave(d) \/ Kill(d) \/ Accept(d)
      BY <2>13, <3>1 DEF Connect, Leave, Kill, Accept, Parent
    <3>2. CASE Type(d)
      BY <2>13, <3>2 DEF Type
    <3>3. CASE Write(d)
      BY <2>13, <3>3 DEF Write
    <3>6. CASE ReadEcho(d) \/ Refused(d)
      BY <2>13, <3>6, SMTT(30) DEF ReadEcho, Refused
    <3>4. CASE ReadChar(d) \/ ReadEof(d) \/ ReadReset(d)
      BY <2>13, <3>4 DEF ReadChar, ReadEof, ReadReset, LineReturned
    <3>5. CASE WriteBack(d) \/ WriteToGone(d)
      BY <2>13, <3>5, SMTT(30) DEF WriteBack, WriteToGone
    <3> QED
      BY <2>13, <3>1, <3>2, <3>3, <3>4, <3>5, <3>6 DEF Client, Child
  <2> QED
    BY <2>1, <2>2, <2>3, <2>4, <2>5, <2>6, <2>7, <2>8, <2>9, <2>10, <2>11, <2>12, <2>13
       DEF EchoNext, Client, Child
<1>3. EchoInv => EchoFaithful
  <2> SUFFICES ASSUME EchoInv, NEW c \in Clients, kpc[c] # "refused"
               PROVE  CASE cpc[c] = "write"  -> kbuf[c] \o up[c] \o cbuf[c] = line[c] /\ down[c] = <<>>
                        [] cpc[c] = "read"   -> cbuf[c] \o down[c] \o kbuf[c] \o up[c] = line[c]
                        [] cpc[c] = "prompt" -> cbuf[c] = line[c] /\ down[c] \o kbuf[c] \o up[c] = <<>>
                        [] OTHER -> TRUE
    BY DEF EchoFaithful
  <2>1. cpc[c] = "write" => kbuf[c] \o up[c] \o cbuf[c] = line[c] /\ down[c] = <<>>
    BY Zenon DEF EchoInv, Whole, Join
  <2>2. cpc[c] = "read" => cbuf[c] \o down[c] \o kbuf[c] \o up[c] = line[c]
    BY Zenon DEF EchoInv, Whole, Join
  <2>3. cpc[c] = "prompt" => cbuf[c] = line[c] /\ down[c] \o kbuf[c] \o up[c] = <<>>
    <3>1. <<>> \o <<>> \o <<>> = <<>>
      BY ConcatEmptySeq, EmptySeq
    <3> QED
      BY <3>1 DEF EchoInv, Whole
  <2> QED
    BY <2>1, <2>2, <2>3
<1> QED
  BY <1>1, <1>2, <1>3, EchoTypeCorrect, EchoQuiet, LinesTaken, PTL DEF EchoSpec, EchoInv
=============================================================================
