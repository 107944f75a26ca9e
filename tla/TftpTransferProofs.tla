------------------------- MODULE TftpTransferProofs -------------------------
(***************************************************************************)
(* Machine-checked proofs about TftpRead and TftpWrite: both transfer      *)
(* loops implement FileTransfer, for every file, timeout and number of     *)
(* retries, and for every network that loses, repeats and reorders, as     *)
(* long as fewer datagrams overtake one than there are block numbers.      *)
(***************************************************************************)
EXTENDS TftpRead, TftpWrite, Integers, SequenceTheorems, TLAPS

-----------------------------------------------------------------------------
(* Block numbers.                                                          *)

(* Two blocks of the same number are the same, or Mod blocks apart.        *)
LEMMA NumberIsBlock ==
  ASSUME NEW M \in Nat \ {0}, NEW a \in Nat, NEW b \in Nat,
         a <= b, b < a + M, a % M = b % M
  PROVE  a = b
<1> DEFINE p == a \div M
           q == b \div M
           r == a % M
<1>1. a = M * p + r /\ b = M * q + r /\ p \in Int /\ q \in Int /\ r \in Int
  OBVIOUS
<1> HIDE DEF p, q, r
<1>2. M * (q - p) = b - a
  BY <1>1
<1>3. CASE q <= p - 1
  <2>1. M * (q - p) <= M * (-1)
    BY <1>1, <1>3
  <2> QED
    BY <1>2, <2>1
<1>4. CASE q >= p + 1
  <2>1. M * (q - p) >= M
    BY <1>1, <1>4
  <2> QED
    BY <1>2, <2>1
<1>5. CASE q = p
  BY <1>1, <1>5
<1> QED
  BY <1>1, <1>3, <1>4, <1>5

(* block_number++ of the unsigned short counts blocks modulo Mod.          *)
LEMMA NextNumber ==
  ASSUME NEW M \in Nat \ {0, 1}, NEW a \in Nat
  PROVE  ((a % M) + 1) % M = (a + 1) % M
<1> DEFINE p == a \div M
           r == a % M
<1>1. a = M * p + r /\ p \in Int /\ r \in 0 .. M - 1
  OBVIOUS
<1> HIDE DEF p, r
<1>2. CASE r + 1 < M
  <2>1. (a + 1) % M = r + 1 /\ (r + 1) % M = r + 1
    BY <1>1, <1>2
  <2> QED
    BY <2>1 DEF r
<1>3. CASE r + 1 = M
  <2>1. a + 1 = M * (p + 1)
    BY <1>1, <1>3
  <2>2. (a + 1) % M = 0 /\ (r + 1) % M = 0
    BY <1>1, <1>3, <2>1
  <2> QED
    BY <2>2 DEF r
<1> QED
  BY <1>1, <1>2, <1>3

(* What is left of a sequence without its i-th element.                    *)
LEMMA Removed ==
  ASSUME NEW S, NEW s \in Seq(S), NEW i \in 1 .. Len(s)
  PROVE  /\ RemoveAt(s, i) \in Seq(S)
         /\ Len(RemoveAt(s, i)) = Len(s) - 1
         /\ \A j \in 1 .. Len(s) - 1 :
              RemoveAt(s, i)[j] = s[IF j < i THEN j ELSE j + 1]
<1> DEFINE front == SubSeq(s, 1, i - 1)
           back  == SubSeq(s, i + 1, Len(s))
<1>1. Len(s) \in Nat /\ \A j \in 1 .. Len(s) : s[j] \in S
  BY LenProperties, ElementOfSeq
<1>2. /\ front \in Seq(S) /\ Len(front) = i - 1
      /\ \A j \in 1 .. i - 1 : front[j] = s[j]
  <2>1. \A j \in 1 .. i - 1 : s[j] \in S
    BY <1>1
  <2>2. /\ front \in Seq(S)
        /\ Len(front) = IF 1 <= i - 1 THEN (i - 1) - 1 + 1 ELSE 0
        /\ \A j \in 1 .. (i - 1) - 1 + 1 : front[j] = s[1 + j - 1]
    BY <1>1, <2>1, SubSeqProperties
  <2> QED
    BY <1>1, <2>2
<1>3. /\ back \in Seq(S) /\ Len(back) = Len(s) - i
      /\ \A j \in 1 .. Len(s) - i : back[j] = s[i + j]
  <2>1. \A j \in i + 1 .. Len(s) : s[j] \in S
    BY <1>1
  <2>2. /\ back \in Seq(S)
        /\ Len(back) = IF i + 1 <= Len(s) THEN Len(s) - (i + 1) + 1 ELSE 0
        /\ \A j \in 1 .. Len(s) - (i + 1) + 1 : back[j] = s[(i + 1) + j - 1]
    BY <1>1, <2>1, SubSeqProperties
  <2> QED
    BY <1>1, <2>2
<1> HIDE DEF front, back
<1>4. /\ front \o back \in Seq(S)
      /\ Len(front \o back) = Len(front) + Len(back)
      /\ \A j \in 1 .. Len(front) + Len(back) :
           (front \o back)[j] = IF j <= Len(front) THEN front[j] ELSE back[j - Len(front)]
  BY <1>2, <1>3, ConcatProperties
<1>5. RemoveAt(s, i) = front \o back
  BY DEF RemoveAt, front, back
<1> DEFINE t == front \o back
<1> HIDE DEF t
<1>6. /\ t \in Seq(S) /\ Len(t) = Len(s) - 1
      /\ \A j \in 1 .. Len(s) - 1 :
           t[j] = IF j <= i - 1 THEN front[j] ELSE back[j - (i - 1)]
  BY <1>1, <1>2, <1>3, <1>4 DEF t
<1>7. ASSUME NEW j \in 1 .. Len(s) - 1
      PROVE  t[j] = s[IF j < i THEN j ELSE j + 1]
  <2>1. CASE j <= i - 1
    BY <1>1, <1>2, <1>6, <2>1
  <2>2. CASE j > i - 1
    <3>1. j - (i - 1) \in 1 .. Len(s) - i /\ i + (j - (i - 1)) = j + 1
      BY <1>1, <2>2
    <3> QED
      BY <1>1, <1>3, <1>6, <2>2, <3>1
  <2> QED
    BY <2>1, <2>2
<1> QED
  BY <1>5, <1>6, <1>7 DEF t

-----------------------------------------------------------------------------
(* A direction of the link.  Datagrams carry block numbers only; what they *)
(* mean is a numbering of the datagrams under way by the blocks they are   *)
(* about.  It does not decrease along the channel, as a side never goes    *)
(* back, and it stays near to what the receiving side waits for: a         *)
(* datagram lags behind by as many blocks as others have overtaken it.     *)

Datagrams ==
       [op : {"data"}, block : Nat, data : Nat, over : 0 .. Reorder]
  \cup [op : {"ack", "error"}, block : Nat, over : 0 .. Reorder]

(* m is a datagram about the k-th block; an ERROR is about none.           *)
Carries(m, k) ==
  /\ m.op # "error" => m.block = k % Mod
  /\ m.op = "data" => m.data = k

Numbering(channel, g, low, top) ==
  /\ g \in [1 .. Len(channel) -> 0 .. top]
  /\ \A i \in 1 .. Len(channel) : Carries(channel[i], g[i]) /\ low <= g[i] + channel[i].over
  /\ \A i, j \in 1 .. Len(channel) : i <= j => g[i] <= g[j]

InStep(channel, low, top) ==
  /\ channel \in Seq(Datagrams)
  /\ \E g : Numbering(channel, g, low, top)

(* What the assumptions on the constants say that the proofs need.         *)
LEMMA LinkDomains ==
  /\ Blocks \in Nat \ {0} /\ Mod \in Nat \ {0, 1} /\ Reorder \in Nat /\ Cap \in Nat \ {0}
  /\ Reorder + 1 < Mod
  BY LinkConstantsOK, NumbersSuffice

LEMMA DatagramFields ==
  ASSUME NEW m \in Datagrams
  PROVE  m.block \in Nat /\ m.over \in 0 .. Reorder /\ m.op \in {"data", "ack", "error"}
  BY DEF Datagrams

(* The datagrams sent are datagrams, and carry what they say.              *)
LEMMA Sent ==
  ASSUME NEW k \in Nat
  PROVE  /\ DataMsg(k % Mod, k) \in Datagrams /\ Carries(DataMsg(k % Mod, k), k)
         /\ AckMsg(k % Mod) \in Datagrams /\ Carries(AckMsg(k % Mod), k)
         /\ ErrorMsg \in Datagrams /\ Carries(ErrorMsg, k)
         /\ DataMsg(k % Mod, k).over = 0 /\ AckMsg(k % Mod).over = 0 /\ ErrorMsg.over = 0
<1>1. k % Mod \in Nat /\ 0 \in 0 .. Reorder
  BY LinkDomains
<1> QED
  BY <1>1 DEF DataMsg, AckMsg, ErrorMsg, Datagrams, Carries

LEMMA EmptyInStep ==
  ASSUME NEW low \in Int, NEW top \in Nat
  PROVE  InStep(<<>>, low, top)
<1>1. Numbering(<<>>, [i \in 1 .. 0 |-> 0], low, top)
  BY DEF Numbering
<1> QED
  BY <1>1 DEF InStep

(* A later block may be sent; the receiving side waits for less.           *)
LEMMA WiderInStep ==
  ASSUME NEW channel, NEW low \in Int, NEW top \in Nat, InStep(channel, low, top),
         NEW low2 \in Int, NEW top2 \in Nat, low2 <= low, top <= top2
  PROVE  InStep(channel, low2, top2)
<1>1. PICK g : Numbering(channel, g, low, top)
  BY DEF InStep
<1>2. Numbering(channel, g, low2, top2)
  <2>1. \A i \in 1 .. Len(channel) : channel[i].over \in Int /\ g[i] \in 0 .. top
    BY <1>1, ElementOfSeq, DatagramFields DEF InStep, Numbering
  <2>2. g \in [1 .. Len(channel) -> 0 .. top2]
    BY <1>1 DEF Numbering
  <2>3. \A i \in 1 .. Len(channel) : low2 <= g[i] + channel[i].over
    BY <1>1, <2>1 DEF Numbering
  <2> QED
    BY <1>1, <2>2, <2>3 DEF Numbering
<1> QED
  BY <1>2 DEF InStep

(* Sending a datagram about the latest block.                              *)
LEMMA PostInStep ==
  ASSUME NEW channel, NEW low \in Int, NEW top \in Nat, InStep(channel, low, top),
         low <= top,
         NEW m \in Datagrams, Carries(m, top), m.over = 0
  PROVE  InStep(Post(channel, m), low, top)
<1>1. PICK g : Numbering(channel, g, low, top)
  BY DEF InStep
<1> DEFINE n == Len(channel)
           longer == Append(channel, m)
           h == [i \in 1 .. n + 1 |-> IF i <= n THEN g[i] ELSE top]
<1>2. /\ channel \in Seq(Datagrams) /\ n \in Nat
      /\ longer \in Seq(Datagrams) /\ Len(longer) = n + 1
      /\ \A i \in 1 .. n : longer[i] = channel[i]
      /\ longer[n + 1] = m
  BY LenProperties, AppendProperties DEF InStep
<1> HIDE DEF longer, n
<1>3. /\ g \in [1 .. n -> 0 .. top]
      /\ \A i \in 1 .. n : Carries(channel[i], g[i]) /\ low <= g[i] + channel[i].over
      /\ \A i, j \in 1 .. n : i <= j => g[i] <= g[j]
  BY <1>1 DEF Numbering, n
<1>4. h \in [1 .. n + 1 -> 0 .. top]
  BY <1>2, <1>3
<1>5. \A i \in 1 .. n + 1 : (i \in 1 .. n /\ h[i] = g[i]) \/ (i = n + 1 /\ h[i] = top)
  BY <1>2
<1> HIDE DEF h
<1>6. ASSUME NEW i \in 1 .. n + 1
      PROVE  Carries(longer[i], h[i]) /\ low <= h[i] + longer[i].over
  BY <1>2, <1>3, <1>5
<1>7. ASSUME NEW i \in 1 .. n + 1, NEW j \in 1 .. n + 1, i <= j
      PROVE  h[i] <= h[j]
  <2>1. CASE j = n + 1
    BY <1>4, <1>5, <1>2, <2>1
  <2>2. CASE j # n + 1
    BY <1>2, <1>3, <1>5, <1>7, <2>2
  <2> QED
    BY <2>1, <2>2
<1>8. Numbering(longer, h, low, top)
  BY <1>2, <1>4, <1>6, <1>7 DEF Numbering
<1>9. InStep(longer, low, top)
  BY <1>2, <1>8 DEF InStep
<1> QED
  BY <1>9 DEF Post, longer

(* Losing a datagram.                                                      *)
LEMMA LossInStep ==
  ASSUME NEW channel, NEW low \in Int, NEW top \in Nat, InStep(channel, low, top),
         NEW i \in 1 .. Len(channel)
  PROVE  InStep(RemoveAt(channel, i), low, top)
<1>1. PICK g : Numbering(channel, g, low, top)
  BY DEF InStep
<1> DEFINE n == Len(channel)
           from(j) == IF j < i THEN j ELSE j + 1
           rest == RemoveAt(channel, i)
           h == [j \in 1 .. n - 1 |-> g[from(j)]]
<1>2. /\ n \in Nat /\ rest \in Seq(Datagrams) /\ Len(rest) = n - 1
      /\ \A j \in 1 .. n - 1 : rest[j] = channel[from(j)]
  BY Removed, LenProperties DEF InStep
<1>3. \A j \in 1 .. n - 1 : from(j) \in 1 .. n
  BY <1>2
<1>4. \A j, k \in 1 .. n - 1 : j <= k => from(j) <= from(k)
  BY <1>2
<1> HIDE DEF from, rest, n
<1>5. Numbering(rest, h, low, top)
  BY <1>1, <1>2, <1>3, <1>4 DEF Numbering, n
<1> QED
  BY <1>2, <1>5 DEF InStep, rest

(* Receiving one: those it overtakes count it.  If it is about a block     *)
(* after low, those behind it are about no earlier one, and those it has   *)
(* overtaken may lag by one more: the receiving side may go on by one.     *)
LEMMA TakenInStep ==
  ASSUME NEW channel, NEW low \in Int, NEW top \in Nat, InStep(channel, low, top),
         NEW i \in 1 .. Len(channel), i \in Arriving(channel)
  PROVE  /\ channel[i] \in Datagrams
         /\ InStep(Without(channel, i), low, top)
         /\ \E k \in 0 .. top :
              /\ Carries(channel[i], k)
              /\ low <= k + Reorder
              /\ low < k => InStep(Without(channel, i), low + 1, top)
<1>1. PICK g : Numbering(channel, g, low, top)
  BY DEF InStep
<1> DEFINE n == Len(channel)
           from(j) == IF j < i THEN j ELSE j + 1
           aged == [j \in DOMAIN channel |-> IF j < i THEN [channel[j] EXCEPT !.over = @ + 1]
                                             ELSE channel[j]]
           rest == RemoveAt(aged, i)
           h == [j \in 1 .. n - 1 |-> g[from(j)]]
<1>2. n \in Nat /\ DOMAIN channel = 1 .. n /\ \A j \in 1 .. n : channel[j] \in Datagrams
  BY LenProperties, ElementOfSeq DEF InStep
<1>3. \A j \in 1 .. n : j < i => channel[j].over < Reorder
  BY <1>2 DEF Arriving
<1>4. ASSUME NEW j \in 1 .. n, j < i
      PROVE  /\ aged[j] \in Datagrams
             /\ aged[j].over = channel[j].over + 1
             /\ \A k : Carries(channel[j], k) => Carries(aged[j], k)
  <2>1. aged[j] = [channel[j] EXCEPT !.over = channel[j].over + 1]
    BY <1>2, <1>4
  <2>2. channel[j].over + 1 \in 0 .. Reorder
    BY <1>2, <1>3, <1>4, LinkDomains, DatagramFields
  <2>3. PICK m : m = channel[j]
    OBVIOUS
  <2>4. m \in Datagrams /\ aged[j] = [m EXCEPT !.over = m.over + 1] /\ m.over + 1 \in 0 .. Reorder
    BY <1>2, <2>1, <2>2, <2>3
  <2> HIDE DEF aged
  <2> QED
    BY <2>3, <2>4 DEF Datagrams, Carries
<1>5. ASSUME NEW j \in 1 .. n, ~(j < i) PROVE aged[j] = channel[j]
  BY <1>2, <1>5
<1>6. aged \in Seq(Datagrams) /\ Len(aged) = n
  <2>1. \A j \in 1 .. n : aged[j] \in Datagrams
    BY <1>2, <1>4, <1>5
  <2>2. aged \in [1 .. n -> Datagrams]
    BY <1>2, <2>1
  <2> QED
    BY <1>2, <2>2
<1> HIDE DEF aged
<1>7. /\ rest \in Seq(Datagrams) /\ Len(rest) = n - 1
      /\ \A j \in 1 .. n - 1 : rest[j] = aged[from(j)]
  BY <1>6, Removed
<1>8. \A j \in 1 .. n - 1 : from(j) \in 1 .. n /\ from(j) # i
  BY <1>2
<1>9. \A j, k \in 1 .. n - 1 : j <= k => from(j) <= from(k)
  BY <1>2
<1> HIDE DEF from, rest
<1>10. /\ g \in [1 .. n -> 0 .. top]
       /\ \A j \in 1 .. n : Carries(channel[j], g[j]) /\ low <= g[j] + channel[j].over
       /\ \A j, k \in 1 .. n : j <= k => g[j] <= g[k]
       /\ i \in 1 .. n
  BY <1>1 DEF Numbering
<1> HIDE DEF n
<1>11. \A j \in 1 .. n : Carries(aged[j], g[j]) /\ low <= g[j] + aged[j].over
  <2> SUFFICES ASSUME NEW j \in 1 .. n
               PROVE  Carries(aged[j], g[j]) /\ low <= g[j] + aged[j].over
    OBVIOUS
  <2>1. channel[j].over \in Nat /\ g[j] \in Nat
    BY <1>2, <1>10, LinkDomains, DatagramFields
  <2>2. CASE j < i
    <3>1. aged[j].over = channel[j].over + 1
      BY <1>4, <2>2
    <3>2. low <= g[j] + aged[j].over
      BY <1>10, <2>1, <3>1
    <3>3. Carries(aged[j], g[j])
      BY <1>4, <1>10, <2>2
    <3> QED
      BY <3>2, <3>3
  <2>3. CASE ~(j < i)
    BY <1>5, <1>10, <2>3
  <2> QED
    BY <2>2, <2>3
<1>12. h \in [1 .. n - 1 -> 0 .. top] /\ \A j \in 1 .. n - 1 : h[j] = g[from(j)]
  BY <1>8, <1>10
<1> HIDE DEF h
<1>13. Numbering(rest, h, low, top)
  <2>1. ASSUME NEW j \in 1 .. n - 1
        PROVE  Carries(rest[j], h[j]) /\ low <= h[j] + rest[j].over
    BY <1>7, <1>8, <1>11, <1>12
  <2>2. ASSUME NEW j \in 1 .. n - 1, NEW k \in 1 .. n - 1, j <= k
        PROVE  h[j] <= h[k]
    BY <1>8, <1>9, <1>10, <1>12, <2>2
  <2> QED
    BY <1>7, <1>12, <2>1, <2>2 DEF Numbering
<1>14. rest = Without(channel, i)
  BY DEF Without, rest, aged
<1>15. ASSUME low < g[i]
       PROVE  Numbering(rest, h, low + 1, top)
  <2>1. ASSUME NEW j \in 1 .. n, j # i
        PROVE  low + 1 <= g[j] + aged[j].over
    <3>1. channel[j].over \in Nat /\ g[j] \in Nat /\ g[i] \in Nat
      BY <1>2, <1>10, LinkDomains, DatagramFields
    <3>2. CASE j < i
      BY <1>4, <1>10, <3>1, <3>2
    <3>3. CASE ~(j < i)
      <4>1. g[i] <= g[j]
        BY <1>10, <3>3
      <4> QED
        BY <1>5, <1>15, <3>1, <3>3, <4>1
    <3> QED
      BY <3>2, <3>3
  <2>2. ASSUME NEW j \in 1 .. n - 1
        PROVE  low + 1 <= h[j] + rest[j].over
    BY <1>7, <1>8, <1>12, <2>1
  <2> QED
    BY <1>7, <1>12, <1>13, <2>2 DEF Numbering
<1>16. g[i] \in 0 .. top /\ Carries(channel[i], g[i]) /\ low <= g[i] + Reorder
  <2>1. channel[i].over \in 0 .. Reorder
    BY <1>2, <1>10, DatagramFields
  <2> QED
    BY <1>10, <2>1, LinkDomains
<1> QED
  BY <1>2, <1>7, <1>10, <1>13, <1>14, <1>15, <1>16 DEF InStep

(* The network repeats the oldest datagram.                                *)
LEMMA RepeatInStep ==
  ASSUME NEW channel, NEW low \in Int, NEW top \in Nat, InStep(channel, low, top),
         channel # <<>>
  PROVE  InStep(<<Head(channel)>> \o channel, low, top)
<1>1. PICK g : Numbering(channel, g, low, top)
  BY DEF InStep
<1> DEFINE n == Len(channel)
           first == <<Head(channel)>>
           more == first \o channel
           from(j) == IF j = 1 THEN 1 ELSE j - 1
           h == [j \in 1 .. n + 1 |-> g[from(j)]]
<1>2. n \in Nat /\ n >= 1 /\ channel \in Seq(Datagrams) /\ Head(channel) = channel[1]
      /\ Head(channel) \in Datagrams
  BY LenProperties, EmptySeq, HeadTailProperties DEF InStep
<1>3. first \in Seq(Datagrams) /\ Len(first) = 1 /\ first[1] = channel[1]
  BY <1>2
<1> HIDE DEF first
<1>4. /\ more \in Seq(Datagrams) /\ Len(more) = 1 + n
      /\ \A j \in 1 .. 1 + n : more[j] = IF j <= 1 THEN first[j] ELSE channel[j - 1]
  BY <1>2, <1>3, ConcatProperties
<1> HIDE DEF more
<1>5. ASSUME NEW j \in 1 .. n + 1
      PROVE  from(j) \in 1 .. n /\ more[j] = channel[from(j)]
  <2>1. CASE j = 1
    BY <1>2, <1>3, <1>4, <2>1
  <2>2. CASE j # 1
    BY <1>2, <1>4, <2>2
  <2> QED
    BY <2>1, <2>2
<1>6. \A j, k \in 1 .. n + 1 : j <= k => from(j) <= from(k)
  BY <1>2
<1> HIDE DEF from
<1>7. Numbering(more, h, low, top)
  BY <1>1, <1>2, <1>4, <1>5, <1>6 DEF Numbering
<1> QED
  BY <1>4, <1>7 DEF InStep, more, first

-----------------------------------------------------------------------------
(* The two sides of the link.                                              *)

LEMMA ArrivingIndex ==
  ASSUME NEW channel \in Seq(Datagrams), NEW i \in Arriving(channel)
  PROVE  i \in 1 .. Len(channel)
  BY LenProperties DEF Arriving

(* Receiving a datagram that changes nothing.                              *)
LEMMA TakeAny ==
  ASSUME NEW channel, NEW low \in Int, NEW top \in Nat, InStep(channel, low, top),
         NEW i \in Arriving(channel)
  PROVE  InStep(Without(channel, i), low, top)
  BY ArrivingIndex, TakenInStep DEF InStep

(* A datagram with the number that is waited for is about the block that   *)
(* is waited for, and none that stays behind is about a later one.         *)
LEMMA TakeNext ==
  ASSUME NEW channel, NEW low \in Int, NEW top \in Nat, InStep(channel, low, top),
         -1 <= low, top <= low + 1,
         NEW i \in Arriving(channel),
         channel[i].op # "error", channel[i].block = (low + 1) % Mod
  PROVE  /\ InStep(Without(channel, i), low + 1, top)
         /\ low + 1 <= top
         /\ channel[i].op = "data" => channel[i].data = low + 1
<1>1. i \in 1 .. Len(channel)
  BY ArrivingIndex DEF InStep
<1>2. PICK k \in 0 .. top :
        /\ Carries(channel[i], k)
        /\ low <= k + Reorder
        /\ low < k => InStep(Without(channel, i), low + 1, top)
  BY <1>1, TakenInStep
<1>3. k % Mod = (low + 1) % Mod
  BY <1>2 DEF Carries
<1>4. k \in Nat /\ low + 1 \in Nat /\ k <= low + 1 /\ low + 1 < k + Mod
  BY <1>2, LinkDomains
<1>5. k = low + 1
  <2> DEFINE b == low + 1
  <2>1. b \in Nat /\ k <= b /\ b < k + Mod /\ k % Mod = b % Mod /\ Mod \in Nat \ {0}
    BY <1>3, <1>4, LinkDomains
  <2> HIDE DEF b
  <2>2. k = b
    BY <1>4, <2>1, NumberIsBlock
  <2> QED
    BY <2>2 DEF b
<1> QED
  BY <1>2, <1>5 DEF Carries

(* The network, the clocks and the end of the client, whichever side       *)
(* sends: the datagrams under way stay in step, and of the two sides only  *)
(* the client may have ended.                                              *)
LEMMA EnvironmentInStep ==
  ASSUME NEW low1 \in Int, NEW top1 \in Nat, InStep(toClient, low1, top1),
         NEW low2 \in Int, NEW top2 \in Nat, InStep(toServer, low2, top2), low2 <= top2,
         Environment
  PROVE  /\ InStep(toClient', low1, top1)
         /\ InStep(toServer', low2, top2)
         /\ UNCHANGED <<spc, block_number, stored>>
         /\ cpc' = cpc \/ (cpc = "run" /\ cpc' \in {"failed", "aborted", "dead"})
<1>1. ASSUME NEW i \in 1 .. Cap, ClientRefused(i)
      PROVE  InStep(toClient', low1, top1)
  BY <1>1, TakeAny DEF ClientRefused, ClientTakes
<1>2. CASE ClientGivesUp
  <2>1. ErrorMsg \in Datagrams /\ Carries(ErrorMsg, top2) /\ ErrorMsg.over = 0
    BY Sent
  <2>2. InStep(Post(toServer, ErrorMsg), low2, top2)
    BY <2>1, PostInStep
  <2> QED
    BY <1>2, <2>2 DEF ClientGivesUp, server
<1>3. CASE Lose
  <2>1. DOMAIN toServer = 1 .. Len(toServer) /\ DOMAIN toClient = 1 .. Len(toClient)
    BY LenProperties DEF InStep
  <2>2. ASSUME NEW i \in DOMAIN toServer, toServer' = RemoveAt(toServer, i), UNCHANGED toClient
        PROVE  InStep(toClient', low1, top1) /\ InStep(toServer', low2, top2)
    BY <2>1, <2>2, LossInStep
  <2>3. ASSUME NEW i \in DOMAIN toClient, toClient' = RemoveAt(toClient, i), UNCHANGED toServer
        PROVE  InStep(toClient', low1, top1) /\ InStep(toServer', low2, top2)
    BY <2>1, <2>3, LossInStep
  <2>4. InStep(toClient', low1, top1) /\ InStep(toServer', low2, top2)
    BY <1>3, <2>2, <2>3 DEF Lose
  <2> QED
    BY <1>3, <2>4 DEF Lose, server, client
<1>4. CASE Duplicate
  <2>1. ASSUME toServer # <<>>, toServer' = <<Head(toServer)>> \o toServer, UNCHANGED toClient
        PROVE  InStep(toClient', low1, top1) /\ InStep(toServer', low2, top2)
    BY <2>1, RepeatInStep
  <2>2. ASSUME toClient # <<>>, toClient' = <<Head(toClient)>> \o toClient, UNCHANGED toServer
        PROVE  InStep(toClient', low1, top1) /\ InStep(toServer', low2, top2)
    BY <2>2, RepeatInStep
  <2>3. InStep(toClient', low1, top1) /\ InStep(toServer', low2, top2)
    BY <1>4, <2>1, <2>2 DEF Duplicate
  <2> QED
    BY <1>4, <2>3 DEF Duplicate, server, client
<1>5. CASE Unheard
  <2>1. InStep(<<>>, low1, top1) /\ InStep(<<>>, low2, top2)
    BY EmptyInStep
  <2>2. InStep(toClient', low1, top1) /\ InStep(toServer', low2, top2)
    BY <1>5, <2>1 DEF Unheard
  <2> QED
    BY <1>5, <2>2 DEF Unheard, server, client
<1>6. CASE ClientDies \/ Tick
  BY <1>6 DEF ClientDies, Tick, server, client, network
<1>7. ASSUME NEW i \in 1 .. Cap, ClientRefused(i)
      PROVE  /\ UNCHANGED <<toServer, spc, block_number, stored>>
             /\ cpc = "run" /\ cpc' = "failed"
  BY <1>7 DEF ClientRefused, ClientTakes, server
<1>8. ClientGivesUp =>
        /\ UNCHANGED <<toClient, spc, block_number, stored>>
        /\ cpc = "run" /\ cpc' = "aborted"
  BY DEF ClientGivesUp, server
<1> QED
  BY <1>1, <1>2, <1>3, <1>4, <1>5, <1>6, <1>7, <1>8 DEF Environment

(* Both directions of a transfer whose sender is at block index: the       *)
(* receiver has the blocks before it, and perhaps that one.                *)
Counted(index) ==
  /\ index \in 0 .. Blocks
  /\ stored \in Seq(Nat)
  /\ \A i \in 1 .. Len(stored) : stored[i] = i
  /\ Len(stored) <= index
  /\ index <= Len(stored) + 1

LEMMA CountedDomains ==
  ASSUME NEW index, Counted(index)
  PROVE  /\ index \in Nat /\ index <= Blocks /\ index - 1 \in Int /\ -1 <= index - 1
         /\ Len(stored) \in Nat
         /\ (index - 1) + 1 = index
  BY LenProperties, LinkDomains DEF Counted

(* The receiver stores the block it lacks.                                 *)
LEMMA CountOneMore ==
  ASSUME NEW index, Counted(index), Len(stored) + 1 <= index,
         stored' = Append(stored, Len(stored) + 1)
  PROVE  /\ Len(stored') = Len(stored) + 1
         /\ stored' \in Seq(Nat)
         /\ \A i \in 1 .. Len(stored') : stored'[i] = i
         /\ Len(stored') <= index /\ index <= Len(stored') + 1
<1> DEFINE n == Len(stored)
           longer == Append(stored, n + 1)
<1>1. n \in Nat /\ index \in Nat /\ index <= n + 1
  BY CountedDomains DEF Counted
<1>2. /\ longer \in Seq(Nat) /\ Len(longer) = n + 1
      /\ \A i \in 1 .. n : longer[i] = stored[i]
      /\ longer[n + 1] = n + 1
  BY <1>1, AppendProperties DEF Counted
<1>3. longer = stored'
  OBVIOUS
<1> HIDE DEF longer
<1>4. \A i \in 1 .. n + 1 : longer[i] = i
  <2>1. \A i \in 1 .. n : longer[i] = i
    BY <1>2 DEF Counted
  <2>2. \A i \in 1 .. n + 1 : i \in 1 .. n \/ i = n + 1
    BY <1>1
  <2> QED
    BY <1>2, <2>1, <2>2
<1> QED
  BY <1>1, <1>2, <1>3, <1>4

(* What Status makes of the places a side can be.                          *)
LEMMA Statuses ==
  /\ Status("start") = "run" /\ Status("wait") = "run" /\ Status("run") = "run"
  /\ Status("done") = "done"
  /\ Status("failed") = "failed" /\ Status("aborted") = "failed" /\ Status("dead") = "failed"
  BY DEF Status

-----------------------------------------------------------------------------
(* The read request.                                                       *)

(* What every state of a read transfer satisfies: the data under way are   *)
(* in step with the client, the ACKs with the child.                       *)
ReadInv ==
  /\ Counted(pos)
  /\ block_number = pos % Mod
  /\ spc \in {"start", "wait", "done", "failed"}
  /\ spc = "start" => pos = 0
  /\ cpc \in {"run", "done", "failed", "aborted", "dead"}
  /\ cpc = "done" <=> Len(stored) = Blocks
  /\ InStep(toClient, Len(stored), pos)
  /\ InStep(toServer, pos - 1, Len(stored))

(* The abstract step, or none.                                             *)
ReadStep == ReadAbstract!FTNext \/ UNCHANGED <<stored, Status(spc), Status(cpc)>>

LEMMA ReadInitial == ReadInit => ReadInv /\ ReadAbstract!FTInit
<1> SUFFICES ASSUME ReadInit PROVE ReadInv /\ ReadAbstract!FTInit
  OBVIOUS
<1>1. /\ pos = 0 /\ block_number = 0 /\ spc = "start" /\ cpc = "run" /\ stored = <<>>
      /\ toClient = <<>> /\ toServer = <<>>
  BY DEF ReadInit, LinkInit
<1>2. 0 % Mod = 0 /\ 0 \in 0 .. Blocks /\ Blocks # 0
  BY LinkDomains
<1>3. Len(stored) = 0 /\ stored \in Seq(Nat)
  BY <1>1
<1>4. InStep(toClient, Len(stored), pos) /\ InStep(toServer, pos - 1, Len(stored))
  BY <1>1, <1>3, EmptyInStep
<1>5. Counted(pos)
  BY <1>1, <1>2, <1>3 DEF Counted
<1> QED
  BY <1>1, <1>2, <1>3, <1>4, <1>5, Statuses DEF ReadInv, ReadAbstract!FTInit

(* fread and the first sending of the block.                               *)
LEMMA SendNextKeeps ==
  ASSUME ReadInv, SendNext, pos < Blocks, pos <= Len(stored),
         UNCHANGED <<stored, cpc>>, InStep(toServer', pos, Len(stored))
  PROVE  ReadInv'
<1>1. /\ pos' = pos + 1 /\ block_number' = (block_number + 1) % Mod /\ spc' = "wait"
      /\ toClient' = Post(toClient, DataMsg(block_number', pos'))
      /\ stored' = stored /\ cpc' = cpc
  BY DEF SendNext
<1>2. pos \in Nat /\ Len(stored) \in Nat /\ pos = Len(stored)
  BY CountedDomains DEF ReadInv, Counted
<1>3. block_number' = pos' % Mod
  <2>1. ((pos % Mod) + 1) % Mod = (pos + 1) % Mod
    BY <1>2, LinkDomains, NextNumber
  <2> QED
    BY <1>1, <2>1 DEF ReadInv
<1>4. Counted(pos)'
  BY <1>1, <1>2, LinkDomains DEF ReadInv, Counted
<1>5. InStep(toClient', Len(stored), pos')
  <2>1. pos' \in Nat /\ pos <= pos' /\ Len(stored) <= pos'
    BY <1>1, <1>2
  <2>2. InStep(toClient, Len(stored), pos')
    BY <1>2, <2>1, WiderInStep DEF ReadInv
  <2>3. /\ DataMsg(pos' % Mod, pos') \in Datagrams /\ Carries(DataMsg(pos' % Mod, pos'), pos')
        /\ DataMsg(pos' % Mod, pos').over = 0
    BY <2>1, Sent
  <2>4. InStep(Post(toClient, DataMsg(pos' % Mod, pos')), Len(stored), pos')
    BY <1>2, <2>1, <2>2, <2>3, PostInStep
  <2> QED
    BY <1>1, <1>3, <2>4
<1>6. pos' - 1 = pos /\ spc' # "start"
  BY <1>1, <1>2
<1> QED
  BY <1>1, <1>3, <1>4, <1>5, <1>6 DEF ReadInv

(* A step that moves no block: at most one side ends, without success.     *)
LEMMA ReadRests ==
  ASSUME ReadInv, UNCHANGED <<pos, block_number, stored>>,
         InStep(toClient', Len(stored), pos), InStep(toServer', pos - 1, Len(stored)),
         \/ UNCHANGED <<spc, cpc>>
         \/ spc = "wait" /\ spc' = "failed" /\ UNCHANGED cpc
         \/ cpc = "run" /\ cpc' \in {"failed", "aborted", "dead"} /\ UNCHANGED spc
  PROVE  ReadInv' /\ ReadStep
<1>1. ReadInv'
  BY DEF ReadInv, Counted
<1>2. CASE UNCHANGED <<spc, cpc>>
  BY <1>1, <1>2 DEF ReadStep
<1>3. CASE spc = "wait" /\ spc' = "failed" /\ UNCHANGED cpc
  BY <1>1, <1>3, Statuses DEF ReadStep, ReadAbstract!FTNext, ReadAbstract!SenderFails
<1>4. CASE cpc = "run" /\ cpc' \in {"failed", "aborted", "dead"} /\ UNCHANGED spc
  BY <1>1, <1>4, Statuses DEF ReadStep, ReadAbstract!FTNext, ReadAbstract!ReceiverFails
<1> QED
  BY <1>1, <1>2, <1>3, <1>4

LEMMA ReadStartKeeps == ReadInv /\ ReadStart => ReadInv' /\ ReadStep
<1> SUFFICES ASSUME ReadInv, ReadStart PROVE ReadInv' /\ ReadStep
  OBVIOUS
<1>1. /\ spc = "start" /\ spc' = "wait" /\ pos = 0 /\ SendNext
      /\ UNCHANGED <<cpc, stored, toServer>>
  BY DEF ReadStart, SendNext, ReadInv, client
<1>2. Len(stored) \in Nat /\ Len(stored) = 0 /\ pos < Blocks
  BY <1>1, CountedDomains, LinkDomains DEF ReadInv, Counted
<1>3. InStep(toServer, pos, Len(stored))
  <2>1. PICK g : Numbering(toServer, g, pos - 1, Len(stored))
    BY DEF ReadInv, InStep
  <2>2. \A i \in 1 .. Len(toServer) : toServer[i].over \in Nat
    BY ElementOfSeq, DatagramFields, LinkDomains DEF ReadInv, InStep
  <2>3. Numbering(toServer, g, pos, Len(stored))
    BY <1>1, <1>2, <2>1, <2>2 DEF Numbering
  <2> QED
    BY <2>3 DEF ReadInv, InStep
<1>4. ReadInv'
  BY <1>1, <1>2, <1>3, SendNextKeeps
<1>5. UNCHANGED <<stored, Status(spc), Status(cpc)>>
  BY <1>1, Statuses
<1> QED
  BY <1>4, <1>5 DEF ReadStep

(* The ACK the child accepts is that of the block it sent: so the client   *)
(* has that block, and when it is the last one the client is done.         *)
LEMMA AckReceivedKeeps ==
  ASSUME ReadInv, NEW i, AckReceived(i)
  PROVE  ReadInv' /\ ReadStep
<1>1. /\ spc = "wait" /\ i \in Arriving(toServer) /\ toServer' = Without(toServer, i)
      /\ toServer[i].op = "ack" /\ toServer[i].block = block_number
      /\ UNCHANGED <<cpc, stored>>
  BY DEF AckReceived, ServerTakes, Acknowledges, client
<1>2. /\ pos \in Nat /\ pos <= Blocks /\ Len(stored) \in Nat /\ pos - 1 \in Int /\ -1 <= pos - 1
      /\ (pos - 1) + 1 = pos /\ Len(stored) <= pos
  BY CountedDomains DEF ReadInv, Counted
<1>3. InStep(toServer', pos, Len(stored)) /\ pos <= Len(stored)
  <2> DEFINE low == pos - 1
  <2>1. /\ InStep(toServer, low, Len(stored)) /\ toServer[i].block = (low + 1) % Mod
        /\ low \in Int /\ -1 <= low /\ Len(stored) <= low + 1 /\ low + 1 = pos
    BY <1>1, <1>2 DEF ReadInv
  <2> HIDE DEF low
  <2>2. InStep(Without(toServer, i), low + 1, Len(stored)) /\ low + 1 <= Len(stored)
    BY <1>1, <1>2, <2>1, TakeNext
  <2> QED
    BY <1>1, <2>1, <2>2
<1>4. pos = Len(stored)
  BY <1>2, <1>3
<1>5. CASE exit_flag
  <2>1. spc' = "done" /\ UNCHANGED <<block_number, toClient, pos>>
    BY <1>5 DEF AckReceived
  <2>2. cpc = "done"
    BY <1>4, <1>5 DEF exit_flag, ReadInv
  <2>3. InStep(toServer', pos - 1, Len(stored))
    BY <1>2, <1>3, WiderInStep
  <2>4. ReadInv'
    BY <1>1, <2>1, <2>3 DEF ReadInv, Counted
  <2>5. ReadAbstract!SenderDone
    BY <1>1, <2>1, <2>2, Statuses DEF ReadAbstract!SenderDone
  <2> QED
    BY <2>4, <2>5 DEF ReadStep, ReadAbstract!FTNext
<1>6. CASE ~exit_flag
  <2>1. SendNext /\ pos < Blocks
    BY <1>2, <1>6, LinkDomains DEF AckReceived, exit_flag
  <2>2. ReadInv'
    BY <1>1, <1>3, <2>1, SendNextKeeps
  <2>3. UNCHANGED <<stored, Status(spc), Status(cpc)>>
    BY <1>1, <2>1, Statuses DEF SendNext
  <2> QED
    BY <2>2, <2>3 DEF ReadStep
<1> QED
  BY <1>5, <1>6

(* The other ends of a wait of the child.                                  *)
LEMMA ReadChildFails ==
  ASSUME ReadInv, NEW i, AckRejected(i) \/ ErrorReceived(i) \/ ReadTimeout
  PROVE  ReadInv' /\ ReadStep
<1>1. /\ pos \in Nat /\ Len(stored) \in Nat /\ pos - 1 \in Int /\ Len(stored) <= pos
  BY CountedDomains DEF ReadInv, Counted
<1>2. ASSUME i \in Arriving(toServer)
      PROVE  InStep(Without(toServer, i), pos - 1, Len(stored))
  BY <1>1, <1>2, TakeAny DEF ReadInv
<1>3. /\ InStep(Post(toClient, ErrorMsg), Len(stored), pos)
      /\ InStep(Post(toClient, DataMsg(block_number, pos)), Len(stored), pos)
  <2>1. InStep(Post(toClient, ErrorMsg), Len(stored), pos)
    BY <1>1, Sent, PostInStep DEF ReadInv
  <2>2. InStep(Post(toClient, DataMsg(pos % Mod, pos)), Len(stored), pos)
    BY <1>1, Sent, PostInStep DEF ReadInv
  <2> QED
    BY <2>1, <2>2 DEF ReadInv
<1>4. CASE AckRejected(i)
  <2>1. /\ spc = "wait" /\ spc' = "failed" /\ i \in Arriving(toServer)
        /\ toServer' = Without(toServer, i) /\ toClient' = Post(toClient, ErrorMsg)
        /\ UNCHANGED <<pos, block_number, stored, cpc>>
    BY <1>4 DEF AckRejected, ServerTakes, Reject, client
  <2> QED
    BY <1>2, <1>3, <2>1, ReadRests
<1>5. CASE ErrorReceived(i)
  <2>1. /\ spc = "wait" /\ spc' = "failed" /\ i \in Arriving(toServer)
        /\ toServer' = Without(toServer, i)
        /\ UNCHANGED <<pos, block_number, stored, cpc, toClient>>
    BY <1>5 DEF ErrorReceived, ServerTakes, client
  <2>2. InStep(toClient', Len(stored), pos)
    BY <2>1 DEF ReadInv
  <2> QED
    BY <1>2, <2>1, <2>2, ReadRests
<1>6. CASE ReadTimeout
  <2>1. /\ spc = "wait" /\ spc' \in {"wait", "failed"}
        /\ toClient' \in {toClient, Post(toClient, DataMsg(block_number, pos))}
        /\ UNCHANGED <<pos, block_number, stored, cpc, toServer>>
    BY <1>6 DEF ReadTimeout, DataAgain, client
  <2>2. InStep(toClient', Len(stored), pos) /\ InStep(toServer', pos - 1, Len(stored))
    BY <1>3, <2>1 DEF ReadInv
  <2> QED
    BY <2>1, <2>2, ReadRests
<1> QED
  BY <1>4, <1>5, <1>6

(* The block the client stores is the one that comes next in the file.     *)
LEMMA ClientStoresKeeps ==
  ASSUME ReadInv, NEW i, ClientStores(i)
  PROVE  ReadInv' /\ ReadStep
<1> DEFINE n == Len(stored)
<1>1. /\ cpc = "run" /\ i \in Arriving(toClient) /\ toClient' = Without(toClient, i)
      /\ toClient[i].op = "data" /\ toClient[i].block = (n + 1) % Mod
      /\ stored' = Append(stored, toClient[i].data)
      /\ toServer' = Post(toServer, AckMsg(toClient[i].block))
      /\ cpc' = IF toClient[i].data = Blocks THEN "done" ELSE "run"
      /\ UNCHANGED <<spc, block_number, pos>>
  BY DEF ClientStores, ClientTakes, server
<1>2. /\ pos \in Nat /\ pos <= Blocks /\ n \in Nat /\ -1 <= n /\ pos <= n + 1 /\ pos - 1 \in Int
  BY CountedDomains DEF ReadInv, Counted
<1>3. InStep(toClient', n + 1, pos) /\ n + 1 <= pos /\ toClient[i].data = n + 1
  BY <1>1, <1>2, TakeNext DEF ReadInv
<1>4. /\ Len(stored') = n + 1 /\ Counted(pos)'
  <2>1. stored' = Append(stored, n + 1)
    BY <1>1, <1>3
  <2>2. /\ Len(stored') = n + 1 /\ stored' \in Seq(Nat)
        /\ \A j \in 1 .. Len(stored') : stored'[j] = j
        /\ Len(stored') <= pos /\ pos <= Len(stored') + 1
    BY <1>3, <2>1, CountOneMore DEF ReadInv
  <2> QED
    BY <1>1, <2>2 DEF ReadInv, Counted
<1>5. InStep(toServer', pos - 1, n + 1)
  <2> DEFINE top == n + 1
  <2>1. top \in Nat /\ n <= top /\ pos - 1 <= top
    BY <1>2
  <2> HIDE DEF top
  <2>2. InStep(toServer, pos - 1, top)
    BY <1>2, <2>1, WiderInStep DEF ReadInv
  <2>3. InStep(Post(toServer, AckMsg(top % Mod)), pos - 1, top)
    BY <1>2, <2>1, <2>2, Sent, PostInStep
  <2> QED
    BY <1>1, <2>3 DEF top
<1>6. cpc' = "done" <=> n + 1 = Blocks
  BY <1>1, <1>3
<1>7. cpc' \in {"run", "done"}
  BY <1>1
<1>8. ReadInv'
  BY <1>1, <1>3, <1>4, <1>5, <1>6, <1>7 DEF ReadInv
<1>9. ReadAbstract!Store
  <2>1. n < Blocks
    BY <1>2, <1>3, LinkDomains
  <2>2. Status(cpc) = "run" /\ Status(spc') = Status(spc)
    BY <1>1, Statuses
  <2>3. Status(cpc') = IF n + 1 = Blocks THEN "done" ELSE "run"
    BY <1>6, <1>7, Statuses
  <2> QED
    BY <1>1, <1>3, <1>4, <2>1, <2>2, <2>3 DEF ReadAbstract!Store
<1> QED
  BY <1>8, <1>9 DEF ReadStep, ReadAbstract!FTNext

(* What the client does when the block it waits for does not come.         *)
LEMMA ReaderWaits ==
  ASSUME ReadInv, NEW i, ReaderIgnores(i) \/ ReaderRepeats
  PROVE  ReadInv' /\ ReadStep
<1>1. /\ pos \in Nat /\ Len(stored) \in Nat /\ pos - 1 \in Int /\ pos - 1 <= Len(stored)
  BY CountedDomains DEF ReadInv, Counted
<1>2. InStep(Post(toServer, AckMsg(Len(stored) % Mod)), pos - 1, Len(stored))
  BY <1>1, Sent, PostInStep DEF ReadInv
<1>3. /\ toServer' \in {toServer, Post(toServer, AckMsg(Len(stored) % Mod))}
      /\ cpc = "run" /\ cpc' \in {"run", "failed"}
      /\ UNCHANGED <<spc, block_number, stored, pos>>
  BY DEF ReaderIgnores, ReaderRepeats, ClientTakes, server, client
<1>4. InStep(toServer', pos - 1, Len(stored))
  BY <1>2, <1>3 DEF ReadInv
<1>5. InStep(toClient', Len(stored), pos)
  <2>1. CASE ReaderIgnores(i)
    BY <1>1, <2>1, TakeAny DEF ReadInv, ReaderIgnores, ClientTakes
  <2>2. CASE ReaderRepeats
    BY <2>2 DEF ReadInv, ReaderRepeats
  <2> QED
    BY <2>1, <2>2
<1> QED
  BY <1>3, <1>4, <1>5, ReadRests

LEMMA ReadNextKeeps == ReadInv /\ [ReadNext]_readVars => ReadInv' /\ ReadStep
<1> SUFFICES ASSUME ReadInv, [ReadNext]_readVars PROVE ReadInv' /\ ReadStep
  OBVIOUS
<1>1. CASE ReadChild
  BY <1>1, ReadStartKeeps, AckReceivedKeeps, ReadChildFails DEF ReadChild
<1>2. CASE ReadClient
  BY <1>2, ClientStoresKeeps, ReaderWaits DEF ReadClient
<1>3. CASE Environment /\ UNCHANGED pos
  <2>1. /\ pos \in Nat /\ Len(stored) \in Nat /\ pos - 1 \in Int /\ pos - 1 <= Len(stored)
    BY CountedDomains DEF ReadInv, Counted
  <2>2. /\ InStep(toClient', Len(stored), pos) /\ InStep(toServer', pos - 1, Len(stored))
        /\ UNCHANGED <<spc, block_number, stored>>
        /\ cpc' = cpc \/ (cpc = "run" /\ cpc' \in {"failed", "aborted", "dead"})
    BY <1>3, <2>1, EnvironmentInStep DEF ReadInv
  <2> QED
    BY <1>3, <2>2, ReadRests
<1>4. CASE UNCHANGED readVars
  <2>1. UNCHANGED <<pos, block_number, stored, spc, cpc, toClient, toServer>>
    BY <1>4 DEF readVars, server, client, network
  <2> QED
    BY <2>1, ReadRests DEF ReadInv
<1> QED
  BY <1>1, <1>2, <1>3, <1>4 DEF ReadNext

(* In every state of a read transfer the block the child sends and the     *)
(* blocks the client has stored differ by one at most, and what is under   *)
(* way lags behind by no more than the network lets datagrams overtake.    *)
THEOREM ReadInvariant == ReadSpec => []ReadInv
<1>1. ReadInit => ReadInv
  BY ReadInitial
<1>2. ReadInv /\ [ReadNext]_readVars => ReadInv'
  BY ReadNextKeeps
<1> QED
  BY <1>1, <1>2, PTL DEF ReadSpec

(* Whatever the network loses, repeats or delays, the client stores the    *)
(* blocks of the file in order, each once, and the child reports success   *)
(* only when the client has them all.                                      *)
THEOREM ReadImplementsTransfer == ReadSpec => ReadTransfers
<1>1. ReadInit => ReadAbstract!FTInit
  BY ReadInitial
<1>2. ReadInv /\ [ReadNext]_readVars => [ReadAbstract!FTNext]_(ReadAbstract!ftVars)
  BY ReadNextKeeps DEF ReadStep, ReadAbstract!ftVars
<1> QED
  BY <1>1, <1>2, ReadInvariant, PTL DEF ReadSpec, ReadTransfers, ReadAbstract!Transfer

-----------------------------------------------------------------------------
(* The write request.  The roles are exchanged: the data go to the child,  *)
(* the ACKs to the client.  A full disk is not noticed by the code, so the *)
(* results are about a disk that has room for the file.                    *)

WriteInv ==
  /\ Counted(sent)
  /\ block_number = Len(stored) % Mod
  /\ spc \in {"start", "wait", "done", "failed"}
  /\ cpc \in {"run", "done", "failed", "aborted", "dead"}
  /\ spc = "done" <=> Len(stored) = Blocks
  /\ InStep(toServer, Len(stored), sent)
  /\ InStep(toClient, sent - 1, Len(stored))

(* The abstract step, or none.                                             *)
WriteStep == WriteAbstract!FTNext \/ UNCHANGED <<stored, Status(cpc), Status(spc)>>

LEMMA WriteInitial == WriteInit => WriteInv /\ WriteAbstract!FTInit
<1> SUFFICES ASSUME WriteInit PROVE WriteInv /\ WriteAbstract!FTInit
  OBVIOUS
<1>1. /\ sent = 0 /\ block_number = 0 /\ spc = "start" /\ cpc = "run" /\ stored = <<>>
      /\ toClient = <<>> /\ toServer = <<>>
  BY DEF WriteInit, LinkInit
<1>2. 0 % Mod = 0 /\ 0 \in 0 .. Blocks /\ Blocks # 0
  BY LinkDomains
<1>3. Len(stored) = 0 /\ stored \in Seq(Nat)
  BY <1>1
<1>4. InStep(toServer, Len(stored), sent) /\ InStep(toClient, sent - 1, Len(stored))
  BY <1>1, <1>3, EmptyInStep
<1>5. Counted(sent)
  BY <1>1, <1>2, <1>3 DEF Counted
<1> QED
  BY <1>1, <1>2, <1>3, <1>4, <1>5, Statuses DEF WriteInv, WriteAbstract!FTInit

(* A step that moves no block: at most one side ends, without success.     *)
LEMMA WriteRests ==
  ASSUME WriteInv, UNCHANGED <<sent, block_number, stored>>,
         InStep(toServer', Len(stored), sent), InStep(toClient', sent - 1, Len(stored)),
         \/ UNCHANGED <<spc, cpc>>
         \/ spc = "start" /\ spc' = "wait" /\ UNCHANGED cpc
         \/ spc = "wait" /\ spc' = "failed" /\ UNCHANGED cpc
         \/ cpc = "run" /\ cpc' \in {"failed", "aborted", "dead"} /\ UNCHANGED spc
  PROVE  WriteInv' /\ WriteStep
<1>1. WriteInv'
  BY DEF WriteInv, Counted
<1>2. CASE UNCHANGED <<spc, cpc>> \/ (spc = "start" /\ spc' = "wait" /\ UNCHANGED cpc)
  BY <1>1, <1>2, Statuses DEF WriteStep
<1>3. CASE spc = "wait" /\ spc' = "failed" /\ UNCHANGED cpc
  BY <1>1, <1>3, Statuses DEF WriteStep, WriteAbstract!FTNext, WriteAbstract!ReceiverFails
<1>4. CASE cpc = "run" /\ cpc' \in {"failed", "aborted", "dead"} /\ UNCHANGED spc
  BY <1>1, <1>4, Statuses DEF WriteStep, WriteAbstract!FTNext, WriteAbstract!SenderFails
<1> QED
  BY <1>1, <1>2, <1>3, <1>4

(* The block the child stores is the one that comes next in the file.      *)
LEMMA DataReceivedKeeps ==
  ASSUME Blocks <= DiskBlocks, WriteInv, NEW i, DataReceived(i)
  PROVE  WriteInv' /\ WriteStep
<1> DEFINE n == Len(stored)
<1>1. /\ spc = "wait" /\ i \in Arriving(toServer) /\ toServer' = Without(toServer, i)
      /\ toServer[i].op = "data" /\ toServer[i].block = (block_number + 1) % Mod
      /\ stored' = IF n < DiskBlocks THEN Append(stored, toServer[i].data) ELSE stored
      /\ block_number' = toServer[i].block
      /\ toClient' = Post(toClient, AckMsg(toServer[i].block))
      /\ spc' = IF toServer[i].data = Blocks THEN "done" ELSE "wait"
      /\ UNCHANGED <<cpc, sent>>
  BY DEF DataReceived, ServerTakes, InTurn, client
<1>2. /\ sent \in Nat /\ sent <= Blocks /\ n \in Nat /\ -1 <= n /\ sent <= n + 1
      /\ sent - 1 \in Int
  BY CountedDomains DEF WriteInv, Counted
<1>3. toServer[i].block = (n + 1) % Mod
  <2>1. ((n % Mod) + 1) % Mod = (n + 1) % Mod
    BY <1>2, LinkDomains, NextNumber
  <2> QED
    BY <1>1, <2>1 DEF WriteInv
<1>4. InStep(toServer', n + 1, sent) /\ n + 1 <= sent /\ toServer[i].data = n + 1
  BY <1>1, <1>2, <1>3, TakeNext DEF WriteInv
<1>5. n < Blocks /\ stored' = Append(stored, n + 1)
  <2>1. n < Blocks /\ n < DiskBlocks
    BY <1>2, <1>4, LinkDomains, WriteConstantsOK
  <2> QED
    BY <1>1, <1>4, <2>1
<1>6. /\ Len(stored') = n + 1 /\ Counted(sent)'
  <2>1. /\ Len(stored') = n + 1 /\ stored' \in Seq(Nat)
        /\ \A j \in 1 .. Len(stored') : stored'[j] = j
        /\ Len(stored') <= sent /\ sent <= Len(stored') + 1
    BY <1>4, <1>5, CountOneMore DEF WriteInv
  <2> QED
    BY <1>1, <2>1 DEF WriteInv, Counted
<1>7. InStep(toClient', sent - 1, n + 1)
  <2> DEFINE top == n + 1
  <2>1. top \in Nat /\ n <= top /\ sent - 1 <= top
    BY <1>2
  <2> HIDE DEF top
  <2>2. InStep(toClient, sent - 1, top)
    BY <1>2, <2>1, WiderInStep DEF WriteInv
  <2>3. InStep(Post(toClient, AckMsg(top % Mod)), sent - 1, top)
    BY <1>2, <2>1, <2>2, Sent, PostInStep
  <2> QED
    BY <1>1, <1>3, <2>3 DEF top
<1>8. /\ spc' \in {"wait", "done"}
      /\ spc' = "done" <=> n + 1 = Blocks
  BY <1>1, <1>4
<1>9. WriteInv'
  BY <1>1, <1>3, <1>4, <1>6, <1>7, <1>8 DEF WriteInv
<1>10. WriteAbstract!Store
  <2>1. Status(spc) = "run" /\ Status(cpc') = Status(cpc)
    BY <1>1, Statuses
  <2>2. Status(spc') = IF n + 1 = Blocks THEN "done" ELSE "run"
    BY <1>8, Statuses
  <2> QED
    BY <1>5, <1>6, <2>1, <2>2 DEF WriteAbstract!Store
<1> QED
  BY <1>9, <1>10 DEF WriteStep, WriteAbstract!FTNext

(* What the child does when the block it waits for does not come.          *)
LEMMA WriteChildWaits ==
  ASSUME WriteInv, NEW i, WriteStart \/ DataRejected(i) \/ WriteTimeout
  PROVE  WriteInv' /\ WriteStep
<1>1. /\ sent \in Nat /\ Len(stored) \in Nat /\ sent - 1 \in Int /\ sent - 1 <= Len(stored)
  BY CountedDomains DEF WriteInv, Counted
<1>2. /\ InStep(Post(toClient, ErrorMsg), sent - 1, Len(stored))
      /\ InStep(Post(toClient, AckMsg(block_number)), sent - 1, Len(stored))
  <2>1. InStep(Post(toClient, ErrorMsg), sent - 1, Len(stored))
    BY <1>1, Sent, PostInStep DEF WriteInv
  <2>2. InStep(Post(toClient, AckMsg(Len(stored) % Mod)), sent - 1, Len(stored))
    BY <1>1, Sent, PostInStep DEF WriteInv
  <2> QED
    BY <2>1, <2>2 DEF WriteInv
<1>3. CASE DataRejected(i)
  <2>1. /\ spc = "wait" /\ spc' = "failed" /\ i \in Arriving(toServer)
        /\ toServer' = Without(toServer, i) /\ toClient' = Post(toClient, ErrorMsg)
        /\ UNCHANGED <<sent, block_number, stored, cpc>>
    BY <1>3 DEF DataRejected, ServerTakes, Reject, client
  <2>2. InStep(toServer', Len(stored), sent)
    BY <1>1, <2>1, TakeAny DEF WriteInv
  <2> QED
    BY <1>2, <2>1, <2>2, WriteRests
<1>4. CASE WriteStart \/ WriteTimeout
  <2>1. /\ \/ spc = "start" /\ spc' = "wait"
           \/ spc = "wait" /\ spc' \in {"wait", "failed"}
        /\ toClient' = Post(toClient, AckMsg(block_number))
        /\ UNCHANGED <<sent, block_number, stored, cpc, toServer>>
    BY <1>4 DEF WriteStart, WriteTimeout, AckAgain, client
  <2>2. InStep(toServer', Len(stored), sent) /\ InStep(toClient', sent - 1, Len(stored))
    BY <1>2, <2>1 DEF WriteInv
  <2> QED
    BY <2>1, <2>2, WriteRests
<1> QED
  BY <1>3, <1>4

(* The ACK the client accepts is that of the block it sent: so the child   *)
(* has stored it, and when it is the last one the child is done.           *)
LEMMA ClientAckedKeeps ==
  ASSUME WriteInv, NEW i, ClientAcked(i)
  PROVE  WriteInv' /\ WriteStep
<1> DEFINE n == Len(stored)
<1>1. /\ cpc = "run" /\ i \in Arriving(toClient) /\ toClient' = Without(toClient, i)
      /\ toClient[i].op = "ack" /\ toClient[i].block = sent % Mod
      /\ UNCHANGED <<spc, block_number, stored>>
  BY DEF ClientAcked, ClientTakes, server
<1>2. /\ sent \in Nat /\ sent <= Blocks /\ n \in Nat /\ sent - 1 \in Int /\ -1 <= sent - 1
      /\ (sent - 1) + 1 = sent /\ n <= sent
  BY CountedDomains DEF WriteInv, Counted
<1>3. InStep(toClient', sent, n) /\ sent <= n
  <2> DEFINE low == sent - 1
  <2>1. /\ InStep(toClient, low, n) /\ toClient[i].block = (low + 1) % Mod
        /\ low \in Int /\ -1 <= low /\ n <= low + 1 /\ low + 1 = sent
    BY <1>1, <1>2 DEF WriteInv
  <2> HIDE DEF low
  <2>2. InStep(Without(toClient, i), low + 1, n) /\ low + 1 <= n
    BY <1>1, <1>2, <2>1, TakeNext
  <2> QED
    BY <1>1, <2>1, <2>2
<1>4. sent = n
  BY <1>2, <1>3
<1>5. CASE sent = Blocks
  <2>1. cpc' = "done" /\ UNCHANGED <<sent, toServer>>
    BY <1>5 DEF ClientAcked
  <2>2. spc = "done"
    BY <1>4, <1>5 DEF WriteInv
  <2>3. InStep(toClient', sent - 1, n)
    BY <1>2, <1>3, WiderInStep
  <2>4. WriteInv'
    BY <1>1, <2>1, <2>3 DEF WriteInv, Counted
  <2>5. WriteAbstract!SenderDone
    BY <1>1, <2>1, <2>2, Statuses DEF WriteAbstract!SenderDone
  <2> QED
    BY <2>4, <2>5 DEF WriteStep, WriteAbstract!FTNext
<1>6. CASE sent # Blocks
  <2>1. /\ sent' = sent + 1 /\ UNCHANGED cpc
        /\ toServer' = Post(toServer, DataMsg(sent' % Mod, sent'))
    BY <1>6 DEF ClientAcked
  <2>2. sent < Blocks
    BY <1>2, <1>6, LinkDomains
  <2>3. Counted(sent)'
    <3>1. sent' \in 0 .. Blocks /\ n <= sent' /\ sent' <= n + 1
      BY <1>2, <1>4, <2>1, <2>2, LinkDomains
    <3> QED
      BY <1>1, <3>1 DEF WriteInv, Counted
  <2>4. InStep(toServer', n, sent')
    <3>1. sent' \in Nat /\ sent <= sent' /\ n <= sent'
      BY <1>2, <2>1
    <3>2. InStep(toServer, n, sent')
      BY <1>2, <3>1, WiderInStep DEF WriteInv
    <3>3. /\ DataMsg(sent' % Mod, sent') \in Datagrams
          /\ Carries(DataMsg(sent' % Mod, sent'), sent')
          /\ DataMsg(sent' % Mod, sent').over = 0
      BY <3>1, Sent
    <3>4. InStep(Post(toServer, DataMsg(sent' % Mod, sent')), n, sent')
      BY <1>2, <3>1, <3>2, <3>3, PostInStep
    <3> QED
      BY <2>1, <3>4
  <2>5. sent' - 1 = sent
    BY <1>2, <2>1
  <2>6. WriteInv'
    BY <1>1, <1>3, <2>1, <2>3, <2>4, <2>5 DEF WriteInv
  <2>7. UNCHANGED <<stored, Status(cpc), Status(spc)>>
    BY <1>1, <2>1
  <2> QED
    BY <2>6, <2>7 DEF WriteStep
<1> QED
  BY <1>5, <1>6

(* What the client does when its ACK does not come.                        *)
LEMMA WriterWaits ==
  ASSUME WriteInv, NEW i, WriterIgnores(i) \/ WriterRepeats
  PROVE  WriteInv' /\ WriteStep
<1>1. /\ sent \in Nat /\ Len(stored) \in Nat /\ sent - 1 \in Int /\ Len(stored) <= sent
  BY CountedDomains DEF WriteInv, Counted
<1>2. InStep(Post(toServer, DataMsg(sent % Mod, sent)), Len(stored), sent)
  BY <1>1, Sent, PostInStep DEF WriteInv
<1>3. /\ toServer' \in {toServer, Post(toServer, DataMsg(sent % Mod, sent))}
      /\ cpc = "run" /\ cpc' \in {"run", "failed"}
      /\ UNCHANGED <<spc, block_number, stored, sent>>
  BY DEF WriterIgnores, WriterRepeats, ClientTakes, server, client
<1>4. InStep(toServer', Len(stored), sent)
  BY <1>2, <1>3 DEF WriteInv
<1>5. InStep(toClient', sent - 1, Len(stored))
  <2>1. CASE WriterIgnores(i)
    BY <1>1, <2>1, TakeAny DEF WriteInv, WriterIgnores, ClientTakes
  <2>2. CASE WriterRepeats
    BY <2>2 DEF WriteInv, WriterRepeats
  <2> QED
    BY <2>1, <2>2
<1> QED
  BY <1>3, <1>4, <1>5, WriteRests

LEMMA WriteNextKeeps ==
  ASSUME Blocks <= DiskBlocks, WriteInv, [WriteNext]_writeVars
  PROVE  WriteInv' /\ WriteStep
<1>1. CASE WriteChild
  BY <1>1, DataReceivedKeeps, WriteChildWaits DEF WriteChild
<1>2. CASE WriteClient
  BY <1>2, ClientAckedKeeps, WriterWaits DEF WriteClient
<1>3. CASE Environment /\ UNCHANGED sent
  <2>1. /\ sent \in Nat /\ Len(stored) \in Nat /\ sent - 1 \in Int /\ Len(stored) <= sent
    BY CountedDomains DEF WriteInv, Counted
  <2>2. /\ InStep(toClient', sent - 1, Len(stored)) /\ InStep(toServer', Len(stored), sent)
        /\ UNCHANGED <<spc, block_number, stored>>
        /\ cpc' = cpc \/ (cpc = "run" /\ cpc' \in {"failed", "aborted", "dead"})
    BY <1>3, <2>1, EnvironmentInStep DEF WriteInv
  <2> QED
    BY <1>3, <2>2, WriteRests
<1>4. CASE UNCHANGED writeVars
  <2>1. UNCHANGED <<sent, block_number, stored, spc, cpc, toClient, toServer>>
    BY <1>4 DEF writeVars, server, client, network
  <2> QED
    BY <2>1, WriteRests DEF WriteInv
<1> QED
  BY <1>1, <1>2, <1>3, <1>4 DEF WriteNext

(* In every state of a write transfer the block the client sends and the   *)
(* blocks the child has stored differ by one at most, and what is under    *)
(* way lags behind by no more than the network lets datagrams overtake.    *)
THEOREM WriteInvariant == Blocks <= DiskBlocks => (WriteSpec => []WriteInv)
<1> SUFFICES ASSUME Blocks <= DiskBlocks PROVE WriteSpec => []WriteInv
  OBVIOUS
<1>1. WriteInit => WriteInv
  BY WriteInitial
<1>2. WriteInv /\ [WriteNext]_writeVars => WriteInv'
  BY WriteNextKeeps
<1> QED
  BY <1>1, <1>2, PTL DEF WriteSpec

(* Whatever the network loses, repeats or delays, the child stores the     *)
(* blocks of the client's file in order, each once, and the client reports *)
(* success only when the file is complete on the server.                   *)
THEOREM WriteImplementsTransfer == Blocks <= DiskBlocks => (WriteSpec => WriteTransfers)
<1> SUFFICES ASSUME Blocks <= DiskBlocks PROVE WriteSpec => WriteTransfers
  OBVIOUS
<1>1. WriteInit => WriteAbstract!FTInit
  BY WriteInitial
<1>2. WriteInv /\ [WriteNext]_writeVars => [WriteAbstract!FTNext]_(WriteAbstract!ftVars)
  BY WriteNextKeeps DEF WriteStep, WriteAbstract!ftVars
<1>3. WriteSpec => []WriteInv
  BY WriteInvariant
<1> QED
  BY <1>1, <1>2, <1>3, PTL DEF WriteSpec, WriteTransfers, WriteAbstract!Transfer
=============================================================================
