---------------------------- MODULE ProxyProofs ----------------------------
(***************************************************************************)
(* Theorems about Proxy for any set of clients and pages, any number of    *)
(* entries, any clock and any headers.                                     *)
(***************************************************************************)
EXTENDS Proxy, TLAPS, WellFoundedInduction

(* Induction, for a set: a set of naturals has a least one.                *)
LEMMA LeastOf ==
  ASSUME NEW T, T \subseteq Nat, T # {}
  PROVE  \E n \in T : \A k \in T : n <= k
<1>1. PICK n \in T : \A k \in T : ~ (<<k, n>> \in OpToRel(<, Nat))
  BY NatLessThanWellFounded, WFMin
<1>2. \A k \in T : <<k, n>> \in OpToRel(<, Nat) <=> k < n
  BY DEF OpToRel
<1>3. \A k \in T : k \in Nat
  OBVIOUS
<1>4. \A k \in T : ~ (k < n) => n <= k
  BY <1>3
<1> QED
  BY <1>1, <1>2, <1>4

-----------------------------------------------------------------------------
(* Dates.                                                                  *)

LEMMA InCalendar ==
  ASSUME NEW m \in Calendar
  PROVE  /\ m[1] \in Int /\ m[2] \in 1 .. 12 /\ m[3] \in 1 .. 31
         /\ m[4] \in 0 .. 23 /\ m[5] \in 0 .. 59 /\ m[6] \in 0 .. 59
         /\ m = <<m[1], m[2], m[3], m[4], m[5], m[6]>>
  BY DEF Calendar

LEMMA ClockInCalendar == \A n \in 1 .. Len(Clock) : Clock[n] \in Calendar
  BY MomentsOK

(* What the strings of a date say, as numbers, and their order.            *)
Fields(d) == <<d.year, iMonthCoverter(d.month), d.day, d.hour, d.minute, d.second>>

Sooner(f, g) ==
  \/ f[1] < g[1]
  \/ f[1] = g[1] /\ f[2] < g[2]
  \/ f[1] = g[1] /\ f[2] = g[2] /\ f[3] < g[3]
  \/ f[1] = g[1] /\ f[2] = g[2] /\ f[3] = g[3] /\ f[4] < g[4]
  \/ f[1] = g[1] /\ f[2] = g[2] /\ f[3] = g[3] /\ f[4] = g[4] /\ f[5] < g[5]
  \/ f[1] = g[1] /\ f[2] = g[2] /\ f[3] = g[3] /\ f[4] = g[4] /\ f[5] = g[5] /\ f[6] < g[6]

Alike(f, g) == \A i \in 1 .. 6 : f[i] = g[i]

(* No two months are taken for one another.                                *)
LEMMA MonthsTold ==
  ASSUME NEW k \in 1 .. 12
  PROVE  iMonthCoverter(pcMonth[k]) = k
<1>1. \/ k = 1 \/ k = 2 \/ k = 3 \/ k = 4 \/ k = 5 \/ k = 6 \/ k = 7 \/ k = 8 \/ k = 9
      \/ k = 10 \/ k = 11 \/ k = 12
  OBVIOUS
<1>2. ASSUME k \in 1 .. 6 PROVE iMonthCoverter(pcMonth[k]) = k
  BY <1>1, <1>2 DEF iMonthCoverter, pcMonth
<1>3. ASSUME k \in 7 .. 12 PROVE iMonthCoverter(pcMonth[k]) = k
  BY <1>1, <1>3 DEF iMonthCoverter, pcMonth
<1> QED
  BY <1>2, <1>3

(* The first field that differs decides, as it does in Sooner.             *)
LEMMA Comparison ==
  ASSUME NEW d, NEW e, \A i \in 1 .. 6 : Fields(d)[i] \in Int /\ Fields(e)[i] \in Int
  PROVE  iTime_Comparison_Func(d, e) =
           IF Alike(Fields(d), Fields(e)) THEN 0
           ELSE IF Sooner(Fields(d), Fields(e)) THEN -1 ELSE 1
<1> DEFINE f == Fields(d)
           g == Fields(e)
           differ == {i \in 1 .. 6 : f[i] # g[i]}
           first == CHOOSE i \in differ : \A j \in differ : i <= j
<1>1. iTime_Comparison_Func(d, e) = IF differ = {} THEN 0 ELSE IF f[first] < g[first] THEN -1 ELSE 1
  BY DEF iTime_Comparison_Func, Fields
<1>2. differ = {} <=> Alike(f, g)
  BY DEF Alike
<1>3. ASSUME NEW i \in 1 .. 6, f[i] # g[i], \A j \in 1 .. 6 : j < i => f[j] = g[j]
      PROVE  first = i
  <2>1. i \in differ /\ \A j \in differ : i <= j
    BY <1>3
  <2>2. \A k \in differ : (\A j \in differ : k <= j) => k = i
    BY <2>1
  <2> HIDE DEF differ
  <2> QED
    BY <2>1, <2>2
<1>4. ASSUME ~ Alike(f, g) PROVE f[first] < g[first] <=> Sooner(f, g)
  <2>0. \E i \in 1 .. 6 : f[i] # g[i] /\ \A j \in 1 .. 6 : j < i => f[j] = g[j]
    <3> HIDE DEF f, g
    <3>1. f[1] # g[1] \/ f[2] # g[2] \/ f[3] # g[3] \/ f[4] # g[4] \/ f[5] # g[5] \/ f[6] # g[6]
      BY <1>4 DEF Alike
    <3> QED
      BY <3>1
  <2>1. PICK i \in 1 .. 6 : f[i] # g[i] /\ \A j \in 1 .. 6 : j < i => f[j] = g[j]
    BY <2>0
  <2>2. first = i
    BY <1>3, <2>1
  <2>3. \A j \in 1 .. 6 : f[j] \in Int /\ g[j] \in Int
    OBVIOUS
  <2> HIDE DEF f, g, first
  <2>4. f[i] < g[i] <=> Sooner(f, g)
    BY <2>1, <2>3 DEF Sooner
  <2> QED
    BY <2>2, <2>4
<1> HIDE DEF f, g, first, differ
<1> QED
  BY <1>1, <1>2, <1>4 DEF f, g

LEMMA FieldsOfDate ==
  ASSUME NEW m \in Calendar
  PROVE  \A i \in 1 .. 6 : Fields(Date(m))[i] = m[i] /\ Fields(Date(m))[i] \in Int
<1>1. iMonthCoverter(pcMonth[m[2]]) = m[2]
  BY MonthsTold, InCalendar
<1>2. Fields(Date(m)) = <<m[1], m[2], m[3], m[4], m[5], m[6]>>
  BY <1>1 DEF Fields, Date
<1> QED
  BY <1>2, InCalendar

LEMMA DatesCompared ==
  ASSUME NEW m \in Calendar, NEW n \in Calendar
  PROVE  iTime_Comparison_Func(Date(m), Date(n)) = IF m = n THEN 0 ELSE IF Sooner(m, n) THEN -1 ELSE 1
<1>1. \A i \in 1 .. 6 : Fields(Date(m))[i] = m[i] /\ Fields(Date(n))[i] = n[i]
  BY FieldsOfDate
<1>2. Alike(Fields(Date(m)), Fields(Date(n))) <=> m = n
  <2>1. Alike(Fields(Date(m)), Fields(Date(n))) <=> \A i \in 1 .. 6 : m[i] = n[i]
    BY <1>1 DEF Alike
  <2>2. (\A i \in 1 .. 6 : m[i] = n[i]) => m = n
    <3> SUFFICES ASSUME \A i \in 1 .. 6 : m[i] = n[i] PROVE m = n
      OBVIOUS
    <3>1. m[1] = n[1] /\ m[2] = n[2] /\ m[3] = n[3] /\ m[4] = n[4] /\ m[5] = n[5] /\ m[6] = n[6]
      OBVIOUS
    <3>2. m = <<m[1], m[2], m[3], m[4], m[5], m[6]>> /\ n = <<n[1], n[2], n[3], n[4], n[5], n[6]>>
      BY InCalendar
    <3> QED
      BY <3>1, <3>2, Zenon
  <2> QED
    BY <2>1, <2>2
<1>3. Sooner(Fields(Date(m)), Fields(Date(n))) <=> Sooner(m, n)
  BY <1>1 DEF Sooner
<1>4. \A i \in 1 .. 6 : Fields(Date(m))[i] \in Int /\ Fields(Date(n))[i] \in Int
  BY FieldsOfDate
<1> QED
  BY <1>2, <1>3, <1>4, Comparison

(* The hours since the year 2000, as in Ordinal.                           *)
Hours(m) == (((m[1] - 2000) * 12 + m[2]) * 31 + m[3]) * 24 + m[4]

LEMMA SameHours ==
  ASSUME NEW m, NEW n, m[1] = n[1], m[2] = n[2], m[3] = n[3], m[4] = n[4]
  PROVE  Hours(m) = Hours(n)
  BY DEF Hours

LEMMA SoonerByHours ==
  ASSUME NEW m, NEW n,
         m[1] \in Int /\ m[2] \in 1 .. 12 /\ m[3] \in 1 .. 31 /\ m[4] \in 0 .. 23,
         n[1] \in Int /\ n[2] \in 1 .. 12 /\ n[3] \in 1 .. 31 /\ n[4] \in 0 .. 23
  PROVE  /\ Hours(m) \in Int /\ Hours(n) \in Int
         /\ Sooner(m, n) <=>
              \/ Hours(m) < Hours(n)
              \/ Hours(m) = Hours(n) /\ m[5] < n[5]
              \/ Hours(m) = Hours(n) /\ m[5] = n[5] /\ m[6] < n[6]
<1> DEFINE O2(k) == (k[1] - 2000) * 12 + k[2]
           O3(k) == O2(k) * 31 + k[3]
           O4(k) == O3(k) * 24 + k[4]
<1>1. Hours(m) = O4(m) /\ Hours(n) = O4(n)
  BY DEF Hours
<1>2. /\ O2(m) < O2(n) <=> m[1] < n[1] \/ (m[1] = n[1] /\ m[2] < n[2])
      /\ O2(m) = O2(n) <=> m[1] = n[1] /\ m[2] = n[2]
      /\ O2(m) \in Int /\ O2(n) \in Int
  OBVIOUS
<1> HIDE DEF O2
<1>3. /\ O3(m) < O3(n) <=> O2(m) < O2(n) \/ (O2(m) = O2(n) /\ m[3] < n[3])
      /\ O3(m) = O3(n) <=> O2(m) = O2(n) /\ m[3] = n[3]
      /\ O3(m) \in Int /\ O3(n) \in Int
  <2>1. O3(m) \in Int /\ O3(n) \in Int
    BY <1>2
  <2>2. O3(m) < O3(n) <=> O2(m) < O2(n) \/ (O2(m) = O2(n) /\ m[3] < n[3])
    BY <1>2, SMTT(30)
  <2>3. O3(m) = O3(n) <=> O2(m) = O2(n) /\ m[3] = n[3]
    BY <1>2, SMTT(30)
  <2> QED
    BY <2>1, <2>2, <2>3, Zenon
<1> HIDE DEF O3
<1>4. /\ O4(m) < O4(n) <=> O3(m) < O3(n) \/ (O3(m) = O3(n) /\ m[4] < n[4])
      /\ O4(m) = O4(n) <=> O3(m) = O3(n) /\ m[4] = n[4]
      /\ O4(m) \in Int /\ O4(n) \in Int
  <2>1. O4(m) \in Int /\ O4(n) \in Int
    BY <1>3
  <2>2. O4(m) < O4(n) <=> O3(m) < O3(n) \/ (O3(m) = O3(n) /\ m[4] < n[4])
    BY <1>3, SMTT(30)
  <2>3. O4(m) = O4(n) <=> O3(m) = O3(n) /\ m[4] = n[4]
    BY <1>3, SMTT(30)
  <2> QED
    BY <2>1, <2>2, <2>3, Zenon
<1> HIDE DEF O4
<1>5. O4(m) = O4(n) <=> m[1] = n[1] /\ m[2] = n[2] /\ m[3] = n[3] /\ m[4] = n[4]
  BY <1>2, <1>3, <1>4, Zenon
<1>6. O4(m) < O4(n) <=>
        \/ O3(m) < O3(n)
        \/ m[1] = n[1] /\ m[2] = n[2] /\ m[3] = n[3] /\ m[4] < n[4]
  BY <1>2, <1>3, <1>4, Zenon
<1>7. O3(m) < O3(n) <=>
        \/ m[1] < n[1]
        \/ m[1] = n[1] /\ m[2] < n[2]
        \/ m[1] = n[1] /\ m[2] = n[2] /\ m[3] < n[3]
  BY <1>2, <1>3, Zenon
<1>8. Sooner(m, n) <=>
        \/ O4(m) < O4(n)
        \/ O4(m) = O4(n) /\ m[5] < n[5]
        \/ O4(m) = O4(n) /\ m[5] = n[5] /\ m[6] < n[6]
  BY <1>5, <1>6, <1>7, Zenon DEF Sooner
<1> QED
  BY <1>1, <1>4, <1>8, Zenon

LEMMA SoonerIsLess ==
  ASSUME NEW m \in Calendar, NEW n \in Calendar
  PROVE  Ordinal(m) < Ordinal(n) <=> Sooner(m, n)
<1>1. /\ m[1] \in Int /\ m[2] \in 1 .. 12 /\ m[3] \in 1 .. 31
      /\ m[4] \in 0 .. 23 /\ m[5] \in 0 .. 59 /\ m[6] \in 0 .. 59
      /\ n[1] \in Int /\ n[2] \in 1 .. 12 /\ n[3] \in 1 .. 31
      /\ n[4] \in 0 .. 23 /\ n[5] \in 0 .. 59 /\ n[6] \in 0 .. 59
  BY InCalendar
<1>2. /\ Hours(m) \in Int /\ Hours(n) \in Int
      /\ Sooner(m, n) <=>
           \/ Hours(m) < Hours(n)
           \/ Hours(m) = Hours(n) /\ m[5] < n[5]
           \/ Hours(m) = Hours(n) /\ m[5] = n[5] /\ m[6] < n[6]
  BY <1>1, SoonerByHours
<1>3. PICK g \in Int, h \in Int : g = Hours(m) /\ h = Hours(n)
  BY <1>2
<1>4. PICK x \in 0 .. 59, y \in 0 .. 59 : x = m[5] /\ y = n[5]
  BY <1>1
<1>5. PICK v \in 0 .. 59, w \in 0 .. 59 : v = m[6] /\ w = n[6]
  BY <1>1
<1>6. PICK p \in Int, q \in Int : p = g * 60 + x /\ q = h * 60 + y
  OBVIOUS
<1>7. p < q <=> g < h \/ (g = h /\ x < y)
  BY <1>6
<1>8. p = q <=> g = h /\ x = y
  BY <1>6
<1>9. p * 60 + v < q * 60 + w <=> p < q \/ (p = q /\ v < w)
  OBVIOUS
<1>10. Ordinal(m) = p * 60 + v /\ Ordinal(n) = q * 60 + w
  BY <1>3, <1>4, <1>5, <1>6 DEF Ordinal, Hours
<1> QED
  BY <1>2, <1>3, <1>4, <1>5, <1>7, <1>8, <1>9, <1>10

(* The comparison orders dates as time does: for any dates there are, not  *)
(* only those a run compares.                                              *)
LEMMA DatesOrdered ==
  ASSUME NEW m \in Calendar, NEW n \in Calendar
  PROVE  LET c == iTime_Comparison_Func(Date(m), Date(n))
         IN  /\ c < 0 <=> Ordinal(m) < Ordinal(n)
             /\ c = 0 <=> m = n
<1>1. Sooner(m, n) => m # n
  <2>1. /\ m[1] \in Int /\ m[2] \in Int /\ m[3] \in Int /\ m[4] \in Int /\ m[5] \in Int /\ m[6] \in Int
        /\ n[1] \in Int /\ n[2] \in Int /\ n[3] \in Int /\ n[4] \in Int /\ n[5] \in Int /\ n[6] \in Int
    BY InCalendar
  <2> QED
    BY <2>1 DEF Sooner
<1> DEFINE c == iTime_Comparison_Func(Date(m), Date(n))
<1>2. c = IF m = n THEN 0 ELSE IF Sooner(m, n) THEN -1 ELSE 1
  BY DatesCompared
<1> HIDE DEF c
<1>3. (c < 0 <=> Sooner(m, n)) /\ (c = 0 <=> m = n)
  BY <1>1, <1>2
<1>4. (c < 0 <=> Ordinal(m) < Ordinal(n)) /\ (c = 0 <=> m = n)
  BY <1>3, SoonerIsLess
<1> QED
  BY <1>4 DEF c

LEMMA OrdinalInt == ASSUME NEW m \in Calendar PROVE Ordinal(m) \in Int
<1>1. /\ m[1] \in Int /\ m[2] \in Int /\ m[3] \in Int /\ m[4] \in Int /\ m[5] \in Int /\ m[6] \in Int
  BY InCalendar
<1> QED
  BY <1>1 DEF Ordinal

LEMMA MinuteLater ==
  ASSUME NEW m \in Calendar, NEW n \in Calendar, NextMinute(m, n)
  PROVE  Ordinal(m) < Ordinal(n)
<1>1. CASE m[5] < 59
  <2>1. n = [m EXCEPT ![5] = @ + 1]
    BY <1>1 DEF NextMinute
  <2>2. n[1] = m[1] /\ n[2] = m[2] /\ n[3] = m[3] /\ n[4] = m[4] /\ n[5] = m[5] + 1
    BY <2>1 DEF Calendar
  <2>3. Sooner(m, n)
    BY <2>2, InCalendar DEF Sooner
  <2> QED
    BY <2>3, SoonerIsLess
<1>2. CASE ~ (m[5] < 59)
  BY <1>2 DEF NextMinute
<1> QED
  BY <1>1, <1>2

(* The clock does not stand still, nor go back.                            *)
LEMMA ClockRuns ==
  \A i, j \in 1 .. Len(Clock) : i < j => Ordinal(Clock[i]) < Ordinal(Clock[j])
<1> SUFFICES ASSUME NEW i \in 1 .. Len(Clock)
             PROVE  \A j \in 1 .. Len(Clock) : i < j => Ordinal(Clock[i]) < Ordinal(Clock[j])
  OBVIOUS
<1> DEFINE Wrong == {j \in 1 .. Len(Clock) : i < j /\ ~ (Ordinal(Clock[i]) < Ordinal(Clock[j]))}
<1>0. Len(Clock) \in Nat
  BY MomentsOK
<1>1. SUFFICES ASSUME Wrong # {} PROVE FALSE
  OBVIOUS
<1>2. PICK j \in Wrong : \A k \in Wrong : j <= k
  <2>1. Wrong \subseteq Nat
    BY <1>0
  <2> HIDE DEF Wrong
  <2> QED
    BY <1>1, <2>1, LeastOf
<1>3. /\ j \in 1 .. Len(Clock) /\ i < j /\ j - 1 \in 1 .. Len(Clock) - 1 /\ j - 1 \in 1 .. Len(Clock)
      /\ j - 1 \notin Wrong /\ (j - 1) + 1 = j
  BY <1>0, <1>2
<1>4. NextMinute(Clock[j - 1], Clock[j])
  BY <1>3, MomentsOK
<1>5. Ordinal(Clock[j - 1]) < Ordinal(Clock[j])
  BY <1>3, <1>4, MinuteLater, ClockInCalendar
<1>6. i = j - 1 \/ Ordinal(Clock[i]) < Ordinal(Clock[j - 1])
  BY <1>0, <1>3
<1>7. Ordinal(Clock[i]) \in Int /\ Ordinal(Clock[j]) \in Int /\ Ordinal(Clock[j - 1]) \in Int
  BY <1>3, OrdinalInt, ClockInCalendar
<1>8. Ordinal(Clock[i]) < Ordinal(Clock[j])
  BY <1>5, <1>6, <1>7
<1> QED
  BY <1>2, <1>8

(* So a stamp that is not after another was not set after it.              *)
LEMMA StampsOrdered ==
  ASSUME NEW i \in 1 .. Len(Clock), NEW j \in 1 .. Len(Clock), NotAfter(Date(Clock[i]), Date(Clock[j]))
  PROVE  i <= j
<1>0. i \in Nat /\ j \in Nat
  BY MomentsOK
<1> SUFFICES ASSUME j < i PROVE FALSE
  BY <1>0
<1>1. Ordinal(Clock[j]) < Ordinal(Clock[i])
  BY ClockRuns
<1>2. /\ Clock[i] \in Calendar /\ Clock[j] \in Calendar
      /\ Ordinal(Clock[i]) \in Int /\ Ordinal(Clock[j]) \in Int
  BY ClockInCalendar, OrdinalInt
<1>3. ~ (Ordinal(Clock[i]) < Ordinal(Clock[j])) /\ Clock[i] # Clock[j]
  BY <1>1, <1>2
<1> DEFINE c == iTime_Comparison_Func(Date(Clock[i]), Date(Clock[j]))
<1>4. c = 1
  <2>1. ~ Sooner(Clock[i], Clock[j])
    BY <1>2, <1>3, SoonerIsLess
  <2> QED
    BY <1>2, <1>3, <2>1, DatesCompared
<1> QED
  BY <1>4 DEF NotAfter

(* A minute on: the same hour, or a later one that has just begun.         *)
LEMMA MinutePasses ==
  ASSUME NEW m \in Calendar, NEW n \in Calendar, NextMinute(m, n)
  PROVE  /\ n[6] = m[6] /\ Hours(m) \in Int /\ Hours(n) \in Int
         /\ \/ Hours(n) = Hours(m) /\ n[5] = m[5] + 1 /\ n[4] = m[4]
            \/ Hours(m) < Hours(n) /\ m[5] = 59 /\ n[5] = 0 /\ n[4] = (m[4] + 1) % 24
<1>1. /\ m[1] \in Int /\ m[2] \in 1 .. 12 /\ m[3] \in 1 .. 31
      /\ m[4] \in 0 .. 23 /\ m[5] \in 0 .. 59 /\ m[6] \in 0 .. 59
      /\ n[1] \in Int /\ n[2] \in 1 .. 12 /\ n[3] \in 1 .. 31
      /\ n[4] \in 0 .. 23 /\ n[5] \in 0 .. 59 /\ n[6] \in 0 .. 59
  BY InCalendar
<1>2. /\ Hours(m) \in Int /\ Hours(n) \in Int
      /\ Sooner(m, n) <=>
           \/ Hours(m) < Hours(n)
           \/ Hours(m) = Hours(n) /\ m[5] < n[5]
           \/ Hours(m) = Hours(n) /\ m[5] = n[5] /\ m[6] < n[6]
  BY <1>1, SoonerByHours
<1>3. CASE m[5] < 59
  <2>1. n = [m EXCEPT ![5] = @ + 1]
    BY <1>3 DEF NextMinute
  <2>2. n[1] = m[1] /\ n[2] = m[2] /\ n[3] = m[3] /\ n[4] = m[4] /\ n[5] = m[5] + 1 /\ n[6] = m[6]
    BY <2>1 DEF Calendar
  <2>3. Hours(n) = Hours(m)
    BY <2>2, SameHours, Zenon
  <2> QED
    BY <1>2, <2>2, <2>3, Zenon
<1>4. CASE ~ (m[5] < 59)
  <2>1. n[4] = (m[4] + 1) % 24 /\ n[5] = 0 /\ n[6] = m[6] /\ Sooner(m, n)
    BY <1>4, SoonerIsLess DEF NextMinute
  <2>2. m[5] = 59
    BY <1>1, <1>4
  <2> QED
    BY <1>2, <2>1, <2>2
<1> QED
  BY <1>3, <1>4

(* The date two minutes on is compared as if its minutes were not bounded. *)
LEMMA DefaultCompared ==
  ASSUME NEW m \in Calendar, NEW n \in Calendar
  PROVE  iTime_Comparison_Func(DefaultExpiry(m), Date(n)) >= 0 <=>
           ~ \/ Hours(m) < Hours(n)
             \/ Hours(m) = Hours(n) /\ m[5] + 2 < n[5]
             \/ Hours(m) = Hours(n) /\ m[5] + 2 = n[5] /\ m[6] < n[6]
<1> DEFINE f == Fields(DefaultExpiry(m))
           g == Fields(Date(n))
           c == iTime_Comparison_Func(DefaultExpiry(m), Date(n))
<1>1. /\ m[1] \in Int /\ m[2] \in 1 .. 12 /\ m[3] \in 1 .. 31
      /\ m[4] \in 0 .. 23 /\ m[5] \in 0 .. 59 /\ m[6] \in 0 .. 59
      /\ n[1] \in Int /\ n[2] \in 1 .. 12 /\ n[3] \in 1 .. 31
      /\ n[4] \in 0 .. 23 /\ n[5] \in 0 .. 59 /\ n[6] \in 0 .. 59
  BY InCalendar
<1>2. f[1] = m[1] /\ f[2] = m[2] /\ f[3] = m[3] /\ f[4] = m[4] /\ f[5] = m[5] + 2 /\ f[6] = m[6]
  <2>1. iMonthCoverter(pcMonth[m[2]]) = m[2]
    BY <1>1, MonthsTold
  <2> QED
    BY <2>1 DEF Fields, DefaultExpiry, Date
<1>3. g[1] = n[1] /\ g[2] = n[2] /\ g[3] = n[3] /\ g[4] = n[4] /\ g[5] = n[5] /\ g[6] = n[6]
  BY FieldsOfDate
<1>4. Hours(f) = Hours(m) /\ Hours(g) = Hours(n)
  BY <1>2, <1>3, SameHours, Zenon
<1>5. \A i \in 1 .. 6 : f[i] \in Int /\ g[i] \in Int
  <2> HIDE DEF f, g
  <2>1. \A i \in 1 .. 6 : i = 1 \/ i = 2 \/ i = 3 \/ i = 4 \/ i = 5 \/ i = 6
    OBVIOUS
  <2> QED
    BY <1>1, <1>2, <1>3, <2>1
<1>6. c = IF Alike(f, g) THEN 0 ELSE IF Sooner(f, g) THEN -1 ELSE 1
  BY <1>5, Comparison
<1> HIDE DEF f, g, c
<1>7. Sooner(f, g) => ~ Alike(f, g)
  BY <1>5 DEF Sooner, Alike
<1>8. c >= 0 <=> ~ Sooner(f, g)
  BY <1>6, <1>7
<1>9. Sooner(f, g) <=>
        \/ Hours(f) < Hours(g)
        \/ Hours(f) = Hours(g) /\ f[5] < g[5]
        \/ Hours(f) = Hours(g) /\ f[5] = g[5] /\ f[6] < g[6]
  BY <1>1, <1>2, <1>3, SoonerByHours
<1> QED
  BY <1>2, <1>3, <1>4, <1>8, <1>9 DEF c

(* What three minutes on, or more, is later than two minutes on; what is   *)
(* one or two minutes on is not, unless the hour is another one.           *)
LEMMA AfterThreeMinutes ==
  ASSUME NEW m \in Calendar, NEW a \in Calendar, NEW b \in Calendar, NEW d \in Calendar, NEW n \in Calendar,
         NextMinute(m, a), NextMinute(a, b), NextMinute(b, d), n = d \/ Sooner(d, n)
  PROVE  Hours(m) < Hours(n) \/ (Hours(m) = Hours(n) /\ m[5] + 2 < n[5])
<1>1. /\ m[5] \in 0 .. 59 /\ a[5] \in 0 .. 59 /\ b[5] \in 0 .. 59 /\ d[5] \in 0 .. 59 /\ n[5] \in 0 .. 59
      /\ d[6] \in 0 .. 59 /\ n[6] \in 0 .. 59
  BY InCalendar
<1>2. /\ Hours(m) \in Int /\ Hours(a) \in Int
      /\ \/ Hours(a) = Hours(m) /\ a[5] = m[5] + 1
         \/ Hours(m) < Hours(a)
  BY MinutePasses
<1>3. /\ Hours(b) \in Int /\ Hours(d) \in Int
      /\ \/ Hours(b) = Hours(a) /\ b[5] = a[5] + 1
         \/ Hours(a) < Hours(b)
  BY MinutePasses
<1>4. \/ Hours(d) = Hours(b) /\ d[5] = b[5] + 1
      \/ Hours(b) < Hours(d)
  BY MinutePasses
<1>5. /\ Hours(n) \in Int
      /\ Sooner(d, n) <=>
           \/ Hours(d) < Hours(n)
           \/ Hours(d) = Hours(n) /\ d[5] < n[5]
           \/ Hours(d) = Hours(n) /\ d[5] = n[5] /\ d[6] < n[6]
  BY InCalendar, SoonerByHours
<1>6. Hours(d) < Hours(n) \/ (Hours(d) = Hours(n) /\ d[5] <= n[5])
  BY <1>1, <1>3, <1>5
<1>7. Hours(m) < Hours(d) \/ (Hours(m) = Hours(d) /\ d[5] = m[5] + 3)
  BY <1>1, <1>2, <1>3, <1>4
<1> QED
  BY <1>1, <1>2, <1>3, <1>5, <1>6, <1>7

LEMMA WithinTwoMinutes ==
  ASSUME NEW m \in Calendar, NEW n \in Calendar, m[4] = n[4],
         \/ m = n
         \/ NextMinute(m, n)
         \/ \E a \in Calendar : NextMinute(m, a) /\ NextMinute(a, n)
  PROVE  ~ \/ Hours(m) < Hours(n)
           \/ Hours(m) = Hours(n) /\ m[5] + 2 < n[5]
           \/ Hours(m) = Hours(n) /\ m[5] + 2 = n[5] /\ m[6] < n[6]
<1>1. /\ m[4] \in 0 .. 23 /\ m[5] \in 0 .. 59 /\ m[6] \in 0 .. 59
      /\ n[4] \in 0 .. 23 /\ n[5] \in 0 .. 59 /\ n[6] \in 0 .. 59
  BY InCalendar
<1>2. Hours(m) \in Int /\ Hours(n) \in Int
  BY InCalendar, SoonerByHours
<1>3. CASE m = n
  BY <1>1, <1>2, <1>3
<1>4. CASE NextMinute(m, n)
  <2>1. /\ n[6] = m[6]
        /\ \/ Hours(n) = Hours(m) /\ n[5] = m[5] + 1
           \/ n[4] = (m[4] + 1) % 24
    BY <1>4, MinutePasses
  <2> QED
    BY <1>1, <1>2, <2>1
<1>5. ASSUME NEW a \in Calendar, NextMinute(m, a), NextMinute(a, n)
      PROVE  n[6] = m[6] /\ Hours(n) = Hours(m) /\ n[5] = m[5] + 2
  <2>1. /\ a[6] = m[6]
        /\ \/ Hours(a) = Hours(m) /\ a[5] = m[5] + 1 /\ a[4] = m[4]
           \/ a[5] = 0 /\ a[4] = (m[4] + 1) % 24
    BY <1>5, MinutePasses
  <2>2. /\ n[6] = a[6]
        /\ \/ Hours(n) = Hours(a) /\ n[5] = a[5] + 1 /\ n[4] = a[4]
           \/ a[5] = 59 /\ n[4] = (a[4] + 1) % 24
    BY <1>5, MinutePasses
  <2>3. a[4] \in 0 .. 23
    BY InCalendar
  <2> QED
    BY <1>1, <1>2, <2>1, <2>2, <2>3
<1> QED
  BY <1>1, <1>2, <1>3, <1>4, <1>5

(* For any clock, whatever the hour, day or year it comes to.              *)
LEMMA TwoMinutesKept == TwoMinutes
<1> SUFFICES ASSUME NEW i \in 1 .. Len(Clock), NEW j \in 1 .. Len(Clock), i <= j
             PROVE  LET fresh == iTime_Comparison_Func(DefaultExpiry(Clock[i]), Date(Clock[j])) >= 0
                    IN  /\ fresh => j <= i + 2
                        /\ j <= i + 2 /\ Clock[i][4] = Clock[j][4] => fresh
  BY DEF TwoMinutes
<1>1. Clock[i] \in Calendar /\ Clock[j] \in Calendar
  BY ClockInCalendar
<1>2. iTime_Comparison_Func(DefaultExpiry(Clock[i]), Date(Clock[j])) >= 0 <=>
        ~ \/ Hours(Clock[i]) < Hours(Clock[j])
          \/ Hours(Clock[i]) = Hours(Clock[j]) /\ Clock[i][5] + 2 < Clock[j][5]
          \/ Hours(Clock[i]) = Hours(Clock[j]) /\ Clock[i][5] + 2 = Clock[j][5] /\ Clock[i][6] < Clock[j][6]
  BY <1>1, DefaultCompared
<1>3. i \in Nat /\ j \in Nat /\ Len(Clock) \in Nat
  BY MomentsOK
<1>4. ASSUME ~ (j <= i + 2)
      PROVE  \/ Hours(Clock[i]) < Hours(Clock[j])
             \/ Hours(Clock[i]) = Hours(Clock[j]) /\ Clock[i][5] + 2 < Clock[j][5]
  <2>1. /\ i + 1 \in 1 .. Len(Clock) /\ i + 2 \in 1 .. Len(Clock) /\ i + 3 \in 1 .. Len(Clock)
        /\ i \in 1 .. Len(Clock) - 1 /\ i + 1 \in 1 .. Len(Clock) - 1 /\ i + 2 \in 1 .. Len(Clock) - 1
        /\ (i + 1) + 1 = i + 2 /\ (i + 2) + 1 = i + 3
    BY <1>3, <1>4
  <2>2. /\ Clock[i + 1] \in Calendar /\ Clock[i + 2] \in Calendar /\ Clock[i + 3] \in Calendar
    BY <2>1, ClockInCalendar
  <2>3. /\ NextMinute(Clock[i], Clock[i + 1]) /\ NextMinute(Clock[i + 1], Clock[i + 2])
        /\ NextMinute(Clock[i + 2], Clock[i + 3])
    <3>1. \A k \in 1 .. Len(Clock) - 1 : NextMinute(Clock[k], Clock[k + 1])
      BY MomentsOK
    <3>2. NextMinute(Clock[i], Clock[i + 1])
      BY <2>1, <3>1
    <3>3. NextMinute(Clock[i + 1], Clock[(i + 1) + 1]) /\ NextMinute(Clock[i + 2], Clock[(i + 2) + 1])
      BY <2>1, <3>1, Zenon
    <3> QED
      BY <2>1, <3>2, <3>3
  <2>4. Clock[j] = Clock[i + 3] \/ Sooner(Clock[i + 3], Clock[j])
    <3>1. i + 3 = j \/ i + 3 < j
      BY <1>3, <1>4
    <3>2. i + 3 < j => Ordinal(Clock[i + 3]) < Ordinal(Clock[j])
      BY <2>1, ClockRuns
    <3> QED
      BY <1>1, <2>2, <3>1, <3>2, SoonerIsLess
  <2> QED
    BY <1>1, <2>2, <2>3, <2>4, AfterThreeMinutes, Zenon
<1>5. ASSUME j <= i + 2
      PROVE  \/ Clock[i] = Clock[j]
             \/ NextMinute(Clock[i], Clock[j])
             \/ \E a \in Calendar : NextMinute(Clock[i], a) /\ NextMinute(a, Clock[j])
  <2>1. CASE j = i
    BY <2>1
  <2>2. CASE j = i + 1
    <3>1. i \in 1 .. Len(Clock) - 1
      BY <1>3, <2>2
    <3> QED
      BY <2>2, <3>1, MomentsOK
  <2>3. CASE j = i + 2
    <3>1. i \in 1 .. Len(Clock) - 1 /\ i + 1 \in 1 .. Len(Clock) - 1 /\ (i + 1) + 1 = j /\ i + 1 \in 1 .. Len(Clock)
      BY <1>3, <2>3
    <3>2. NextMinute(Clock[i], Clock[i + 1])
      BY <3>1, MomentsOK
    <3>3. NextMinute(Clock[i + 1], Clock[j])
      BY <3>1, MomentsOK
    <3>4. Clock[i + 1] \in Calendar
      BY <3>1, ClockInCalendar
    <3> QED
      BY <3>2, <3>3, <3>4
  <2> QED
    BY <1>3, <1>5, <2>1, <2>2, <2>3
<1>6. ASSUME j <= i + 2, Clock[i][4] = Clock[j][4]
      PROVE  ~ \/ Hours(Clock[i]) < Hours(Clock[j])
               \/ Hours(Clock[i]) = Hours(Clock[j]) /\ Clock[i][5] + 2 < Clock[j][5]
               \/ Hours(Clock[i]) = Hours(Clock[j]) /\ Clock[i][5] + 2 = Clock[j][5] /\ Clock[i][6] < Clock[j][6]
  BY <1>1, <1>5, <1>6, WithinTwoMinutes, Zenon
<1> QED
  BY <1>2, <1>4, <1>6, Zenon

(* The comparison is right for any dates, and a page without an Expires    *)
(* header is kept for two minutes, whatever the clock shows when it runs.  *)
THEOREM ProxyDatesRight == ProxySpec => []DatesRight
<1>1. DateOrder
  BY MomentsOK, DatesOrdered DEF DateOrder
<1>2. DatesRight
  BY <1>1, TwoMinutesKept DEF DatesRight
<1> QED
  BY <1>2, PTL

-----------------------------------------------------------------------------
(* Ranges.                                                                 *)
LEMMA Bounds ==
  /\ Horizon \in Nat \ {0} /\ 1 \in 1 .. Horizon
  /\ \A n \in 1 .. Horizon : n \in 1 .. Len(Clock)
  /\ Len(Clock) \in 1 .. Len(Clock)
  /\ Nobody \in Dates /\ Junk \in Dates
  BY ProxyConstantsOK, MomentsOK, SMTT(30) DEF Dates

LEMMA TwoMinutesOn ==
  ASSUME NEW Months,
         NEW d \in [year : Int, month : Months, day : Int, hour : Int, minute : 0 .. 59, second : Int]
  PROVE  [d EXCEPT !.minute = @ + 2] \in
           [year : Int, month : Months, day : Int, hour : Int, minute : 0 .. 61, second : Int]
  OBVIOUS

LEMMA DateTyped ==
  ASSUME NEW Months,
         NEW y \in Int, NEW m \in Months, NEW d \in Int, NEW h \in Int, NEW i \in 0 .. 59, NEW s \in Int
  PROVE  [year |-> y, month |-> m, day |-> d, hour |-> h, minute |-> i, second |-> s] \in
           [year : Int, month : Months, day : Int, hour : Int, minute : 0 .. 59, second : Int]
  OBVIOUS

LEMMA ExceptTyped ==
  ASSUME NEW D, NEW R, NEW f \in [D -> R], NEW d, NEW r \in R
  PROVE  [f EXCEPT ![d] = r] \in [D -> R]
  OBVIOUS

LEMMA DatesOfClock ==
  ASSUME NEW n \in 1 .. Len(Clock)
  PROVE  Date(Clock[n]) \in Dates /\ DefaultExpiry(Clock[n]) \in Dates
<1>0. Clock[n] \in Calendar
  BY ClockInCalendar
<1> DEFINE m == Clock[n]
<1>2. Date(m) \in [year : Int, month : {pcMonth[k] : k \in 1 .. 12}, day : Int,
                  hour : Int, minute : 0 .. 59, second : Int]
  <2>0. /\ m[1] \in Int /\ m[2] \in 1 .. 12 /\ m[3] \in 1 .. 31
        /\ m[4] \in 0 .. 23 /\ m[5] \in 0 .. 59 /\ m[6] \in 0 .. 59
    BY <1>0, InCalendar
  <2> HIDE DEF m
  <2>1. /\ m[1] \in Int /\ m[2] \in 1 .. 12 /\ m[3] \in Int
        /\ m[4] \in Int /\ m[5] \in 0 .. 59 /\ m[6] \in Int
    <3>1. 1 .. 31 \subseteq Int /\ 0 .. 23 \subseteq Int /\ 0 .. 59 \subseteq Int
      OBVIOUS
    <3> QED
      BY <2>0, <3>1, Zenon
  <2>2. pcMonth[m[2]] \in {pcMonth[k] : k \in 1 .. 12}
    BY <2>1
  <2> QED
    BY <2>1, <2>2, DateTyped DEF Date
<1>3. DefaultExpiry(Clock[n]) \in [year : Int, month : {pcMonth[k] : k \in 1 .. 12}, day : Int,
                                   hour : Int, minute : 0 .. 61, second : Int]
  BY <1>2, TwoMinutesOn DEF DefaultExpiry
<1> QED
  BY <1>2, <1>3 DEF Dates

(* Every stamp the proxy writes is a date of the clock.                    *)
LEMMA StampIsDate ==
  ASSUME ProxyTypeOK, ppc \in {"miss", "check"}, job.resp # Nobody,
         NEW default \in Dates
  PROVE  Stamp \in Dates /\ Expiry(default) \in Dates
<1>1. job.t \in 1 .. Horizon /\ job.resp \in Replies \ {Nobody}
  BY DEF ProxyTypeOK
<1>2. job.t \in 1 .. Len(Clock) /\ Len(Clock) \in 1 .. Len(Clock)
  BY <1>1, Bounds
<1>3. Stamp \in Dates
  BY <1>2, DatesOfClock DEF Stamp
<1>4. job.resp.life \in Nat \cup {None, Junk}
  BY <1>1 DEF Replies
<1>5. CASE job.resp.life = None
  BY <1>3, <1>5, ProxyConstantsOK DEF Expiry
<1>6. CASE job.resp.life # None /\ job.resp.life = Junk
  BY <1>3, <1>6, Bounds DEF Expiry
<1>7. CASE job.resp.life # None /\ job.resp.life # Junk
  <2>1. job.resp.life \in Nat
    BY <1>4, <1>7
  <2> DEFINE n == job.t + job.resp.life
             k == IF n <= Len(Clock) THEN n ELSE Len(Clock)
  <2>2. k \in 1 .. Len(Clock)
    BY <1>2, <2>1
  <2>3. Expiry(default) = Date(Clock[k])
    BY <1>7 DEF Expiry
  <2> QED
    BY <1>3, <2>2, <2>3, DatesOfClock
<1> QED
  BY <1>5, <1>6, <1>7

-----------------------------------------------------------------------------
(* Type correctness.                                                       *)

LEMMA TypeInit == ProxyInit => ProxyTypeOK
<1> SUFFICES ASSUME ProxyInit PROVE ProxyTypeOK
  OBVIOUS
<1>1. /\ cache \in [Entries -> [url : Urls \cup {Nobody}, last : Dates, expiry : Dates]]
      /\ fetched \in [Entries -> [at : 1 .. Horizon, use : 1 .. Horizon]]
  BY Bounds DEF ProxyInit, EmptyTable, NeverFetched
<1>2. page \in [Urls -> 0 .. MaxVersion]
  BY ProxyConstantsOK DEF ProxyInit
<1> QED
  BY <1>1, <1>2, Bounds DEF ProxyInit, ProxyTypeOK

LEMMA TypeExit == ASSUME ProxyTypeOK, Exit PROVE ProxyTypeOK'
<1>1. /\ cache' \in [Entries -> [url : Urls \cup {Nobody}, last : Dates, expiry : Dates]]
      /\ fetched' \in [Entries -> [at : 1 .. Horizon, use : 1 .. Horizon]]
  BY Bounds DEF Exit, EmptyTable, NeverFetched
<1> QED
  BY <1>1 DEF ProxyTypeOK, Exit, world

LEMMA TypeServe ==
  ASSUME ProxyTypeOK, Waiting, NEW c \in Clients, Serve(c)
  PROVE  ProxyTypeOK'
<1>1. CASE BadRequest(c) \/ OriginUnreachable(c) \/ SendFails(c)
  BY <1>1, TypeExit DEF BadRequest, OriginUnreachable, SendFails
<1>2. now \in 1 .. Len(Clock) /\ Date(Clock[now]) \in Dates
  <2>1. now \in 1 .. Len(Clock)
    BY Bounds DEF ProxyTypeOK
  <2> QED
    BY <2>1, DatesOfClock
<1>3. ASSUME Reached(c)
      PROVE  want[c] \in Urls /\ todo' \subseteq Clients \cup {Listener} /\ ppc = "scan" /\ job = Nobody
  BY <1>3, ProxyConstantsOK DEF Reached, Reads, ProxyTypeOK, Waiting
<1>4. CASE Miss(c)
  <2>1. PICK v \in Entries :
          /\ oldest' = v
          /\ job' = [c |-> c, t |-> now, cell |-> v, resp |-> Nobody]
          /\ cache' = [cache EXCEPT ![v] = [url |-> want[c], last |-> Nobody, expiry |-> Nobody]]
          /\ files' = [files EXCEPT ![RemovedFile(v, want[c])] = Nobody]
    BY <1>4 DEF Miss
  <2> QED
    BY <1>3, <1>4, <2>1 DEF Miss, ProxyTypeOK, Replies, Dates, world
<1>5. CASE Hit(c)
  <2>1. PICK i \in Entries :
          /\ cache' = [cache EXCEPT ![i].last = Date(Clock[now])]
          /\ fetched' = [fetched EXCEPT ![i].use = now]
    BY <1>5 DEF Hit, check_cache_entry, UseStamp
  <2>2. /\ cache' \in [Entries -> [url : Urls \cup {Nobody}, last : Dates, expiry : Dates]]
        /\ fetched' \in [Entries -> [at : 1 .. Horizon, use : 1 .. Horizon]]
    BY <1>2, <2>1 DEF ProxyTypeOK
  <2>3. /\ stage' \in [Clients -> {"away", "knocking", "open"}]
        /\ want' \in [Clients -> Urls \cup {Garbage, Nobody}]
    BY <1>5 DEF Hit, Answered, ProxyTypeOK
  <2> QED
    BY <1>3, <1>5, <2>2, <2>3 DEF Hit, ProxyTypeOK, world
<1>6. CASE Expired(c)
  BY <1>3, <1>6 DEF Expired, check_cache_entry, ProxyTypeOK, Replies, world, store
<1> QED
  BY <1>1, <1>4, <1>5, <1>6 DEF Serve

LEMMA TypeReplied ==
  ASSUME ProxyTypeOK, Waiting, NoFile \/ Store \/ Revalidate
  PROVE  ProxyTypeOK'
<1>1. CASE NoFile
  BY <1>1, TypeExit DEF NoFile
<1>2. ASSUME ppc \in {"miss", "check"}, job.resp # Nobody
      PROVE  /\ job.c \in Clients /\ job.cell \in Entries /\ job.t \in 1 .. Horizon
             /\ job.resp \in Replies \ {Nobody} /\ job.resp.ver \in 0 .. MaxVersion
             /\ want[job.c] \in Urls
             /\ DefaultExpiry(Clock[job.t]) \in Dates /\ Date(Clock[job.t]) \in Dates
             /\ Stamp \in Dates
             /\ \A default \in Dates : Expiry(default) \in Dates
  <2>1. job.c \in Clients /\ job.cell \in Entries /\ job.t \in 1 .. Horizon /\ job.resp \in Replies
    BY <1>2 DEF ProxyTypeOK
  <2>2. job.resp.ver \in 0 .. MaxVersion
    BY <1>2, <2>1 DEF Replies
  <2>3. DefaultExpiry(Clock[job.t]) \in Dates /\ Date(Clock[job.t]) \in Dates
    <3>1. job.t \in 1 .. Len(Clock)
      BY <2>1, Bounds
    <3> QED
      BY <3>1, DatesOfClock
  <2> QED
    BY <1>2, <2>1, <2>2, <2>3, StampIsDate DEF Waiting
<1>3. ASSUME NEW how, NEW content, Answered(job.c, how, content)
      PROVE  /\ stage' \in [Clients -> {"away", "knocking", "open"}]
             /\ want' \in [Clients -> Urls \cup {Garbage, Nobody}]
  BY <1>3 DEF Answered, ProxyTypeOK
<1>4. CASE Store
  <2> DEFINE content == [url |-> want[job.c],
                         ver |-> IF job.resp.status = 200 THEN job.resp.ver ELSE 0]
  <2>0. /\ ppc \in {"miss", "check"} /\ job.resp # Nobody
        /\ job.cell \in Entries /\ job.t \in 1 .. Horizon
        /\ Stamp \in Dates /\ Expiry(DefaultExpiry(Clock[job.t])) \in Dates
    BY <1>2, <1>4 DEF Store
  <2>1. /\ cache' \in [Entries -> [url : Urls \cup {Nobody}, last : Dates, expiry : Dates]]
        /\ fetched' \in [Entries -> [at : 1 .. Horizon, use : 1 .. Horizon]]
    <3> DEFINE expiry == Expiry(DefaultExpiry(Clock[job.t]))
    <3>1. /\ cache' = [cache EXCEPT ![job.cell].last = Stamp, ![job.cell].expiry = expiry]
          /\ fetched' = [fetched EXCEPT ![job.cell] = [at |-> job.t, use |-> job.t]]
      BY <1>4 DEF Store
    <3>2. /\ cache \in [Entries -> [url : Urls \cup {Nobody}, last : Dates, expiry : Dates]]
          /\ fetched \in [Entries -> [at : 1 .. Horizon, use : 1 .. Horizon]]
      BY DEF ProxyTypeOK
    <3>3. expiry \in Dates
      BY <2>0
    <3> HIDE DEF expiry
    <3>4. cache' \in [Entries -> [url : Urls \cup {Nobody}, last : Dates, expiry : Dates]]
      BY <2>0, <3>1, <3>2, <3>3
    <3>5. [at |-> job.t, use |-> job.t] \in [at : 1 .. Horizon, use : 1 .. Horizon]
      BY <2>0
    <3>6. fetched' \in [Entries -> [at : 1 .. Horizon, use : 1 .. Horizon]]
      BY <2>0, <3>1, <3>2, <3>5, ExceptTyped
    <3> QED
      BY <3>4, <3>6
  <2>2. files' \in [{FileOf[u] : u \in Urls} -> Content \cup {Nobody}]
    <3>1. content \in Content
      BY <1>2, <2>0, ProxyConstantsOK DEF Content
    <3>2. files' = [files EXCEPT ![FileOf[want[job.c]]] = content]
      BY <1>4 DEF Store
    <3> QED
      BY <3>1, <3>2 DEF ProxyTypeOK
  <2>3. /\ stage' \in [Clients -> {"away", "knocking", "open"}]
        /\ want' \in [Clients -> Urls \cup {Garbage, Nobody}]
    BY <1>3, <1>4 DEF Store
  <2> QED
    BY <1>4, <2>1, <2>2, <2>3 DEF Store, Finish, ProxyTypeOK, world
<1>5. CASE Revalidate
  <2> DEFINE content == [url |-> want[job.c], ver |-> job.resp.ver]
  <2>0. /\ job.cell \in Entries /\ job.t \in 1 .. Horizon /\ content \in Content
        /\ Stamp \in Dates /\ Expiry(Date(Clock[job.t])) \in Dates
    BY <1>2, <1>5 DEF Revalidate, Content
  <2>1. cache' \in [Entries -> [url : Urls \cup {Nobody}, last : Dates, expiry : Dates]]
    BY <1>5, <2>0, SMTT(30) DEF Revalidate, ProxyTypeOK
  <2>2. /\ files' \in [{FileOf[u] : u \in Urls} -> Content \cup {Nobody}]
        /\ fetched' \in [Entries -> [at : 1 .. Horizon, use : 1 .. Horizon]]
    <3> HIDE DEF content
    <3>1. \/ files' = [files EXCEPT ![FileOf[cache[job.cell].url]] = content]
             /\ fetched' = [fetched EXCEPT ![job.cell] = [at |-> job.t, use |-> job.t]]
          \/ UNCHANGED <<files, fetched>>
      BY <1>5 DEF Revalidate, content
    <3>2. /\ files \in [{FileOf[u] : u \in Urls} -> Content \cup {Nobody}]
          /\ fetched \in [Entries -> [at : 1 .. Horizon, use : 1 .. Horizon]]
      BY DEF ProxyTypeOK
    <3>3. [at |-> job.t, use |-> job.t] \in [at : 1 .. Horizon, use : 1 .. Horizon]
      BY <2>0
    <3>4. files' \in [{FileOf[u] : u \in Urls} -> Content \cup {Nobody}]
      BY <2>0, <3>1, <3>2, ExceptTyped
    <3>5. fetched' \in [Entries -> [at : 1 .. Horizon, use : 1 .. Horizon]]
      BY <3>1, <3>2, <3>3, ExceptTyped
    <3> QED
      BY <3>4, <3>5
  <2>3. /\ stage' \in [Clients -> {"away", "knocking", "open"}]
        /\ want' \in [Clients -> Urls \cup {Garbage, Nobody}]
    BY <1>3, <1>5 DEF Revalidate
  <2> QED
    BY <1>5, <2>1, <2>2, <2>3 DEF Revalidate, Finish, ProxyTypeOK, world
<1> QED
  BY <1>1, <1>4, <1>5

LEMMA TypeStep ==
  ASSUME ProxyTypeOK, Waiting, [ProxyNext]_pvars
  PROVE  ProxyTypeOK'
<1>1. CASE Tick
  <2>1. now' \in 1 .. Horizon
    BY <1>1, Bounds DEF Tick, ProxyTypeOK
  <2> QED
    BY <1>1, <2>1 DEF Tick, Outside, ProxyTypeOK, store
<1>2. ASSUME NEW u \in Urls, Publish(u) PROVE ProxyTypeOK'
  <2>1. page' \in [Urls -> 0 .. MaxVersion] /\ mtime' \in [Urls -> 1 .. Horizon]
    <3>1. page[u] \in 0 .. MaxVersion /\ page[u] < MaxVersion /\ MaxVersion \in Nat
      BY <1>2, ProxyConstantsOK DEF Publish, ProxyTypeOK
    <3> QED
      BY <1>2, <3>1 DEF Publish, ProxyTypeOK
  <2> QED
    BY <1>2, <2>1 DEF Publish, Outside, ProxyTypeOK, store
<1>3. ASSUME NEW c \in Clients, NEW w \in Urls \cup {Garbage}, Connect(c, w) PROVE ProxyTypeOK'
  BY <1>3 DEF Connect, Outside, ProxyTypeOK, world, store
<1>4. CASE Select
  BY <1>4 DEF Select, Reported, ProxyTypeOK, world, store
<1>5. ASSUME NEW c \in Clients, Accept(c) PROVE ProxyTypeOK'
  BY <1>5 DEF Accept, Accepting, ProxyTypeOK, world, store
<1>6. CASE AcceptFails \/ StaleBit
  <2>1. CASE Accepting /\ UNCHANGED stage
    BY <2>1 DEF Accepting, ProxyTypeOK, world, store
  <2> QED
    BY <1>6, <2>1, TypeExit DEF AcceptFails, StaleBit
<1>7. CASE OriginAnswers
  <2>1. PICK life \in Lifetimes[want[job.c]], s \in {200, 304, 404, 500} :
          job' = [job EXCEPT !.resp = [status |-> s, ver |-> page[want[job.c]],
                                       mod |-> mtime[want[job.c]], life |-> life]]
    BY <1>7 DEF OriginAnswers
  <2>2. want[job.c] \in Urls /\ life \in Nat \cup {None, Junk}
    BY <1>7, ProxyConstantsOK, SMTT(30) DEF OriginAnswers, Waiting
  <2>3. [status |-> s, ver |-> page[want[job.c]], mod |-> mtime[want[job.c]], life |-> life] \in Replies
    BY <2>2 DEF Replies, ProxyTypeOK
  <2>4. job' \in [c : Clients, t : 1 .. Horizon, cell : Entries, resp : Replies]
    BY <1>7, <2>1, <2>3 DEF OriginAnswers, ProxyTypeOK
  <2> QED
    BY <1>7, <2>4 DEF OriginAnswers, ProxyTypeOK, world, store
<1>8. CASE UNCHANGED pvars
  BY <1>8 DEF pvars, world, store, ProxyTypeOK
<1> QED
  BY <1>1, <1>2, <1>3, <1>4, <1>5, <1>6, <1>7, <1>8, TypeServe, TypeReplied, ProxyConstantsOK
  DEF ProxyNext
-----------------------------------------------------------------------------
(* Waiting is inductive.                                                   *)

LEMMA WaitingServe ==
  ASSUME ProxyTypeOK, Waiting, NEW c \in Clients, Serve(c)
  PROVE  Waiting'
<1> USE ProxyConstantsOK
<1>1. CASE BadRequest(c) \/ OriginUnreachable(c) \/ SendFails(c)
  BY <1>1 DEF BadRequest, OriginUnreachable, SendFails, Exit, Waiting, world
<1>2. ASSUME Reached(c)
      PROVE  /\ want[c] \in Urls /\ stage[c] = "open" /\ ppc = "scan"
             /\ todo' = todo \ {c} /\ Listener \notin todo
  BY <1>2 DEF Reached, Reads, ProxyTypeOK, Waiting
<1>3. CASE Miss(c)
  <2>1. PICK v \in Entries :
          /\ job' = [c |-> c, t |-> now, cell |-> v, resp |-> Nobody]
          /\ cache' = [cache EXCEPT ![v] = [url |-> want[c], last |-> Nobody, expiry |-> Nobody]]
    BY <1>3 DEF Miss
  <2>2. job'.c = c /\ cache'[job'.cell].url = want[c]
    BY <2>1 DEF ProxyTypeOK
  <2> QED
    BY <1>2, <1>3, <2>2 DEF Miss, Waiting, world
<1>4. CASE Hit(c)
  <2>1. stage' = [stage EXCEPT ![c] = "away"] /\ want' = [want EXCEPT ![c] = Nobody]
    BY <1>4 DEF Hit, Answered
  <2> QED
    BY <1>2, <1>4, <2>1 DEF Hit, Waiting, ProxyTypeOK
<1>5. CASE Expired(c)
  <2>1. PICK i \in check_cache_entry(want[c]) :
          job' = [c |-> c, t |-> now, cell |-> i, resp |-> Nobody]
    BY <1>5 DEF Expired
  <2>2. job'.c = c /\ cache[job'.cell].url = want[c]
    BY <2>1 DEF check_cache_entry
  <2> QED
    BY <1>2, <1>5, <2>2 DEF Expired, Waiting, world, store
<1> QED
  BY <1>1, <1>3, <1>4, <1>5 DEF Serve

LEMMA WaitingStep ==
  ASSUME ProxyTypeOK, Waiting, [ProxyNext]_pvars
  PROVE  Waiting'
<1> USE ProxyConstantsOK
<1>1. CASE Tick
  BY <1>1 DEF Tick, Outside, Waiting, store
<1>2. ASSUME NEW u \in Urls, Publish(u) PROVE Waiting'
  BY <1>2 DEF Publish, Outside, Waiting, store
<1>3. ASSUME NEW c \in Clients, NEW w \in Urls \cup {Garbage}, Connect(c, w) PROVE Waiting'
  <2>1. /\ stage[c] = "away" /\ w # Nobody
        /\ stage' = [stage EXCEPT ![c] = "knocking"] /\ want' = [want EXCEPT ![c] = w]
    BY <1>3 DEF Connect
  <2>2. ppc \in {"miss", "check"} => job.c \in Clients
    BY DEF ProxyTypeOK
  <2> QED
    BY <1>3, <2>1, <2>2, ZenonT(30) DEF Connect, Outside, Waiting, ProxyTypeOK, store
<1>4. CASE Select
  BY <1>4 DEF Select, Reported, Waiting, world, store
<1>5. ASSUME NEW c \in Clients, Accept(c) PROVE Waiting'
  BY <1>5 DEF Accept, Accepting, Waiting, ProxyTypeOK, world, store
<1>6. CASE AcceptFails \/ StaleBit
  BY <1>6 DEF AcceptFails, StaleBit, Accepting, Exit, Waiting, world, store
<1>7. CASE OriginAnswers
  <2>1. job'.c = job.c /\ job'.cell = job.cell
    BY <1>7 DEF OriginAnswers, ProxyTypeOK
  <2> QED
    BY <1>7, <2>1 DEF OriginAnswers, Waiting, world, store
<1>8. CASE NoFile
  BY <1>8 DEF NoFile, Exit, Waiting, world
<1>9. CASE Store \/ Revalidate
  <2>1. /\ stage' = [stage EXCEPT ![job.c] = "away"] /\ want' = [want EXCEPT ![job.c] = Nobody]
        /\ ppc' = "scan" /\ UNCHANGED todo /\ ppc \in {"miss", "check"}
    BY <1>9 DEF Store, Revalidate, Answered, Finish
  <2> QED
    BY <2>1 DEF Waiting, ProxyTypeOK
<1>10. CASE UNCHANGED pvars
  BY <1>10 DEF pvars, world, store, Waiting
<1> QED
  BY <1>1, <1>2, <1>3, <1>4, <1>5, <1>6, <1>7, <1>8, <1>9, <1>10, WaitingServe DEF ProxyNext

(* What is typed stays typed, and who waits has a request.                 *)
THEOREM ProxyTypeCorrect == ProxySpec => [](ProxyTypeOK /\ Waiting)
<1>1. ProxyInit => ProxyTypeOK /\ Waiting
  BY TypeInit DEF ProxyInit, Waiting
<1>2. ProxyTypeOK /\ Waiting /\ [ProxyNext]_pvars => (ProxyTypeOK /\ Waiting)'
  BY TypeStep, WaitingStep
<1> QED
  BY <1>1, <1>2, PTL DEF ProxySpec

-----------------------------------------------------------------------------
(* One entry for a page, and its file.                                     *)

(* What a step that does not begin a miss leaves of the table.             *)
SameUrls == \A i \in Entries : cache'[i].url = cache[i].url

LEMMA RestampKeepsUrls == ASSUME ProxyTypeOK, Store \/ Revalidate PROVE SameUrls
<1>1. cache \in [Entries -> [url : Urls \cup {Nobody}, last : Dates, expiry : Dates]]
  BY DEF ProxyTypeOK
<1>2. ASSUME NEW k, NEW d, NEW e, cache' = [cache EXCEPT ![k].last = d, ![k].expiry = e]
      PROVE  SameUrls
  BY <1>1, <1>2 DEF SameUrls
<1>3. ASSUME NEW k, NEW d, NEW e, cache' = [cache EXCEPT ![k].expiry = e, ![k].last = d]
      PROVE  SameUrls
  BY <1>1, <1>3 DEF SameUrls
<1>4. CASE Store
  <2>1. cache' = [cache EXCEPT ![job.cell].last = Stamp,
                               ![job.cell].expiry = Expiry(DefaultExpiry(Clock[job.t]))]
    BY <1>4 DEF Store
  <2> QED
    BY <1>2, <2>1, Zenon
<1>5. CASE Revalidate
  <2>1. cache' = [cache EXCEPT ![job.cell].expiry = Expiry(Date(Clock[job.t])),
                               ![job.cell].last = IF job.resp.status = 200 THEN Stamp ELSE @]
    BY <1>5 DEF Revalidate
  <2> DEFINE e == Expiry(Date(Clock[job.t]))
             d == IF job.resp.status = 200 THEN Stamp ELSE cache[job.cell].last
  <2>2. cache' = [cache EXCEPT ![job.cell].expiry = e, ![job.cell].last = d]
    BY <2>1, <1>1
  <2> HIDE DEF d, e
  <2> QED
    BY <1>3, <2>2, Zenon
<1> QED
  BY <1>4, <1>5

LEMMA UrlsKept ==
  ASSUME ProxyTypeOK, [ProxyNext]_pvars,
         ~ \E c \in Clients : Miss(c), ppc' # "exited"
  PROVE  SameUrls
<1>1. ASSUME NEW i \in Entries, NEW d,
             cache' = [cache EXCEPT ![i].last = d]
      PROVE  SameUrls
  BY <1>1 DEF SameUrls, ProxyTypeOK
<1>2. CASE Store \/ Revalidate
  BY <1>2, RestampKeepsUrls
<1>3. ASSUME NEW c \in Clients, Hit(c) PROVE SameUrls
  BY <1>1, <1>3 DEF Hit, check_cache_entry
<1>4. CASE UNCHANGED cache
  BY <1>4 DEF SameUrls
<1>5. ~ Exit
  BY DEF Exit
<1>6. ASSUME NEW c \in Clients, Accept(c) \/ Serve(c) PROVE SameUrls
  BY <1>3, <1>4, <1>5, <1>6 DEF Accept, Accepting, Serve, BadRequest, OriginUnreachable, SendFails, Expired, store
<1>7. CASE AcceptFails \/ StaleBit \/ NoFile
  BY <1>4, <1>5, <1>7 DEF AcceptFails, StaleBit, Accepting, NoFile, store
<1>8. CASE Select \/ OriginAnswers \/ UNCHANGED pvars
  BY <1>4, <1>8 DEF Select, OriginAnswers, pvars, store
<1>9. CASE Tick \/ (\E u \in Changing : Publish(u)) \/ \E c \in Clients, w \in Urls \cup {Garbage} : Connect(c, w)
  BY <1>4, <1>9 DEF Tick, Publish, Connect, Outside, store
<1> QED
  BY <1>2, <1>6, <1>7, <1>8, <1>9 DEF ProxyNext

(* After a step the table is as it was, empty, or has one entry replaced   *)
(* by a page that was not in it.                                           *)
LEMMA OneEntryStep ==
  ASSUME ProxyTypeOK, OneEntryPerPage, [ProxyNext]_pvars
  PROVE  OneEntryPerPage'
<1>1. ASSUME NEW c \in Clients, Miss(c) PROVE OneEntryPerPage'
  <2>1. PICK v \in Entries :
          cache' = [cache EXCEPT ![v] = [url |-> want[c], last |-> Nobody, expiry |-> Nobody]]
    BY <1>1 DEF Miss
  <2>2. \A i \in Entries : cache[i].url # want[c]
    BY <1>1 DEF Miss, check_cache_entry
  <2>3. \A i \in Entries : cache'[i].url = IF i = v THEN want[c] ELSE cache[i].url
    BY <2>1 DEF ProxyTypeOK
  <2> QED
    BY <2>2, <2>3 DEF OneEntryPerPage
<1>2. CASE SameUrls
  BY <1>2 DEF SameUrls, OneEntryPerPage
<1>3. CASE cache' = EmptyTable
  BY <1>3 DEF EmptyTable, OneEntryPerPage
<1>4. CASE ppc' = "exited" /\ ~ Exit
  <2>1. UNCHANGED cache
    BY <1>4 DEF ProxyNext, pvars, store, Tick, Publish, Connect, Outside, Select, Accept, Accepting,
      AcceptFails, StaleBit, Serve, BadRequest, OriginUnreachable, SendFails, Miss, Hit, Reached, Reads, Expired,
      OriginAnswers, NoFile, Store, Revalidate, Finish
  <2> QED
    BY <2>1 DEF OneEntryPerPage
<1> QED
  BY <1>1, <1>2, <1>3, <1>4, UrlsKept DEF Exit

(* The file of the page that was fetched or renewed.                       *)
LEMMA FileWritten ==
  ASSUME ProxyTypeOK, Waiting, FileOfEntry, Store \/ Revalidate
  PROVE  FileOfEntry'
<1> DEFINE w == want[job.c]
<1>1. /\ ppc \in {"miss", "check"} /\ ppc' = "scan" /\ w \in Urls
      /\ job.cell \in Entries /\ cache[job.cell].url = w
  BY DEF Store, Revalidate, Finish, Waiting, ProxyTypeOK
<1>2. SameUrls
  BY RestampKeepsUrls
<1>3. ASSUME NEW n \in 0 .. MaxVersion, files' = [files EXCEPT ![FileOf[w]] = [url |-> w, ver |-> n]]
      PROVE  FileOfEntry'
  <2>0. ppc' # "miss" /\ \A i \in Entries : cache'[i].url = cache[i].url
    BY <1>1, <1>2 DEF SameUrls
  <2> SUFFICES ASSUME NEW i \in Entries, cache'[i].url # Nobody
               PROVE  /\ files'[FileOf[cache'[i].url]] # Nobody
                      /\ files'[FileOf[cache'[i].url]].url = cache'[i].url \/ SharesName(cache'[i].url)
    BY <2>0 DEF FileOfEntry, SharesName
  <2> DEFINE u == cache'[i].url
  <2>1. u \in Urls /\ u = cache[i].url
    BY <2>0 DEF ProxyTypeOK
  <2>2. CASE FileOf[u] = FileOf[w]
    <3>1. files'[FileOf[u]] = [url |-> w, ver |-> n]
      BY <1>1, <1>3, <2>1, <2>2 DEF ProxyTypeOK
    <3>2. w = u \/ SharesName(u)
      BY <1>1, <2>2 DEF SharesName
    <3>3. files'[FileOf[u]].url = w /\ files'[FileOf[u]] # Nobody
      <4>1. [url |-> w, ver |-> n] # Nobody
        BY <1>1, ProxyConstantsOK, SMTT(30)
      <4> QED
        BY <3>1, <4>1
    <3> QED
      BY <3>2, <3>3
  <2>3. CASE FileOf[u] # FileOf[w]
    <3>1. files'[FileOf[u]] = files[FileOf[u]]
      BY <1>3, <2>1, <2>3 DEF ProxyTypeOK
    <3> QED
      BY <1>1, <2>1, <2>3, <3>1 DEF FileOfEntry
  <2> QED
    BY <2>2, <2>3
<1>4. CASE ppc = "check" /\ UNCHANGED files
  BY <1>1, <1>2, <1>4 DEF FileOfEntry, SameUrls
<1>5. job.resp.ver \in 0 .. MaxVersion /\ 0 \in 0 .. MaxVersion
  BY <1>1, ProxyConstantsOK DEF Store, Revalidate, ProxyTypeOK, Replies
<1>6. CASE Store
  BY <1>3, <1>5, <1>6, ZenonT(30) DEF Store
<1>7. CASE Revalidate
  BY <1>1, <1>3, <1>4, <1>5, <1>7 DEF Revalidate
<1> QED
  BY <1>6, <1>7

LEMMA FileStep ==
  ASSUME ProxyTypeOK, Waiting, FileOfEntry, [ProxyNext]_pvars
  PROVE  FileOfEntry'
<1>1. CASE Store \/ Revalidate
  BY <1>1, FileWritten
<1>2. ASSUME NEW c \in Clients, Miss(c) PROVE FileOfEntry'
  <2>1. PICK v \in Entries :
          /\ job' = [c |-> c, t |-> now, cell |-> v, resp |-> Nobody]
          /\ cache' = [cache EXCEPT ![v] = [url |-> want[c], last |-> Nobody, expiry |-> Nobody]]
          /\ files' = [files EXCEPT ![FileOf[want[c]]] = Nobody]
    BY <1>2 DEF Miss, RemovedFile
  <2>2. ppc = "scan" /\ ppc' = "miss" /\ want'[job'.c] = want[c]
    BY <1>2, <2>1 DEF Miss, Reached, Reads
  <2>3. \A i \in Entries : cache'[i].url = IF i = v THEN want[c] ELSE cache[i].url
    BY <2>1 DEF ProxyTypeOK
  <2>4. \A f : f # FileOf[want[c]] => files'[f] = files[f]
    BY <2>1 DEF ProxyTypeOK
  <2> QED
    BY <2>2, <2>3, <2>4 DEF FileOfEntry, SharesName
<1>3. CASE Exit
  BY <1>3 DEF Exit, FileOfEntry
<1>4. ASSUME SameUrls, UNCHANGED files, ppc # "exited",
             ppc = "miss" => ppc' = "miss" /\ want'[job'.c] = want[job.c]
      PROVE  FileOfEntry'
  <2> SUFFICES ASSUME NEW i \in Entries, cache'[i].url # Nobody,
                      ~ (ppc' = "miss" /\ FileOf[cache'[i].url] = FileOf[want'[job'.c]])
               PROVE  /\ files'[FileOf[cache'[i].url]] # Nobody
                      /\ files'[FileOf[cache'[i].url]].url = cache'[i].url \/ SharesName(cache'[i].url)
    BY DEF FileOfEntry, SharesName
  <2>1. cache'[i].url = cache[i].url /\ files' = files
    BY <1>4 DEF SameUrls
  <2>2. ~ (ppc = "miss" /\ FileOf[cache[i].url] = FileOf[want[job.c]])
    BY <1>4, <2>1
  <2> QED
    BY <1>4, <2>1, <2>2 DEF FileOfEntry
<1>5. ASSUME UNCHANGED <<cache, files, ppc, want, job>> PROVE FileOfEntry'
  <2>1. CASE ppc = "exited"
    BY <1>5, <2>1 DEF FileOfEntry
  <2>2. CASE ppc # "exited"
    BY <1>4, <1>5, <2>2 DEF SameUrls
  <2> QED
    BY <2>1, <2>2
<1>6. ASSUME NEW c \in Clients, Hit(c) \/ Expired(c) PROVE FileOfEntry'
  <2>1. SameUrls /\ UNCHANGED files /\ ppc = "scan" /\ ppc' \in {"scan", "check"}
    <3>1. ~ \E k \in Clients : Miss(k)
      BY <1>6 DEF Hit, Expired, Miss, Reached, Reads, Answered
    <3> QED
      BY <1>6, <3>1, UrlsKept DEF Hit, Expired, Reached, Reads, store
  <2> QED
    BY <1>4, <2>1
<1>7. ASSUME NEW c \in Clients, Serve(c) PROVE FileOfEntry'
  BY <1>2, <1>3, <1>6, <1>7 DEF Serve, BadRequest, OriginUnreachable, SendFails
<1>8. ASSUME NEW c \in Clients, NEW w \in Urls \cup {Garbage}, Connect(c, w) PROVE FileOfEntry'
  <2>1. ppc = "miss" => job.c # c /\ job.c \in Clients
    BY <1>8 DEF Connect, Waiting, ProxyTypeOK
  <2>2. SameUrls /\ UNCHANGED <<files, ppc, job>> /\ ppc # "exited"
    BY <1>8 DEF Connect, Outside, SameUrls, store
  <2>3. want' = [want EXCEPT ![c] = w]
    BY <1>8 DEF Connect
  <2> QED
    BY <1>4, <2>1, <2>2, <2>3 DEF ProxyTypeOK
<1>9. CASE OriginAnswers
  <2>1. job'.c = job.c /\ ppc' = ppc /\ ppc # "exited" /\ SameUrls /\ UNCHANGED <<files, want>>
    BY <1>9 DEF OriginAnswers, ProxyTypeOK, SameUrls, store
  <2> QED
    BY <1>4, <2>1
<1>10. CASE Tick \/ \E u \in Changing : Publish(u)
  BY <1>5, <1>10 DEF Tick, Publish, Outside, store
<1>11. CASE Select \/ AcceptFails \/ StaleBit \/ \E c \in Clients : Accept(c)
  BY <1>3, <1>5, <1>11 DEF Select, AcceptFails, StaleBit, Accept, Accepting, store
<1>12. CASE NoFile \/ UNCHANGED pvars
  BY <1>3, <1>5, <1>12 DEF NoFile, pvars, store
<1> QED
  BY <1>1, <1>7, <1>8, <1>9, <1>10, <1>11, <1>12 DEF ProxyNext

(* What is answered from a file: the page of the entry, or its namesake.   *)
LEMMA RightStep ==
  ASSUME ProxyTypeOK, Waiting, FileOfEntry, RightPage, [ProxyNext]_pvars
  PROVE  RightPage'
<1>1. ASSUME NEW f, NEW how, NEW c, Answered(c, how, f),
             how # "nothing" => f.url = want[c] \/ SharesName(want[c])
      PROVE  RightPage'
  BY <1>1 DEF Answered, RightPage, SharesName
<1>2. CASE answer' = Nobody
  BY <1>2 DEF RightPage
<1>3. ASSUME NEW i \in Entries, cache[i].url \in Urls, ppc \in {"scan", "check"}
      PROVE  files[FileOf[cache[i].url]].url = cache[i].url \/ SharesName(cache[i].url)
  BY <1>3, ProxyConstantsOK DEF FileOfEntry
<1>4. ASSUME NEW c \in Clients, Hit(c) PROVE RightPage'
  <2>1. PICK i \in Entries : cache[i].url = want[c] /\ Answered(c, "hit", files[FileOf[cache[i].url]])
    BY <1>4 DEF Hit, check_cache_entry
  <2>2. ppc = "scan" /\ want[c] \in Urls
    BY <1>4, ProxyConstantsOK DEF Hit, Reached, Reads, Waiting, ProxyTypeOK
  <2>3. files[FileOf[want[c]]].url = want[c] \/ SharesName(want[c])
    BY <1>3, <2>1, <2>2
  <2> QED
    BY <1>1, <2>1, <2>3
<1>5. ASSUME NEW how, NEW n, Answered(job.c, how, [url |-> want[job.c], ver |-> n]) PROVE RightPage'
  BY <1>1, <1>5
<1>6. CASE Store
  BY <1>5, <1>6 DEF Store
<1>7. CASE Revalidate
  <2>1. /\ ppc = "check" /\ job.cell \in Entries
        /\ cache[job.cell].url = want[job.c] /\ want[job.c] \in Urls
    BY <1>7 DEF Revalidate, Waiting, ProxyTypeOK
  <2>2. files[FileOf[want[job.c]]].url = want[job.c] \/ SharesName(want[job.c])
    BY <1>3, <2>1
  <2>3. \/ Answered(job.c, "renewed", [url |-> want[job.c], ver |-> job.resp.ver])
        \/ Answered(job.c, "unchanged", files[FileOf[want[job.c]]])
        \/ Answered(job.c, "nothing", Nobody)
    BY <1>7, <2>1 DEF Revalidate
  <2>4. CASE Answered(job.c, "nothing", Nobody)
    BY <2>4 DEF Answered, RightPage
  <2> QED
    BY <1>1, <1>5, <2>2, <2>3, <2>4
<1>8. CASE \E c \in Clients : Accept(c) \/ Serve(c)
  BY <1>2, <1>4, <1>8
  DEF Accept, Accepting, Serve, BadRequest, OriginUnreachable, SendFails, Exit, Miss, Expired
<1>9. CASE Tick \/ (\E u \in Changing : Publish(u)) \/ \E c \in Clients, w \in Urls \cup {Garbage} : Connect(c, w)
  BY <1>2, <1>9 DEF Tick, Publish, Connect, Outside
<1>10. CASE Select \/ AcceptFails \/ StaleBit \/ OriginAnswers \/ NoFile
  BY <1>2, <1>10 DEF Select, AcceptFails, StaleBit, Accepting, Exit, OriginAnswers, NoFile
<1>11. CASE UNCHANGED pvars
  BY <1>11 DEF pvars, RightPage, SharesName
<1> QED
  BY <1>6, <1>7, <1>8, <1>9, <1>10, <1>11 DEF ProxyNext

ProxyInv == ProxyTypeOK /\ Waiting /\ OneEntryPerPage /\ FileOfEntry /\ RightPage

LEMMA ProxyInvariant == ProxySpec => []ProxyInv
<1>1. ProxyInit => ProxyInv
  <2> SUFFICES ASSUME ProxyInit PROVE ProxyInv
    OBVIOUS
  <2>1. \A i \in Entries : cache[i].url = Nobody
    BY DEF ProxyInit, EmptyTable
  <2>2. OneEntryPerPage /\ FileOfEntry
    BY <2>1 DEF OneEntryPerPage, FileOfEntry
  <2> QED
    BY <2>2, TypeInit DEF ProxyInv, ProxyInit, Waiting, RightPage
<1>2. ProxyInv /\ [ProxyNext]_pvars => ProxyInv'
  BY TypeStep, WaitingStep, OneEntryStep, FileStep, RightStep DEF ProxyInv
<1> QED
  BY <1>1, <1>2, PTL DEF ProxySpec

(* A page has one entry, for any number of clients, pages and entries.     *)
THEOREM ProxyOneEntry == ProxySpec => []OneEntryPerPage
<1>1. ProxyInv => OneEntryPerPage
  BY DEF ProxyInv
<1> QED
  BY <1>1, ProxyInvariant, PTL

(* The file of an entry is there, whatever else has its name, is evicted,  *)
(* renewed or fails: nothing but a fetch of that name removes it.          *)
THEOREM ProxyFilesThere == ProxySpec => []FileOfEntry
<1>1. ProxyInv => FileOfEntry
  BY DEF ProxyInv
<1> QED
  BY <1>1, ProxyInvariant, PTL

(* So what is served from a file is the page that was asked for, or one of *)
(* the same name.                                                          *)
THEOREM ProxyRightPage == ProxySpec => []RightPage
<1>1. ProxyInv => RightPage
  BY DEF ProxyInv
<1> QED
  BY <1>1, ProxyInvariant, PTL
-----------------------------------------------------------------------------
(* The copies and their stamps.                                            *)

(* What the proxy stamps its entries with, and which of them have a stamp: *)
(* all but the one that is just being fetched.                             *)
ClockDates == {Date(Clock[k]) : k \in 1 .. Len(Clock)}

InUse(i) == cache[i].url # Nobody /\ ~ (ppc = "miss" /\ job.cell = i)

Stamped == \A i \in Entries : InUse(i) => cache[i].last \in ClockDates

(* The entry the search starts from is not an empty one, unless all are.   *)
Started == \A i \in Entries : cache[i].url # Nobody => cache[oldest].url # Nobody

(* The file of page u holds a copy of it, and not an error of the origin.  *)
Holds(u) == files[FileOf[u]] # Nobody /\ files[FileOf[u]].url = u /\ files[FileOf[u]].ver # 0

(* An entry has the stamp of its last use, and its copy differs from the   *)
(* page only if the page has changed since it was asked for.               *)
CopyOK(i) ==
  /\ fetched[i].at <= fetched[i].use /\ fetched[i].use <= now
  /\ cache[i].last = Date(Clock[fetched[i].use])
  /\ Holds(cache[i].url) =>
       \/ files[FileOf[cache[i].url]].ver = page[cache[i].url]
       \/ mtime[cache[i].url] >= fetched[i].at

CopiesOK == \A i \in Entries : InUse(i) => CopyOK(i)

(* The page that was sent has changed only since it was asked for; and one *)
(* that was not modified has not changed since its stamp, so that the copy *)
(* is of the same version, unless it changed after it was asked for.       *)
Sent == job.resp # Nobody /\ job.resp.status = 200
Unmodified == job.resp # Nobody /\ job.resp.status = 304

ReplyOK ==
  ppc \in {"miss", "check"} =>
    /\ job.t <= now
    /\ Sent => job.resp.ver = page[want[job.c]] \/ mtime[want[job.c]] >= job.t
    /\ Unmodified => ppc = "check"
    /\ Unmodified => NotAfter(Date(Clock[job.resp.mod]), cache[job.cell].last)
    /\ Unmodified /\ Holds(want[job.c]) =>
         \/ files[FileOf[want[job.c]]].ver = job.resp.ver
         \/ job.resp.mod >= fetched[job.cell].at

StoreOK == Stamped /\ Started /\ CopiesOK /\ ReplyOK

(* Stamps are ordered as the clock is.                                     *)
LEMMA StampOrder ==
  ASSUME NEW i \in 1 .. Len(Clock), NEW j \in 1 .. Len(Clock)
  PROVE  NotAfter(Date(Clock[i]), Date(Clock[j])) <=> i <= j
<1>0. i \in Nat /\ j \in Nat /\ Clock[i] \in Calendar /\ Clock[j] \in Calendar
  BY MomentsOK, ClockInCalendar
<1>1. CASE i = j
  <2>1. iTime_Comparison_Func(Date(Clock[i]), Date(Clock[j])) = 0
    BY <1>0, <1>1, DatesCompared
  <2> QED
    BY <1>0, <1>1, <2>1 DEF NotAfter
<1>2. CASE i < j
  <2>1. Sooner(Clock[i], Clock[j])
    BY <1>0, <1>2, ClockRuns, SoonerIsLess
  <2>2. iTime_Comparison_Func(Date(Clock[i]), Date(Clock[j])) \in {-1, 0}
    BY <1>0, <2>1, DatesCompared
  <2> QED
    BY <1>0, <1>2, <2>2 DEF NotAfter
<1>3. CASE j < i
  BY <1>0, <1>3, StampsOrdered
<1> QED
  BY <1>0, <1>1, <1>2, <1>3

(* The search of Victim: there is such a function ...                      *)
Choice(n, o) == IF NotAfter(cache[n].last, cache[o].last) THEN n ELSE o

Search(g) == [n \in 0 .. Cells |-> IF n = 0 THEN oldest ELSE Choice(n, g[n - 1])]

LEMMA SearchExists ==
  \E g : g = Search(g)
<1> DEFINE Body(g, n) == IF n = 0 THEN oldest ELSE Choice(n, g[n - 1])
           Upto(k) == \E g : \A n \in 0 .. k : g[n] = Body(g, n)
           Bad == {k \in 0 .. Cells : ~ Upto(k)}
<1>0. Cells \in Nat
  BY ProxyConstantsOK
<1>1. Upto(0)
  <2>1. [n \in 0 .. 0 |-> oldest][0] = oldest
    OBVIOUS
  <2>2. \A n \in 0 .. 0 : n = 0
    OBVIOUS
  <2> QED
    BY <2>1, <2>2
<1>2. ASSUME NEW k \in 1 .. Cells, Upto(k - 1) PROVE Upto(k)
  <2>1. PICK g : \A n \in 0 .. k - 1 : g[n] = Body(g, n)
    BY <1>2, Zenon
  <2> DEFINE h == [n \in 0 .. k |-> IF n = k THEN Body(g, k) ELSE g[n]]
  <2>2. \A n \in 0 .. k : h[n] = IF n = k THEN Body(g, k) ELSE g[n]
    OBVIOUS
  <2> HIDE DEF h
  <2>3. ASSUME NEW n \in 0 .. k PROVE h[n] = Body(h, n)
    <3>1. h[n] = Body(g, n)
      <4>1. n = k \/ n \in 0 .. k - 1
        OBVIOUS
      <4> HIDE DEF Body
      <4> QED
        BY <2>1, <2>2, <4>1
    <3>2. ASSUME n # 0 PROVE h[n - 1] = g[n - 1]
      <4>1. n - 1 \in 0 .. k /\ n - 1 # k
        BY <3>2
      <4> QED
        BY <2>2, <4>1
    <3> QED
      BY <3>1, <3>2
  <2> HIDE DEF Body
  <2> QED
    BY <2>3
<1>3. Bad = {}
  <2> SUFFICES ASSUME Bad # {} PROVE FALSE
    OBVIOUS
  <2> HIDE DEF Upto
  <2>1. Bad \subseteq Nat
    BY <1>0
  <2>2. PICK k \in Bad : \A j \in Bad : k <= j
    <3> HIDE DEF Bad
    <3> QED
      BY <2>1, LeastOf
  <2>3. k \in 1 .. Cells /\ k - 1 \in 0 .. Cells /\ k - 1 \notin Bad
    BY <1>0, <1>1, <2>2
  <2>4. Upto(k - 1)
    BY <2>3
  <2> QED
    BY <1>2, <2>2, <2>3, <2>4
<1>4. Upto(Cells)
  <2> HIDE DEF Upto
  <2> QED
    BY <1>0, <1>3
<1>5. PICK g : \A n \in 0 .. Cells : g[n] = Body(g, n)
  BY <1>4, Zenon
<1> DEFINE h == [n \in 0 .. Cells |-> g[n]]
<1>6. h = [n \in 0 .. Cells |-> Body(g, n)]
  <2> HIDE DEF Body
  <2> QED
    BY <1>5
<1>7. \A n \in 0 .. Cells : Body(g, n) = Body(h, n)
  <2> SUFFICES ASSUME NEW n \in 0 .. Cells, n # 0 PROVE g[n - 1] = h[n - 1]
    OBVIOUS
  <2>1. n - 1 \in 0 .. Cells
    BY <1>0
  <2> QED
    BY <2>1
<1>8. h = [n \in 0 .. Cells |-> Body(h, n)]
  <2> HIDE DEF Body
  <2> QED
    BY <1>6, <1>7
<1> QED
  BY <1>8, Zenon DEF Search

(* ... and it finds an entry with the least stamp.                         *)
LEMMA SearchFinds ==
  ASSUME NEW N \in Nat, NEW start \in 1 .. N, NEW t \in [1 .. N -> Nat],
         \A k, o \in 1 .. N : Choice(k, o) = IF t[k] <= t[o] THEN k ELSE o,
         NEW g, \A n \in 0 .. N : g[n] = IF n = 0 THEN start ELSE Choice(n, g[n - 1])
  PROVE  g[N] \in 1 .. N /\ \A j \in 1 .. N : t[g[N]] <= t[j]
<1> DEFINE Right(k) == g[k] \in 1 .. N /\ \A j \in 1 .. k : t[g[k]] <= t[j]
           Bad == {k \in 0 .. N : ~ Right(k)}
<1>1. Right(0)
  OBVIOUS
<1>2. ASSUME NEW k \in 1 .. N, Right(k - 1) PROVE Right(k)
  <2> DEFINE o == g[k - 1]
  <2>1. o \in 1 .. N /\ \A j \in 1 .. k - 1 : t[o] <= t[j]
    BY <1>2
  <2>2. g[k] = Choice(k, o)
    OBVIOUS
  <2> HIDE DEF o
  <2>3. g[k] = IF t[k] <= t[o] THEN k ELSE o
    BY <2>1, <2>2
  <2>4. t[k] \in Nat /\ t[o] \in Nat
    BY <2>1
  <2>5. g[k] \in 1 .. N /\ t[g[k]] <= t[k] /\ t[g[k]] <= t[o]
    BY <2>1, <2>3, <2>4
  <2>6. ASSUME NEW j \in 1 .. k PROVE t[g[k]] <= t[j]
    <3>1. CASE j = k
      BY <2>5, <3>1
    <3>2. CASE j # k
      <4>1. t[o] <= t[j]
        BY <2>1, <3>2
      <4>2. t[j] \in Nat /\ t[g[k]] \in Nat
        BY <2>5
      <4>3. \A a, b, c \in Nat : a <= b /\ b <= c => a <= c
        OBVIOUS
      <4> QED
        BY <2>4, <2>5, <4>1, <4>2, <4>3, Zenon
    <3> QED
      BY <3>1, <3>2
  <2> QED
    BY <2>5, <2>6
<1>3. Bad = {}
  <2> SUFFICES ASSUME Bad # {} PROVE FALSE
    OBVIOUS
  <2> HIDE DEF Right
  <2>1. Bad \subseteq Nat
    OBVIOUS
  <2>2. PICK k \in Bad : \A j \in Bad : k <= j
    <3> HIDE DEF Bad
    <3> QED
      BY <2>1, LeastOf
  <2>3. k \in 1 .. N /\ k - 1 \in 0 .. N /\ k - 1 \notin Bad
    BY <1>1, <2>2
  <2>4. Right(k - 1)
    BY <2>3
  <2> QED
    BY <1>2, <2>2, <2>3, <2>4
<1>4. Right(N)
  <2> HIDE DEF Right
  <2>1. \A k \in 0 .. N : Right(k)
    BY <1>3
  <2>2. N \in 0 .. N
    OBVIOUS
  <2> QED
    BY <2>1, <2>2, Zenon
<1> QED
  BY <1>4

(* An entry is evicted only from a full table, and one with the least stamp.*)
LEMMA VictimLeast ==
  ASSUME ProxyTypeOK, cache[Victim].url # Nobody, Victim \in Entries,
         \A i \in Entries : cache[i].url # Nobody => cache[i].last \in ClockDates
  PROVE  \A j \in Entries : cache[j].url # Nobody /\ NotAfter(cache[Victim].last, cache[j].last)
<1> DEFINE least == CHOOSE g : g = Search(g)
           t == [i \in Entries |-> CHOOSE k \in 1 .. Len(Clock) : cache[i].last = Date(Clock[k])]
<1>1. Victim = IF \E i \in Entries : cache[i].url = Nobody THEN FirstEmpty ELSE least[Cells]
  BY DEF Victim, Choice, Search
<1>2. \A i \in Entries : cache[i].url # Nobody
  <2> SUFFICES ASSUME \E i \in Entries : cache[i].url = Nobody PROVE FALSE
    OBVIOUS
  <2> DEFINE Empty == {i \in Entries : cache[i].url = Nobody}
  <2>1. Empty # {} /\ Empty \subseteq Nat
    BY DEF Entries
  <2>2. PICK i \in Empty : \A j \in Empty : i <= j
    <3> HIDE DEF Empty
    <3> QED
      BY <2>1, LeastOf
  <2>3. \A j \in 1 .. i - 1 : j \in Entries /\ j \notin Empty
    BY <2>2, ProxyConstantsOK DEF Entries
  <2>4. i \in Entries /\ cache[i].url = Nobody /\ \A j \in 1 .. i - 1 : cache[j].url # Nobody
    BY <2>2, <2>3
  <2>5. cache[FirstEmpty].url = Nobody
    BY <2>4, Zenon DEF FirstEmpty
  <2> QED
    BY <1>1, <2>5
<1>3. Victim = least[Cells]
  BY <1>1, <1>2
<1>4. Cells \in Nat /\ Entries = 1 .. Cells /\ oldest \in 1 .. Cells
  BY ProxyConstantsOK DEF Entries, ProxyTypeOK
<1>5. \A n \in 0 .. Cells : least[n] = IF n = 0 THEN oldest ELSE Choice(n, least[n - 1])
  <2>1. least = Search(least)
    BY SearchExists
  <2> HIDE DEF least
  <2> DEFINE Body(n) == IF n = 0 THEN oldest ELSE Choice(n, least[n - 1])
             h == [n \in 0 .. Cells |-> Body(n)]
  <2>2. least = h
    BY <2>1 DEF Search
  <2> HIDE DEF Body
  <2>3. \A n \in 0 .. Cells : h[n] = Body(n)
    OBVIOUS
  <2>4. \A n \in 0 .. Cells : least[n] = Body(n)
    BY <2>2, <2>3, Zenon
  <2> QED
    BY <2>4 DEF Body
<1>6. \A i \in Entries : t[i] \in 1 .. Len(Clock) /\ cache[i].last = Date(Clock[t[i]])
  <2> SUFFICES ASSUME NEW i \in Entries PROVE t[i] \in 1 .. Len(Clock) /\ cache[i].last = Date(Clock[t[i]])
    OBVIOUS
  <2>1. \E k \in 1 .. Len(Clock) : cache[i].last = Date(Clock[k])
    BY <1>2 DEF ClockDates
  <2>2. t[i] = CHOOSE k \in 1 .. Len(Clock) : cache[i].last = Date(Clock[k])
    OBVIOUS
  <2> HIDE DEF t
  <2> QED
    BY <2>1, <2>2
<1>7. t \in [1 .. Cells -> Nat]
  <2>1. \A i \in Entries : t[i] \in Nat
    BY <1>6
  <2> QED
    BY <1>4, <2>1
<1> HIDE DEF t, least
<1>8. \A k, o \in Entries : NotAfter(cache[k].last, cache[o].last) <=> t[k] <= t[o]
  BY <1>6, StampOrder
<1>9. \A k, o \in 1 .. Cells : Choice(k, o) = IF t[k] <= t[o] THEN k ELSE o
  BY <1>4, <1>8 DEF Choice
<1>10. \A j \in 1 .. Cells : t[least[Cells]] <= t[j]
  BY <1>4, <1>5, <1>7, <1>9, SearchFinds
<1> QED
  BY <1>2, <1>3, <1>4, <1>8, <1>10

-----------------------------------------------------------------------------
(* These are kept.                                                         *)

LEMMA TableKept ==
  ASSUME ProxyTypeOK, ProxyTypeOK', StoreOK, now <= now',
         UNCHANGED <<page, mtime, oldest, cache, files, fetched>>,
         \A i \in Entries : InUse(i)' => InUse(i)
  PROVE  Stamped' /\ Started' /\ CopiesOK'
<1>1. Stamped' /\ Started'
  BY DEF StoreOK, Stamped, Started
<1>2. ASSUME NEW i \in Entries, InUse(i)' PROVE CopyOK(i)'
  <2>1. CopyOK(i)
    BY <1>2 DEF StoreOK, CopiesOK
  <2>2. now \in Int /\ now' \in Int /\ fetched[i].use \in Int
    BY DEF ProxyTypeOK
  <2>3. fetched[i].use <= now'
    BY <2>1, <2>2 DEF CopyOK
  <2> QED
    BY <2>1, <2>3 DEF CopyOK, Holds
<1> QED
  BY <1>1, <1>2 DEF CopiesOK

LEMMA ReplyKept ==
  ASSUME ProxyTypeOK, ProxyTypeOK', StoreOK, now <= now',
         UNCHANGED <<ppc, job, page, mtime, cache, files, fetched>>,
         ppc \in {"miss", "check"} => want'[job.c] = want[job.c]
  PROVE  ReplyOK'
<1> SUFFICES ASSUME ppc \in {"miss", "check"} PROVE ReplyOK'
  BY DEF ReplyOK
<1>1. now \in Int /\ now' \in Int /\ job.t \in Int
  BY DEF ProxyTypeOK
<1>2. job.t <= now'
  BY <1>1 DEF StoreOK, ReplyOK
<1> QED
  BY <1>2 DEF StoreOK, ReplyOK, Sent, Unmodified, Holds

LEMMA OutsideKept ==
  ASSUME ProxyTypeOK, ProxyTypeOK', Waiting, StoreOK,
         \/ Tick
         \/ \E u \in Urls : Publish(u)
         \/ \E c \in Clients, w \in Urls \cup {Garbage} : Connect(c, w)
  PROVE  StoreOK'
<1>0. UNCHANGED <<ppc, job, oldest, cache, files, fetched>>
  BY DEF Tick, Publish, Connect, Outside, store
<1>1. \A i \in Entries : InUse(i)' <=> InUse(i)
  BY <1>0 DEF InUse
<1>2. CASE Tick
  <2>1. now <= now' /\ UNCHANGED <<page, mtime, want>>
    BY <1>2 DEF Tick, Outside, ProxyTypeOK
  <2> QED
    BY <1>0, <1>1, <2>1, TableKept, ReplyKept DEF StoreOK
<1>3. ASSUME NEW c \in Clients, NEW w \in Urls \cup {Garbage}, Connect(c, w) PROVE StoreOK'
  <2>1. /\ now <= now' /\ UNCHANGED <<page, mtime>>
        /\ want' = [want EXCEPT ![c] = w] /\ stage[c] = "away"
    BY <1>3 DEF Connect, Outside, world, ProxyTypeOK
  <2>2. ppc \in {"miss", "check"} => want'[job.c] = want[job.c]
    BY <2>1 DEF Waiting, ProxyTypeOK
  <2> QED
    BY <1>0, <1>1, <2>1, <2>2, TableKept, ReplyKept DEF StoreOK
<1>4. ASSUME NEW u \in Urls, Publish(u) PROVE StoreOK'
  <2>1. /\ page' = [page EXCEPT ![u] = @ + 1] /\ mtime' = [mtime EXCEPT ![u] = now]
        /\ UNCHANGED <<now, want>>
    BY <1>4 DEF Publish, Outside
  <2>2. Stamped' /\ Started'
    BY <1>0, <1>1 DEF StoreOK, Stamped, Started
  <2>3. \A w \in Urls : mtime'[w] = now \/ (page'[w] = page[w] /\ mtime'[w] = mtime[w])
    BY <2>1 DEF ProxyTypeOK
  <2>4. ASSUME NEW i \in Entries, InUse(i)' PROVE CopyOK(i)'
    <3>1. CopyOK(i) /\ cache[i].url \in Urls
      BY <1>1, <2>4 DEF StoreOK, CopiesOK, InUse, ProxyTypeOK
    <3>2. fetched[i].at <= now /\ now \in Int /\ fetched[i].at \in Int
      <4>1. now \in Int /\ fetched[i].at \in Int /\ fetched[i].use \in Int
        BY DEF ProxyTypeOK
      <4> QED
        BY <3>1, <4>1 DEF CopyOK
    <3>3. Holds(cache[i].url)' <=> Holds(cache[i].url)
      BY <1>0 DEF Holds
    <3> QED
      BY <1>0, <2>1, <2>3, <3>1, <3>2, <3>3 DEF CopyOK
  <2>5. ReplyOK'
    <3> SUFFICES ASSUME ppc \in {"miss", "check"} PROVE ReplyOK'
      BY <1>0 DEF ReplyOK
    <3>1. want[job.c] \in Urls /\ job.t <= now /\ now \in Int /\ job.t \in Int
      BY DEF Waiting, StoreOK, ReplyOK, ProxyTypeOK
    <3>2. Sent => job.resp.ver = page'[want[job.c]] \/ mtime'[want[job.c]] >= job.t
      BY <2>3, <3>1 DEF StoreOK, ReplyOK
    <3>3. Holds(want[job.c])' <=> Holds(want[job.c])
      BY <1>0, <2>1 DEF Holds
    <3> QED
      BY <1>0, <2>1, <3>1, <3>2, <3>3 DEF StoreOK, ReplyOK, Sent, Unmodified
  <2> QED
    BY <2>2, <2>4, <2>5 DEF StoreOK, CopiesOK
<1> QED
  BY <1>2, <1>3, <1>4

LEMMA ExitKept == ASSUME Exit PROVE StoreOK'
<1>1. ppc' = "exited" /\ \A i \in Entries : cache'[i].url = Nobody
  BY DEF Exit, EmptyTable
<1> QED
  BY <1>1 DEF StoreOK, Stamped, Started, CopiesOK, InUse, ReplyOK

(* What is asked for.                                                      *)
LEMMA MissKept ==
  ASSUME ProxyTypeOK, StoreOK, NEW c \in Clients, Miss(c), want[c] # Nobody
  PROVE  StoreOK'
<1>1. PICK v \in Entries :
        /\ oldest' = v
        /\ job' = [c |-> c, t |-> now, cell |-> v, resp |-> Nobody]
        /\ cache' = [cache EXCEPT ![v] = [url |-> want[c], last |-> Nobody, expiry |-> Nobody]]
        /\ files' = [files EXCEPT ![FileOf[want[c]]] = Nobody]
  BY DEF Miss, RemovedFile
<1>2. /\ ppc = "scan" /\ ppc' = "miss"
      /\ UNCHANGED <<now, page, mtime, fetched>>
  BY DEF Miss, Reached, Reads, world
<1>3. cache'[v].url = want[c] /\ \A i \in Entries \ {v} : cache'[i] = cache[i]
  BY <1>1 DEF ProxyTypeOK
<1>4. \A i \in Entries : InUse(i)' => i # v /\ InUse(i) /\ cache'[i] = cache[i]
  BY <1>1, <1>2, <1>3 DEF InUse
<1>5. Stamped' /\ Started'
  BY <1>1, <1>3, <1>4 DEF StoreOK, Stamped, Started
<1>6. ASSUME NEW i \in Entries, InUse(i)' PROVE CopyOK(i)'
  <2>1. CopyOK(i) /\ cache'[i] = cache[i] /\ cache[i].url \in Urls
    BY <1>4, <1>6 DEF StoreOK, CopiesOK, InUse, ProxyTypeOK
  <2>2. files'[FileOf[cache[i].url]] \in {Nobody, files[FileOf[cache[i].url]]}
    BY <1>1, <2>1 DEF ProxyTypeOK
  <2> QED
    BY <1>2, <2>1, <2>2 DEF CopyOK, Holds
<1>7. ReplyOK'
  <2>1. job'.t = now /\ job'.resp = Nobody /\ now <= now
    BY <1>1 DEF ProxyTypeOK
  <2> QED
    BY <1>2, <2>1 DEF ReplyOK, Sent, Unmodified
<1> QED
  BY <1>5, <1>6, <1>7 DEF StoreOK, CopiesOK

LEMMA ExpiredKept ==
  ASSUME ProxyTypeOK, ProxyTypeOK', StoreOK, NEW c \in Clients, Expired(c)
  PROVE  StoreOK'
<1>1. /\ ppc = "scan" /\ ppc' = "check" /\ job'.t = now /\ job'.resp = Nobody
      /\ UNCHANGED <<now, page, mtime, oldest, cache, files, fetched>>
  BY DEF Expired, Reached, Reads, world, store
<1>2. now <= now' /\ \A i \in Entries : InUse(i)' => InUse(i)
  BY <1>1 DEF InUse, ProxyTypeOK
<1>3. ReplyOK'
  BY <1>1, <1>2 DEF ReplyOK, Sent, Unmodified
<1> QED
  BY <1>1, <1>2, <1>3, TableKept DEF StoreOK

LEMMA HitKept ==
  ASSUME ProxyTypeOK, StoreOK, NEW c \in Clients, Hit(c)
  PROVE  StoreOK'
<1>1. PICK i \in Entries :
        /\ cache' = [cache EXCEPT ![i].last = Date(Clock[now])]
        /\ fetched' = [fetched EXCEPT ![i].use = now]
  BY DEF Hit, check_cache_entry, UseStamp
<1>2. ppc = "scan" /\ UNCHANGED <<now, page, mtime, ppc, oldest, files>>
  BY DEF Hit, Reached, Reads, world
<1>3. /\ \A j \in Entries : cache'[j].url = cache[j].url
      /\ \A j \in Entries : fetched'[j].at = fetched[j].at
      /\ \A j \in Entries \ {i} : cache'[j] = cache[j] /\ fetched'[j] = fetched[j]
      /\ cache'[i].last = Date(Clock[now]) /\ fetched'[i].use = now
  BY <1>1 DEF ProxyTypeOK
<1>4. Date(Clock[now]) \in ClockDates
  BY Bounds DEF ClockDates, ProxyTypeOK
<1>5. \A j \in Entries : InUse(j)' => InUse(j)
  BY <1>2, <1>3 DEF InUse
<1>6. Stamped' /\ Started'
  BY <1>2, <1>3, <1>4, <1>5 DEF StoreOK, Stamped, Started, ProxyTypeOK
<1>7. ASSUME NEW j \in Entries, InUse(j)' PROVE CopyOK(j)'
  <2>1. CopyOK(j)
    BY <1>5, <1>7 DEF StoreOK, CopiesOK
  <2>2. Holds(cache[j].url)' <=> Holds(cache[j].url)
    BY <1>2, <1>3 DEF Holds
  <2>3. fetched[j].at <= now
    <3>1. now \in Int /\ fetched[j].at \in Int /\ fetched[j].use \in Int
      BY DEF ProxyTypeOK
    <3> QED
      BY <2>1, <3>1 DEF CopyOK
  <2>4. now <= now
    BY DEF ProxyTypeOK
  <2> QED
    BY <1>2, <1>3, <2>1, <2>2, <2>3, <2>4 DEF CopyOK
<1>8. ReplyOK'
  BY <1>2 DEF ReplyOK
<1> QED
  BY <1>6, <1>7, <1>8 DEF StoreOK, CopiesOK

(* The origin answers with the page as it is.                              *)
LEMMA OriginKept ==
  ASSUME ProxyTypeOK, ProxyTypeOK', Waiting, StoreOK, OriginAnswers
  PROVE  StoreOK'
<1> DEFINE u == want[job.c]
           unmodified == ppc = "check" /\ NotAfter(Date(Clock[mtime[u]]), cache[job.cell].last)
           status == IF page[u] = 0 THEN 404 ELSE IF unmodified THEN 304 ELSE 200
<1>1. PICK life \in Lifetimes[u], s \in {status, 500} :
        job' = [job EXCEPT !.resp = [status |-> s, ver |-> page[u], mod |-> mtime[u], life |-> life]]
  BY DEF OriginAnswers
<1>2. /\ ppc \in {"miss", "check"}
      /\ UNCHANGED <<now, want, ppc, page, mtime, oldest, cache, files, fetched>>
  BY DEF OriginAnswers, world, store
<1>3. /\ job'.c = job.c /\ job'.t = job.t /\ job'.cell = job.cell
      /\ job'.resp.status = s /\ job'.resp.ver = page[u] /\ job'.resp.mod = mtime[u]
      /\ job.cell \in Entries
  BY <1>1, <1>2 DEF ProxyTypeOK
<1>4. now <= now' /\ \A i \in Entries : InUse(i)' => InUse(i)
  BY <1>2, <1>3 DEF InUse, ProxyTypeOK
<1>5. s = 304 => unmodified
  <2> HIDE DEF unmodified
  <2>1. status \in {200, 304, 404} /\ (status = 304 => unmodified)
    OBVIOUS
  <2>2. s = status \/ s = 500
    OBVIOUS
  <2> QED
    BY <2>1, <2>2
<1>6. ASSUME ppc = "check", Holds(u)
      PROVE  files[FileOf[u]].ver = page[u] \/ mtime[u] >= fetched[job.cell].at
  <2>1. cache[job.cell].url = u /\ u \in Urls
    BY <1>2 DEF Waiting
  <2>2. CopyOK(job.cell)
    BY <1>3, <1>6, <2>1, ProxyConstantsOK DEF StoreOK, CopiesOK, InUse
  <2> QED
    BY <1>6, <2>1, <2>2 DEF CopyOK
<1>7. ReplyOK'
  <2>1. want'[job'.c] = u /\ (Holds(want[job.c])' <=> Holds(u)) /\ job'.t <= now'
    BY <1>2, <1>3 DEF Holds, StoreOK, ReplyOK
  <2>2. Sent' => job'.resp.ver = page'[u]
    BY <1>2, <1>3
  <2>3. Unmodified' => unmodified
    BY <1>3, <1>5 DEF Unmodified
  <2> HIDE DEF u
  <2> QED
    BY <1>2, <1>3, <1>6, <2>1, <2>2, <2>3 DEF ReplyOK
<1> QED
  BY <1>2, <1>4, <1>7, TableKept DEF StoreOK

(* What has come is stored: the file and the copy it now holds.            *)
LEMMA StoredKept ==
  ASSUME ProxyTypeOK, ProxyTypeOK', Waiting, OneEntryPerPage, StoreOK,
         ppc \in {"miss", "check"}, ppc' = "scan", job.resp # Nobody,
         UNCHANGED <<now, page, mtime, oldest>>, SameUrls,
         \A i \in Entries \ {job.cell} : cache'[i] = cache[i],
         cache'[job.cell].last = Stamp,
         fetched' = [fetched EXCEPT ![job.cell] = [at |-> job.t, use |-> job.t]],
         NEW n, n = 0 \/ (Sent /\ n = job.resp.ver),
         files' = [files EXCEPT ![FileOf[want[job.c]]] = [url |-> want[job.c], ver |-> n]]
  PROVE  StoreOK'
<1>0. PICK u \in Urls : u = want[job.c]
  BY DEF Waiting
<1>1. /\ job.cell \in Entries /\ cache[job.cell].url = u
      /\ \A i \in Entries : cache'[i].url = cache[i].url
  BY <1>0 DEF ProxyTypeOK, Waiting, SameUrls
<1>2. /\ fetched'[job.cell] = [at |-> job.t, use |-> job.t]
      /\ \A i \in Entries \ {job.cell} : fetched'[i] = fetched[i]
  BY <1>1 DEF ProxyTypeOK
<1>3. /\ files'[FileOf[u]] = [url |-> u, ver |-> n]
      /\ \A w \in Urls : FileOf[w] # FileOf[u] => files'[FileOf[w]] = files[FileOf[w]]
  BY <1>0 DEF ProxyTypeOK
<1>4. \A i \in Entries \ {job.cell} : InUse(i)' => InUse(i) /\ cache[i].url # u
  BY <1>1, ProxyConstantsOK DEF InUse, OneEntryPerPage
<1>5. Stamp \in ClockDates
  BY Bounds DEF Stamp, ClockDates, ProxyTypeOK
<1>6. Stamped' /\ Started'
  BY <1>1, <1>4, <1>5 DEF StoreOK, Stamped, Started, ProxyTypeOK
<1>7. ASSUME NEW i \in Entries, i = job.cell PROVE CopyOK(i)'
  <2>1. job.t <= now /\ job.t <= job.t /\ (Sent => job.resp.ver = page[u] \/ mtime[u] >= job.t)
    BY <1>0 DEF StoreOK, ReplyOK, ProxyTypeOK
  <2>2. cache'[i].url = u /\ cache'[i].last = Stamp /\ files'[FileOf[u]].ver = n
    BY <1>1, <1>3, <1>7
  <2>3. Holds(u)' => n # 0
    BY <2>2 DEF Holds
  <2>4. fetched'[i].at = job.t /\ fetched'[i].use = job.t
    BY <1>2, <1>7
  <2> QED
    BY <2>1, <2>2, <2>3, <2>4 DEF CopyOK, Stamp
<1>8. ASSUME NEW i \in Entries \ {job.cell}, InUse(i)' PROVE CopyOK(i)'
  <2>1. /\ CopyOK(i) /\ cache[i].url # u /\ cache[i].url \in Urls
        /\ cache'[i] = cache[i] /\ fetched'[i] = fetched[i]
    BY <1>2, <1>4, <1>8 DEF StoreOK, CopiesOK, InUse, ProxyTypeOK
  <2>2. Holds(cache[i].url)' => FileOf[cache[i].url] # FileOf[u]
    BY <1>3, <2>1 DEF Holds
  <2>3. FileOf[cache[i].url] # FileOf[u] => files'[FileOf[cache[i].url]] = files[FileOf[cache[i].url]]
    BY <1>3, <2>1
  <2>4. Holds(cache[i].url)' => Holds(cache[i].url) /\ files'[FileOf[cache[i].url]] = files[FileOf[cache[i].url]]
    BY <2>1, <2>2, <2>3 DEF Holds
  <2> QED
    BY <2>1, <2>4 DEF CopyOK
<1>9. CopiesOK' /\ ReplyOK'
  BY <1>7, <1>8 DEF CopiesOK, ReplyOK
<1> QED
  BY <1>6, <1>9 DEF StoreOK

LEMMA StoreKept ==
  ASSUME ProxyTypeOK, ProxyTypeOK', Waiting, OneEntryPerPage, StoreOK, Store
  PROVE  StoreOK'
<1> DEFINE n == IF job.resp.status = 200 THEN job.resp.ver ELSE 0
           expiry == Expiry(DefaultExpiry(Clock[job.t]))
<1>1. /\ ppc \in {"miss", "check"} /\ ppc' = "scan" /\ job.resp # Nobody
      /\ UNCHANGED <<now, page, mtime, oldest>>
      /\ files' = [files EXCEPT ![FileOf[want[job.c]]] = [url |-> want[job.c], ver |-> n]]
      /\ cache' = [cache EXCEPT ![job.cell].last = Stamp, ![job.cell].expiry = expiry]
      /\ fetched' = [fetched EXCEPT ![job.cell] = [at |-> job.t, use |-> job.t]]
  BY DEF Store, Finish, world
<1>2. SameUrls
  BY RestampKeepsUrls
<1>3. n = 0 \/ (Sent /\ n = job.resp.ver)
  BY <1>1 DEF Sent
<1> HIDE DEF n, expiry
<1>4. (\A i \in Entries \ {job.cell} : cache'[i] = cache[i]) /\ cache'[job.cell].last = Stamp
  BY <1>1 DEF ProxyTypeOK
<1> QED
  BY <1>1, <1>2, <1>3, <1>4, StoredKept

(* What was checked is renewed, or left as it was.                         *)
LEMMA RevalidateKept ==
  ASSUME ProxyTypeOK, ProxyTypeOK', Waiting, OneEntryPerPage, StoreOK, Revalidate
  PROVE  StoreOK'
<1> DEFINE expiry == Expiry(Date(Clock[job.t]))
           last == IF job.resp.status = 200 THEN Stamp ELSE cache[job.cell].last
<1>1. /\ ppc = "check" /\ ppc' = "scan" /\ job.resp # Nobody
      /\ UNCHANGED <<now, page, mtime, oldest>>
      /\ job.cell \in Entries /\ cache[job.cell].url = want[job.c]
  BY DEF Revalidate, Finish, world, Waiting, ProxyTypeOK
<1>2. cache' = [cache EXCEPT ![job.cell].expiry = expiry, ![job.cell].last = last]
  BY <1>1 DEF Revalidate, ProxyTypeOK
<1>3. SameUrls
  BY RestampKeepsUrls
<1>4. (\A i \in Entries \ {job.cell} : cache'[i] = cache[i]) /\ cache'[job.cell].last = last
  <2> HIDE DEF expiry, last
  <2> QED
    BY <1>1, <1>2 DEF ProxyTypeOK
<1>5. CASE job.resp.status = 200
  <2>1. /\ files' = [files EXCEPT ![FileOf[want[job.c]]] = [url |-> want[job.c], ver |-> job.resp.ver]]
        /\ fetched' = [fetched EXCEPT ![job.cell] = [at |-> job.t, use |-> job.t]]
    BY <1>1, <1>5 DEF Revalidate
  <2>2. Sent /\ cache'[job.cell].last = Stamp
    BY <1>1, <1>4, <1>5 DEF Sent
  <2> QED
    BY <1>1, <1>3, <1>4, <2>1, <2>2, StoredKept
<1>6. CASE job.resp.status # 200
  <2>1. UNCHANGED <<files, fetched>>
    BY <1>6 DEF Revalidate
  <2>2. \A i \in Entries : cache'[i].last = cache[i].last /\ cache'[i].url = cache[i].url
    BY <1>3, <1>4, <1>6 DEF SameUrls
  <2>3. \A i \in Entries : InUse(i)' => InUse(i)
    BY <1>1, <2>2 DEF InUse
  <2>4. Stamped' /\ Started' /\ ReplyOK'
    BY <1>1, <2>2, <2>3 DEF StoreOK, Stamped, Started, ReplyOK, ProxyTypeOK
  <2>5. \A i \in Entries : CopyOK(i) => CopyOK(i)'
    BY <1>1, <2>1, <2>2 DEF CopyOK, Holds
  <2> QED
    BY <2>3, <2>4, <2>5 DEF StoreOK, CopiesOK
<1> QED
  BY <1>5, <1>6

LEMMA StoreStep ==
  ASSUME ProxyTypeOK, ProxyTypeOK', Waiting, OneEntryPerPage, StoreOK, [ProxyNext]_pvars
  PROVE  StoreOK'
<1>1. CASE \/ Tick
           \/ \E u \in Changing : Publish(u)
           \/ \E c \in Clients, w \in Urls \cup {Garbage} : Connect(c, w)
  <2>1. Changing \subseteq Urls
    BY ProxyConstantsOK
  <2> QED
    BY <1>1, <2>1, OutsideKept
<1>2. ASSUME NEW c \in Clients, Serve(c) PROVE StoreOK'
  <2>1. CASE Miss(c)
    <3>1. want[c] # Nobody
      BY <2>1 DEF Miss, Reached, Reads, Waiting
    <3> QED
      BY <2>1, <3>1, MissKept
  <2>2. CASE BadRequest(c) \/ OriginUnreachable(c) \/ SendFails(c)
    BY <2>2, ExitKept DEF BadRequest, OriginUnreachable, SendFails
  <2> QED
    BY <1>2, <2>1, <2>2, HitKept, ExpiredKept DEF Serve
<1>3. CASE Exit
  BY <1>3, ExitKept
<1>4. ASSUME UNCHANGED <<world, ppc, job, oldest, store, want>> PROVE StoreOK'
  <2>1. now <= now' /\ \A i \in Entries : InUse(i)' => InUse(i)
    BY <1>4 DEF world, store, InUse, ProxyTypeOK
  <2> QED
    BY <1>4, <2>1, TableKept, ReplyKept DEF StoreOK, world, store
<1>5. CASE Select \/ AcceptFails \/ StaleBit \/ (\E c \in Clients : Accept(c)) \/ UNCHANGED pvars
  BY <1>3, <1>4, <1>5 DEF Select, AcceptFails, StaleBit, Accept, Accepting, pvars
<1> QED
  BY <1>1, <1>2, <1>3, <1>5, OriginKept, StoreKept, RevalidateKept DEF ProxyNext, NoFile

StoreInv == ProxyInv /\ StoreOK

LEMMA StoreInvariant == ProxySpec => []StoreInv
<1>1. ProxyInit => StoreOK
  <2> SUFFICES ASSUME ProxyInit PROVE StoreOK
    OBVIOUS
  <2>1. ppc = "scan" /\ \A i \in Entries : cache[i].url = Nobody
    BY DEF ProxyInit, EmptyTable
  <2> QED
    BY <2>1 DEF StoreOK, Stamped, Started, CopiesOK, InUse, ReplyOK
<1>2. ProxyInv /\ ProxyInv' /\ StoreOK /\ [ProxyNext]_pvars => StoreOK'
  BY StoreStep DEF ProxyInv
<1> QED
  BY <1>1, <1>2, ProxyInvariant, PTL DEF ProxySpec, StoreInv

(* What is evicted was not used later than anything that stays, whatever   *)
(* the search started from and however often pages were used, fetched and  *)
(* renewed within a minute: each entry's stamp is the date of its last use.*)
THEOREM ProxyEvictsOldest == ProxySpec => VictimIsOldest
<1> DEFINE Evicts == \A i, j \in Entries :
                       ppc' = "miss" /\ cache[i].url # Nobody /\ cache'[i].url # cache[i].url =>
                         /\ cache[j].url # Nobody
                         /\ fetched[i].use <= fetched[j].use
<1>1. StoreInv /\ [ProxyNext]_pvars => [Evicts]_pvars
  <2> SUFFICES ASSUME StoreInv, [ProxyNext]_pvars,
                      NEW i \in Entries, NEW j \in Entries,
                      ppc' = "miss", cache[i].url # Nobody, cache'[i].url # cache[i].url
               PROVE  cache[j].url # Nobody /\ fetched[i].use <= fetched[j].use
    OBVIOUS
  <2>1. ProxyTypeOK /\ Stamped /\ Started /\ CopiesOK
    BY DEF StoreInv, ProxyInv, StoreOK
  <2>2. PICK c \in Clients : Miss(c)
    BY <2>1, UrlsKept DEF SameUrls
  <2>3. /\ ppc = "scan" /\ Victim \in Entries
        /\ cache' = [cache EXCEPT ![Victim] = [url |-> want[c], last |-> Nobody, expiry |-> Nobody]]
    BY <2>2 DEF Miss, Reached, Reads
  <2>4. i = Victim
    BY <2>1, <2>3 DEF ProxyTypeOK
  <2>5. \A k \in Entries : cache[k].url # Nobody => cache[k].last \in ClockDates
    BY <2>1, <2>3 DEF Stamped, InUse
  <2>6. cache[j].url # Nobody /\ NotAfter(cache[i].last, cache[j].last)
    BY <2>1, <2>4, <2>5, VictimLeast
  <2>7. \A k \in {i, j} : /\ fetched[k].use \in 1 .. Len(Clock)
                           /\ cache[k].last = Date(Clock[fetched[k].use])
    BY <2>1, <2>3, <2>6, Bounds DEF CopiesOK, CopyOK, InUse, ProxyTypeOK
  <2> QED
    BY <2>6, <2>7, StampOrder
<1> QED
  BY <1>1, StoreInvariant, PTL DEF ProxySpec, VictimIsOldest

(* A copy of which the origin says that it is not modified is the page as  *)
(* the origin has it, however long the answers take - unless the entry was *)
(* used later than it was fetched, or the copy was not true.               *)
THEOREM ProxyStaleAfterUse == ProxySpec => StaleOnlyAfterUse
<1>1. StoreInv /\ StaleAnswer /\ TrueCopy => fetched[job.cell].at < fetched[job.cell].use
  <2> SUFFICES ASSUME StoreInv, StaleAnswer, TrueCopy,
                      ~ (fetched[job.cell].at < fetched[job.cell].use)
               PROVE  FALSE
    OBVIOUS
  <2> DEFINE u == want[job.c]
             at == fetched[job.cell].at
             mod == job.resp.mod
  <2>1. /\ ProxyTypeOK /\ Waiting /\ FileOfEntry /\ CopiesOK /\ ReplyOK
        /\ ppc = "check" /\ Unmodified
    BY DEF StoreInv, ProxyInv, StoreOK, StaleAnswer, Unmodified
  <2>2. job.cell \in Entries /\ cache[job.cell].url = u /\ u # Nobody
    BY <2>1, ProxyConstantsOK DEF ProxyTypeOK, Waiting
  <2>3. files[FileOf[u]] # Nobody
    BY <2>1, <2>2 DEF FileOfEntry
  <2>4. Holds(u) /\ files[FileOf[u]].ver # job.resp.ver
    BY <2>3 DEF Holds, StaleAnswer, TrueCopy
  <2>5. mod >= at /\ NotAfter(Date(Clock[mod]), cache[job.cell].last)
    BY <2>1, <2>4 DEF ReplyOK
  <2>6. cache[job.cell].last = Date(Clock[at])
    <3> DEFINE use == fetched[job.cell].use
    <3>1. at <= use /\ cache[job.cell].last = Date(Clock[use])
      BY <2>1, <2>2 DEF CopiesOK, InUse, CopyOK
    <3>2. at \in Int /\ use \in Int
      BY <2>1, <2>2 DEF ProxyTypeOK
    <3>3. at = use
      BY <3>1, <3>2
    <3> QED
      BY <3>1, <3>3
  <2>7. mod \in 1 .. Len(Clock) /\ at \in 1 .. Len(Clock)
    <3>1. job.resp \in Replies \ {Nobody} /\ at \in 1 .. Horizon
      BY <2>1, <2>2 DEF ProxyTypeOK, Unmodified
    <3> QED
      BY <3>1, Bounds DEF Replies
  <2>8. mod <= at
    BY <2>5, <2>6, <2>7, StampsOrdered
  <2>9. mod = at
    BY <2>5, <2>7, <2>8, MomentsOK
  <2> QED
    BY <2>9 DEF TrueCopy
<1>2. StoreInv => [StaleAnswer /\ TrueCopy => fetched[job.cell].at < fetched[job.cell].use]_pvars
  BY <1>1
<1> QED
  BY <1>2, StoreInvariant, PTL DEF StaleOnlyAfterUse
=============================================================================
