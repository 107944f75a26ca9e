------------------------------ MODULE HttpDate ------------------------------
(***************************************************************************)
(* The dates of the HTTP proxy (Programming_Assignment_4, helper.c): the   *)
(* proxy keeps them as strings and compares them field by field.  A date   *)
(* is a record of what its string says; a moment is what the clock shows,  *)
(* <<year, month, day, hour, minute, second>>.                             *)
(***************************************************************************)
EXTENDS Integers, Sequences

CONSTANTS
  Moments,  \* the moments the comparison is checked on
  Clock     \* the moments of a run, a minute apart

pcMonth ==
  << <<"J", "a", "n">>, <<"F", "e", "b">>, <<"M", "a", "r">>, <<"A", "p", "r">>,
     <<"M", "a", "y">>, <<"J", "u", "n">>, <<"J", "u", "l">>, <<"A", "u", "g">>,
     <<"S", "e", "p">>, <<"O", "c", "t">>, <<"N", "o", "v">>, <<"D", "e", "c">> >>

(* The string that sprintf makes of struct tm.                             *)
Date(m) == [year |-> m[1], month |-> pcMonth[m[2]], day |-> m[3],
            hour |-> m[4], minute |-> m[5], second |-> m[6]]

(* Mutant: May is told from March by its second letter.                    *)
SecondLetter(m) ==
  CASE m[1] = "J" -> IF m[2] = "a" THEN 1 ELSE IF m[3] = "n" THEN 6 ELSE 7
    [] m[1] = "F" -> 2
    [] m[1] = "M" -> IF m[2] = "a" THEN 3 ELSE 5
    [] m[1] = "A" -> IF m[3] = "r" THEN 4 ELSE 8
    [] m[1] = "S" -> 9
    [] m[1] = "O" -> 10
    [] m[1] = "N" -> 11
    [] m[1] = "D" -> 12

iMonthCoverter(m) ==
  CASE m[1] = "J" -> IF m[2] = "a" THEN 1 ELSE IF m[3] = "n" THEN 6 ELSE 7
    [] m[1] = "F" -> 2
    [] m[1] = "M" -> IF m[3] = "r" THEN 3 ELSE 5
    [] m[1] = "A" -> IF m[3] = "r" THEN 4 ELSE 8
    [] m[1] = "S" -> 9
    [] m[1] = "O" -> 10
    [] m[1] = "N" -> 11
    [] m[1] = "D" -> 12

(* The first field that differs decides.                                   *)
iTime_Comparison_Func(old, new) ==
  LET Fields(d) == <<d.year, iMonthCoverter(d.month), d.day, d.hour, d.minute, d.second>>
      differ    == {i \in 1 .. 6 : Fields(old)[i] # Fields(new)[i]}
      first     == CHOOSE i \in differ : \A j \in differ : i <= j
  IN  IF differ = {} THEN 0
      ELSE IF Fields(old)[first] < Fields(new)[first] THEN -1 ELSE 1

NotAfter(d, e) == iTime_Comparison_Func(d, e) <= 0

(* The expiry of a page without an Expires header: two minutes on, without *)
(* a carry into the hour.                                                  *)
DefaultExpiry(m) == [Date(m) EXCEPT !.minute = @ + 2]

(* The seconds since the year 2000, in months of 31 days, for reference.   *)
Ordinal(m) == (((((m[1] - 2000) * 12 + m[2]) * 31 + m[3]) * 24 + m[4]) * 60 + m[5]) * 60 + m[6]

Calendar == Int \X (1 .. 12) \X (1 .. 31) \X (0 .. 23) \X (0 .. 59) \X (0 .. 59)

(* A minute passes; how many days a month has is left open.                *)
NextMinute(m, n) ==
  IF m[5] < 59 THEN n = [m EXCEPT ![5] = @ + 1]
  ELSE n[4] = (m[4] + 1) % 24 /\ n[5] = 0 /\ n[6] = m[6] /\ Ordinal(m) < Ordinal(n)

(* Dates gmtime gives; the clock of a run goes on minute by minute.        *)
ASSUME MomentsOK ==
  /\ Moments \subseteq Calendar
  /\ Clock \in Seq(Calendar)
  /\ \A i \in 1 .. Len(Clock) - 1 : NextMinute(Clock[i], Clock[i + 1])

(* The comparison orders dates as time does, across the names of months    *)
(* and the ends of days, months and years.                                 *)
DateOrder ==
  \A m, n \in Moments :
    LET c == iTime_Comparison_Func(Date(m), Date(n))
    IN  /\ c < 0 <=> Ordinal(m) < Ordinal(n)
        /\ c = 0 <=> m = n

(* A page without an Expires header counts as fresh for two minutes at     *)
(* most, and for no less unless the hour ends before (minute 60 or 61 is   *)
(* earlier than any minute of the next hour).                              *)
TwoMinutes ==
  \A i, j \in 1 .. Len(Clock) :
    i <= j =>
      LET fresh == iTime_Comparison_Func(DefaultExpiry(Clock[i]), Date(Clock[j])) >= 0
      IN  /\ fresh => j <= i + 2
          /\ j <= i + 2 /\ Clock[i][4] = Clock[j][4] => fresh
=============================================================================
