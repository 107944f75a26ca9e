------------------------------ MODULE MCProxy ------------------------------
(* Values of the constants of Proxy for TLC.                               *)
EXTENDS Proxy, TLC

CONSTANTS c1, c2, p, q, r, root, x, y

MCUrls == {p, q, r, root}

(* p and q have the same last component; root has none.                    *)
MCFileOf == p :> x @@ q :> x @@ r :> y @@ root :> NoName

(* Both clients may ask for p and for r, one of them for anything else.    *)
MCAsks == c1 :> {p, q, r, root} @@ c2 :> {p, r, Garbage}

MCLifetimes == p :> {None, 1} @@ q :> {Junk} @@ r :> {None} @@ root :> {None}

(* The minutes around the end of a year.                                   *)
MCClock == << <<2017, 12, 31, 23, 58, 7>>, <<2017, 12, 31, 23, 59, 7>>,
              <<2018, 1, 1, 0, 0, 7>>, <<2018, 1, 1, 0, 1, 7>>, <<2018, 1, 1, 0, 2, 7>>,
              <<2018, 1, 1, 0, 3, 7>> >>

MCMoments == {2017, 2018} \X (1 .. 12) \X {1, 31} \X {0, 23} \X {59} \X {0, 59}
=============================================================================
