------------------------------- MODULE MCChat -------------------------------
(* Instances of Chat for TLC.                                              *)
EXTENDS Chat, TLC

CONSTANTS ann, bob, a, b, c

MCNames == {ann, bob}

(* Clients a and c ask for the same name.                                  *)
MCNameOf3 == (a :> ann) @@ (b :> bob) @@ (c :> ann)
MCNameOf2 == (a :> ann) @@ (b :> bob)

(* set1 holds nothing at the start, or the bit of the standard input.      *)
MCGarbage == {{}, {0}}
MCJunk == {[name |-> ann, fd |-> 0]}
MCTexts == 1 .. MaxSays
=============================================================================
