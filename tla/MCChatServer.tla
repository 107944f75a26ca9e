---------------------------- MODULE MCChatServer ----------------------------
(* Instances of ChatServer for TLC.                                        *)
EXTENDS ChatServer

CONSTANTS ann, bob, cy, dan, hello

MCNames == {ann, bob, cy, dan}
MCTexts == {hello}

(* One standard descriptor (0), the listener (1), descriptors up to 5: one *)
(* more than MaxClient = 3 users need, so that accept can find one while   *)
(* the table is full.                                                      *)
MCGarbage == SUBSET (0 .. 5)

(* A fresh cell looks like the first user, or like the standard input.     *)
MCJunk == {[name |-> ann, fd |-> 2], [name |-> ann, fd |-> 0]}
=============================================================================
