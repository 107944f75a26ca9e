---------------------------- MODULE MCEchoServer ----------------------------
(* Values of the constants of EchoServer for TLC.                          *)
EXTENDS EchoServer, TLC

CONSTANTS c1, c2

MCClients == {c1, c2}
MCKids == MCClients \cup {NoConn}

(* A line that fills the buffer and the newline it leaves behind; an empty *)
(* line and a last one that the end of the input cuts.                     *)
MCInputs == c1 :> <<FALSE, FALSE, TRUE>> @@ c2 :> <<TRUE, FALSE>>
=============================================================================
