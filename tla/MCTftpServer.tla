---------------------------- MODULE MCTftpServer ----------------------------
(* Values of the constants of TftpServer for TLC.                          *)
EXTENDS TftpServer, TLC

CONSTANTS f, g

MCNames == {f, g}

(* f is there, g is not.  f is read over a temporary file and replaced by  *)
(* a shorter file; g is written, and read; a write of f is refused for its *)
(* mode.                                                                   *)
MCRequests ==
  { [op |-> "RRQ", file |-> f, mode |-> "netascii", size |-> 0],
    [op |-> "WRQ", file |-> f, mode |-> "octet", size |-> 1],
    [op |-> "WRQ", file |-> g, mode |-> "netascii", size |-> 1],
    [op |-> "RRQ", file |-> g, mode |-> "octet", size |-> 0],
    [op |-> "WRQ", file |-> f, mode |-> "bad", size |-> 1] }

MCOldSize == f :> 2 @@ g :> None

MCSymmetry == Permutations(Kids)
=============================================================================
