----------------------------- MODULE TftpServer -----------------------------
(***************************************************************************)
(* The TFTP server (Programming_Assignment_3) around its transfer loops: a *)
(* process forked for each request datagram, and the files that these      *)
(* processes share.  Of a transfer, which TftpRead and TftpWrite model, is *)
(* left what FileTransfer promises: its blocks, in order and once, or a    *)
(* failure.  A block is its number and the process that wrote it; netascii *)
(* changes no block here, but takes the way over a temporary file.  Any    *)
(* write to a file may fail; a read of an open file does not.              *)
(***************************************************************************)
EXTENDS Children, Sequences

CONSTANTS
  Names,     \* of files
  Requests,  \* what clients may ask for: see Asks
  Arrivals,  \* bound: datagrams
  OldSize,   \* the blocks of each file at first; None: there is no file
  None,      \* no file, no request, no name
  Hole,      \* a block of zeros, where a file was written past its end
  Horizon    \* bound: seconds

Ops   == {"RRQ", "WRQ", "other"}              \* other: too short, or another opcode
Modes == {"octet", "netascii", "bad", "cut"}  \* cut: no mode, or no end of it

ASSUME TftpConstantsOK ==
  /\ Requests \subseteq [op : Ops, file : Names, mode : Modes, size : Nat]
  /\ OldSize \in [Names -> Nat \cup {None}]
  /\ None \notin Nat /\ None \notin Requests /\ None \notin Kids /\ None \notin Names
  /\ Names \cap Kids = {}   \* src tells a file from a temporary one
  /\ Arrivals \in Nat /\ Horizon \in Nat \ {0}

VARIABLES
  now,                  \* time(0)
  arrived,              \* history: datagrams that have come, for the bound
  job, kpc,             \* the children: their request and where they are
  data,                 \* the files: their blocks, or None
  temp, tname, tdata,   \* names of temporary files and who made the file; the name each child uses; contents
  src, pos, got,        \* the file a child reads, its place in it, what it has sent
  full,                 \* history: children some of whose writes failed
  last,                 \* history: who opened a file for writing last
  met                   \* history: the children alive at the same time as a child

temps == <<temp, tname, tdata>>
reads == <<src, pos, got>>
tsvars == <<now, arrived, job, kpc, data, temps, reads, full, last, met, kvars>>

Seconds == 1 .. Horizon

TftpInit ==
  /\ now = 1
  /\ arrived = 0
  /\ job = [k \in Kids |-> None]
  /\ kpc = [k \in Kids |-> "none"]   \* "open", "temp", "fill", "reopen", "send", "write", "done", "failed"
  /\ data = [f \in Names |->
               IF OldSize[f] = None THEN None ELSE [i \in 1 .. OldSize[f] |-> [by |-> None, n |-> i]]]
  /\ temp = [s \in Seconds |-> None]
  /\ tname = [k \in Kids |-> None]
  /\ tdata = [k \in Kids |-> <<>>]
  /\ src = [k \in Kids |-> None]
  /\ pos = [k \in Kids |-> 0]
  /\ got = [k \in Kids |-> <<>>]
  /\ full = {}
  /\ last = [f \in Names |-> None]
  /\ met = [k \in Kids |-> {}]
  /\ ChildrenInit /\ installed = TRUE

File(k)    == job[k].file
Moves(k, pc) == kpc' = [kpc EXCEPT ![k] = pc]

(* A write of one block at a place, which may lie past the end.            *)
Written(s, p, b) ==
  [i \in 1 .. (IF p > Len(s) THEN p ELSE Len(s)) |-> IF i = p THEN b ELSE IF i <= Len(s) THEN s[i] ELSE Hole]

-----------------------------------------------------------------------------
(* The main loop, which stands still while the handler runs.               *)

Tick == now < Horizon /\ now' = now + 1
        /\ UNCHANGED <<arrived, job, kpc, data, temps, reads, full, last, met, kvars>>

(* Any request, the same one again too.                                    *)
Datagram ==
  /\ ~ handling
  /\ arrived < Arrivals
  /\ arrived' = arrived + 1
  /\ UNCHANGED <<now, data, temps, reads, full, last>>

(* A child for every datagram, also for one that comes again.              *)
Receive(r, k) ==
  /\ Datagram
  /\ r.op # "other"
  /\ Born(k)
  /\ job' = [job EXCEPT ![k] = r]
  /\ Moves(k, "open")
  /\ met' = [j \in Kids |-> IF j = k THEN Alive ELSE IF j \in Alive THEN met[j] \cup {k} ELSE met[j]]

(* An error is sent back; or fork fails, which nobody looks at.            *)
Ignore == Datagram /\ UNCHANGED <<job, kpc, met, kvars>>

HandlerRuns ==
  Handler /\ UNCHANGED <<now, arrived, job, kpc, data, temps, reads, full, last, met>>

-----------------------------------------------------------------------------
(* A child: handle_message.                                                *)

At(k, pc) == kid[k] = "alive" /\ kpc[k] = pc /\ UNCHANGED <<now, arrived, job, met>>

Exits(k, how) == Moves(k, how) /\ Ends(k)

(* Mutant: the file is opened without being cut.                           *)
KeepsOld(f) == data' = [data EXCEPT ![f] = IF @ = None THEN <<>> ELSE @]

(* fopen for writing.                                                      *)
OpenForWriting(f) == data' = [data EXCEPT ![f] = <<>>]

(* No end of the name, no mode, or fopen fails.                            *)
OpenRefused(k) ==
  /\ At(k, "open")
  /\ Exits(k, "failed")
  /\ UNCHANGED <<data, temps, reads, full, last>>

(* The file is opened, and so cut, before the mode is looked at.           *)
Open(k) ==
  /\ At(k, "open") /\ job[k].mode # "cut"
  /\ \/ /\ job[k].op = "RRQ" /\ data[File(k)] # None
        /\ UNCHANGED <<data, last>>
     \/ /\ job[k].op = "WRQ"
        /\ OpenForWriting(File(k))
        /\ last' = [last EXCEPT ![File(k)] = k]
  /\ IF job[k].mode = "bad" THEN Exits(k, "failed") /\ UNCHANGED src
     ELSE /\ Moves(k, IF job[k].op = "WRQ" THEN "write"
                      ELSE IF job[k].mode = "netascii" THEN "temp" ELSE "send")
          /\ src' = [src EXCEPT ![k] = File(k)]
          /\ UNCHANGED kvars
  /\ UNCHANGED <<temps, pos, got, full>>

(* create_temp_file: the name is drawn from a generator seeded with the    *)
(* second, so that it is the second.                                       *)
TempOpen(k) ==
  /\ At(k, "temp")
  /\ tname' = [tname EXCEPT ![k] = now]
  /\ IF temp[now] = None
     THEN temp' = [temp EXCEPT ![now] = k] /\ src' = [src EXCEPT ![k] = k] /\ UNCHANGED tdata
     ELSE /\ tdata' = [tdata EXCEPT ![temp[now]] = <<>>]
          /\ src' = [src EXCEPT ![k] = temp[now]] /\ UNCHANGED temp
  /\ Moves(k, "fill")
  /\ UNCHANGED <<data, pos, got, full, last, kvars>>

(* A block of the file is converted; at the end the copy is closed.  What  *)
(* fputc and fclose return is not looked at, and ferror is only reported,  *)
(* so that a copy cut by a full disk is sent like a whole one.             *)
TempFill(k) ==
  /\ At(k, "fill")
  /\ LET p == pos[k] + 1
     IN  IF p <= Len(data[File(k)])
         THEN /\ \/ /\ k \notin full
                    /\ tdata' = [tdata EXCEPT ![src[k]] = Written(@, p, data[File(k)][p])]
                    /\ UNCHANGED full
                 \/ full' = full \cup {k} /\ UNCHANGED tdata
              /\ pos' = [pos EXCEPT ![k] = p]
              /\ UNCHANGED kpc
         ELSE Moves(k, "reopen") /\ UNCHANGED <<tdata, pos, full>>
  /\ UNCHANGED <<data, temp, tname, src, got, last, kvars>>

(* Mutant: the file is not read from its beginning.                        *)
PastFirst == 1

Beginning == 0

(* The name is opened again; if the file was removed meanwhile, the first  *)
(* read is from NULL.                                                      *)
TempReopen(k) ==
  /\ At(k, "reopen")
  /\ IF temp[tname[k]] = None THEN Exits(k, "failed") /\ UNCHANGED <<src, pos>>
     ELSE /\ Moves(k, "send")
          /\ src' = [src EXCEPT ![k] = temp[tname[k]]]
          /\ pos' = [pos EXCEPT ![k] = Beginning]
          /\ UNCHANGED kvars
  /\ UNCHANGED <<data, temps, got, full, last>>

Source(k) == IF src[k] \in Names THEN data[src[k]] ELSE tdata[src[k]]

SendBlock(k) ==
  /\ At(k, "send") /\ pos[k] < Len(Source(k))
  /\ pos' = [pos EXCEPT ![k] = @ + 1]
  /\ got' = [got EXCEPT ![k] = Append(@, Source(k)[pos[k] + 1])]
  /\ UNCHANGED <<kpc, data, temps, src, full, last, kvars>>

(* Mutant: the temporary file is left.                                     *)
LeaveTemp(k) == UNCHANGED temp

(* remove, whatever file now has the name.  In octet mode the name is what *)
(* the stack of a new process holds: that of no file.                      *)
RemoveTemp(k) == temp' = IF tname[k] = None THEN temp ELSE [temp EXCEPT ![tname[k]] = None]

Done(k) ==
  /\ \/ At(k, "send") /\ pos[k] >= Len(Source(k))
     \/ At(k, "write") /\ pos[k] = job[k].size
  /\ RemoveTemp(k)
  /\ Exits(k, "done")
  /\ UNCHANGED <<data, tname, tdata, reads, full, last>>

(* fwrite: a failure goes unnoticed, and so do those after it.             *)
WriteBlock(k) ==
  /\ At(k, "write") /\ pos[k] < job[k].size
  /\ pos' = [pos EXCEPT ![k] = @ + 1]
  /\ \/ /\ k \notin full
        /\ data' = [data EXCEPT ![File(k)] = Written(@, pos[k] + 1, [by |-> k, n |-> pos[k] + 1])]
        /\ UNCHANGED full
     \/ full' = full \cup {k} /\ UNCHANGED data
  /\ UNCHANGED <<kpc, temps, src, got, last, kvars>>

(* The transfer fails: exit(-1), which leaves the temporary file; or there *)
(* could be none, and the process ends in fputc.                           *)
Fail(k) ==
  /\ At(k, "send") \/ At(k, "write") \/ At(k, "temp")
  /\ Exits(k, "failed")
  /\ UNCHANGED <<data, temps, reads, full, last>>

Child(k) ==
  \/ OpenRefused(k) \/ Open(k)
  \/ TempOpen(k) \/ TempFill(k) \/ TempReopen(k)
  \/ SendBlock(k) \/ WriteBlock(k) \/ Done(k) \/ Fail(k)

TftpNext ==
  \/ Tick
  \/ Ignore \/ \E r \in Requests, k \in Kids : Receive(r, k)
  \/ HandlerRuns
  \/ \E k \in Kids : Child(k)

TftpSpec == TftpInit /\ [][TftpNext]_tsvars

-----------------------------------------------------------------------------
(* Correctness.                                                            *)

Writes(k, f) == job[k] # None /\ job[k].op = "WRQ" /\ File(k) = f

(* What a child that wrote f last, or nobody, means it to hold.            *)
Meant(f) ==
  LET k == last[f]
      size == IF k = None THEN OldSize[f] ELSE job[k].size
  IN  [i \in 1 .. size |-> [by |-> k, n |-> i]]

(* A file is what its last writer was sent, all of it and nothing of an    *)
(* older file, unless that writer is still at work, failed or was refused, *)
(* met a full disk, or met another writer of the file - the child of a     *)
(* second client, or of the repeated datagram of the same one.             *)
FileIsLastWrite ==
  \A f \in Names :
    LET k == last[f]
    IN  \/ data[f] = None /\ k = None
        \/ data[f] = Meant(f)
        \/ k # None /\ (kpc[k] \in {"write", "failed"} \/ k \in full \/ \E j \in met[k] : Writes(j, f))

(* Two children that disturb each other: one writes what the other reads,  *)
(* or both convert in the same second.                                     *)
Disturbs(j, k) ==
  \/ Writes(j, File(k)) /\ kpc[j] # "open"
  \/ tname[j] = tname[k] /\ tname[k] # None

(* A read that is done has sent the file as it is, over a temporary file   *)
(* or not, unless another child disturbed it or its own copy met a full    *)
(* disk.                                                                   *)
GetWhole ==
  [][\A k \in Kids :
       /\ kpc[k] = "send" /\ kpc'[k] = "done"
       /\ k \notin full
       /\ ~ (\E j \in met[k] : Disturbs(j, k))
       => got[k] = data[File(k)]]_tsvars

(* A temporary file outlives its children only when one of them failed.    *)
NoTempLeft ==
  \A s \in Seconds :
    temp[s] # None => \E k \in Kids : tname[k] = s /\ kpc[k] # "done"
=============================================================================
