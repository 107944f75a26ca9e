-------------------------- MODULE TftpServerProofs --------------------------
(***************************************************************************)
(* Theorems about TftpServer, for any files, requests and processes.       *)
(***************************************************************************)
EXTENDS TftpServer, ChildrenProofs

(* The processes of TftpServer are children as Children has them.          *)
THEOREM TftpImplementsChildren == TftpSpec => ChildrenSpec
<1>1. TftpInit => ChildrenInit
  BY DEF TftpInit
<1>2. [TftpNext]_tsvars => [ChildrenNext]_kvars
  <2> SUFFICES ASSUME [TftpNext]_tsvars PROVE [ChildrenNext]_kvars
    OBVIOUS
  <2>1. CASE Tick \/ Ignore
    BY <2>1 DEF Tick, Ignore
  <2>2. ASSUME NEW r \in Requests, NEW k \in Kids, Receive(r, k) PROVE Born(k)
    BY <2>2 DEF Receive
  <2>3. CASE HandlerRuns
    BY <2>3 DEF HandlerRuns, ChildrenNext
  <2>4. ASSUME NEW k \in Kids, Child(k) PROVE Ends(k) \/ UNCHANGED kvars
    BY <2>4 DEF Child, OpenRefused, Open, TempOpen, TempFill, TempReopen, SendBlock, WriteBlock,
                Done, Fail, Exits
  <2>5. CASE UNCHANGED tsvars
    BY <2>5 DEF tsvars
  <2> QED
    BY <2>1, <2>2, <2>3, <2>4, <2>5 DEF TftpNext, ChildrenNext
<1> QED
  BY <1>1, <1>2, PTL DEF TftpSpec, ChildrenSpec

(* The zombies of the TFTP server are counted by the signals that were     *)
(* merged: the handler neither loses one otherwise nor waits for a child   *)
(* that still transfers.                                                   *)
THEOREM TftpZombies ==
  ASSUME IsFiniteSet(Kids)
  PROVE  TftpSpec => [](ZombiesAccounted /\ HandlerNeverBlocks)
  BY TftpImplementsChildren, ZombiesCounted, HandlerFindsZombie, PTL

-----------------------------------------------------------------------------
(* The temporary files.                                                    *)

(* Who has not yet drawn a name has none.                                  *)
TempsOK ==
  /\ now \in Seconds
  /\ DOMAIN temp = Seconds /\ DOMAIN tname = Kids /\ DOMAIN kpc = Kids
  /\ \A k \in Kids : tname[k] \in Seconds \cup {None}
  /\ \A k \in Kids : kid[k] = "unborn" => kpc[k] = "none"
  /\ \A k \in Kids : kpc[k] \in {"none", "open", "temp"} => tname[k] = None

LEMMA TempsCorrect == TftpSpec => [](TempsOK /\ NoTempLeft)
<1>1. TftpInit => TempsOK /\ NoTempLeft
  BY TftpConstantsOK DEF TftpInit, ChildrenInit, TempsOK, NoTempLeft, Seconds
<1>2. ChildrenTypeOK /\ TempsOK /\ NoTempLeft /\ [TftpNext]_tsvars => TempsOK' /\ NoTempLeft'
  <2> SUFFICES ASSUME ChildrenTypeOK, TempsOK, NoTempLeft, [TftpNext]_tsvars
               PROVE  TempsOK' /\ NoTempLeft'
    OBVIOUS
  <2>0. None \notin Seconds /\ None \notin Kids
    BY TftpConstantsOK DEF Seconds
  <2> USE <2>0 DEF TempsOK, NoTempLeft, ChildrenTypeOK, Moves, At, Exits, Ends, temps, reads, kvars
  <2>1. CASE Tick
    BY <2>1, TftpConstantsOK DEF Tick, Seconds
  <2>2. CASE Ignore \/ UNCHANGED tsvars
    BY <2>2 DEF Ignore, Datagram, tsvars
  <2>3. ASSUME NEW r \in Requests, NEW k \in Kids, Receive(r, k) PROVE TempsOK' /\ NoTempLeft'
    BY <2>3 DEF Receive, Datagram, Born
  <2>4. CASE HandlerRuns
    BY <2>4 DEF HandlerRuns, Handler, HandlerStarts, HandlerWaits, Zombies
  <2>5. ASSUME NEW k \in Kids, OpenRefused(k) \/ Fail(k) PROVE TempsOK' /\ NoTempLeft'
    BY <2>5 DEF OpenRefused, Fail
  <2>6. ASSUME NEW k \in Kids, Open(k) PROVE TempsOK' /\ NoTempLeft'
    BY <2>6 DEF Open
  <2>7. ASSUME NEW k \in Kids, TempOpen(k) PROVE TempsOK' /\ NoTempLeft'
    BY <2>7 DEF TempOpen
  <2>8. ASSUME NEW k \in Kids, TempFill(k) \/ TempReopen(k) PROVE TempsOK' /\ NoTempLeft'
    BY <2>8 DEF TempFill, TempReopen
  <2>9. ASSUME NEW k \in Kids, SendBlock(k) \/ WriteBlock(k) PROVE TempsOK' /\ NoTempLeft'
    BY <2>9 DEF SendBlock, WriteBlock
  <2>10. ASSUME NEW k \in Kids, Done(k) PROVE TempsOK' /\ NoTempLeft'
    BY <2>10 DEF Done, RemoveTemp
  <2> QED
    BY <2>1, <2>2, <2>3, <2>4, <2>5, <2>6, <2>7, <2>8, <2>9, <2>10 DEF TftpNext, Child
<1> QED
  BY <1>1, <1>2, TftpImplementsChildren, ChildrenType, PTL DEF TftpSpec

(* A temporary file is left only by a child that fails.                    *)
THEOREM TempsRemoved == TftpSpec => []NoTempLeft
  BY TempsCorrect, PTL

-----------------------------------------------------------------------------
(* The files.                                                              *)

JobsOK ==
  /\ DOMAIN job = Kids /\ DOMAIN kpc = Kids /\ DOMAIN met = Kids
  /\ DOMAIN data = Names /\ DOMAIN last = Names
  /\ pos \in [Kids -> Nat] /\ \A k \in Kids : met[k] \subseteq Kids
  /\ \A k \in Kids : kid[k] = "unborn" => kpc[k] = "none" /\ job[k] = None
  /\ \A k \in Kids : kid[k] # "unborn" => job[k] \in Requests
  /\ \A k \in Kids : kpc[k] \in {"none", "open"} => pos[k] = 0
  /\ \A k \in Kids : kpc[k] = "write" => kid[k] = "alive" /\ job[k].op = "WRQ"

(* Two children that live have met.                                        *)
AliveHaveMet ==
  \A j, k \in Kids : j # k /\ kid[j] = "alive" /\ kid[k] = "alive" => j \in met[k]

MetWriter(k, f) == \E j \in met[k] : Writes(j, f)

(* The last to open a file is a writer of it; any other that still writes  *)
(* it met that one.                                                        *)
LastOK ==
  /\ \A f \in Names : last[f] # None =>
       /\ last[f] \in Kids /\ Writes(last[f], f)
       /\ kpc[last[f]] \in {"write", "failed", "done"}
  /\ \A k \in Kids : kpc[k] = "write" =>
       /\ last[File(k)] # None
       /\ last[File(k)] = k \/ k \in met[last[File(k)]]

(* What a writer that is alone with its file has written so far.           *)
SoFar(k, f) ==
  LET size == IF kpc[k] = "write" THEN pos[k] ELSE job[k].size
  IN  data[f] = [i \in 1 .. size |-> [by |-> k, n |-> i]]

FileOK(f) ==
  IF last[f] = None
  THEN data[f] = IF OldSize[f] = None THEN None
                 ELSE [i \in 1 .. OldSize[f] |-> [by |-> None, n |-> i]]
  ELSE \/ kpc[last[f]] = "failed" \/ last[f] \in full \/ MetWriter(last[f], f)
       \/ SoFar(last[f], f)

FilesOK == \A f \in Names : FileOK(f)

(* A block is written behind those that are there.                         *)
LEMMA NextBlock ==
  ASSUME NEW k, NEW p \in Nat
  PROVE  Written([i \in 1 .. p |-> [by |-> k, n |-> i]], p + 1, [by |-> k, n |-> p + 1])
           = [i \in 1 .. p + 1 |-> [by |-> k, n |-> i]]
<1> DEFINE s == [i \in 1 .. p |-> [by |-> k, n |-> i]]
<1>1. Len(s) = p
  OBVIOUS
<1>2. (IF p + 1 > Len(s) THEN p + 1 ELSE Len(s)) = p + 1
  BY <1>1
<1>3. \A i \in 1 .. p + 1 :
        (IF i = p + 1 THEN [by |-> k, n |-> p + 1] ELSE IF i <= Len(s) THEN s[i] ELSE Hole)
          = [by |-> k, n |-> i]
  BY <1>1
<1> QED
  BY <1>2, <1>3, Zenon DEF Written

LEMMA JobsCorrect == TftpSpec => []JobsOK
<1>1. TftpInit => JobsOK
  BY TftpConstantsOK DEF TftpInit, ChildrenInit, JobsOK
<1>2. ChildrenTypeOK /\ JobsOK /\ [TftpNext]_tsvars => JobsOK'
  <2> SUFFICES ASSUME ChildrenTypeOK, JobsOK, [TftpNext]_tsvars PROVE JobsOK'
    OBVIOUS
  <2> USE DEF JobsOK, ChildrenTypeOK, Moves, At, Exits, Ends, temps, reads, kvars
  <2>1. CASE Tick \/ Ignore \/ UNCHANGED tsvars
    BY <2>1 DEF Tick, Ignore, Datagram, tsvars
  <2>3. ASSUME NEW r \in Requests, NEW k \in Kids, Receive(r, k) PROVE JobsOK'
    BY <2>3 DEF Receive, Datagram, Born, Alive
  <2>4. CASE HandlerRuns
    BY <2>4 DEF HandlerRuns, Handler, HandlerStarts, HandlerWaits, Zombies
  <2>5. ASSUME NEW k \in Kids, OpenRefused(k) \/ Fail(k) PROVE JobsOK'
    BY <2>5 DEF OpenRefused, Fail
  <2>6. ASSUME NEW k \in Kids, Open(k) PROVE JobsOK'
    BY <2>6 DEF Open, OpenForWriting
  <2>7. ASSUME NEW k \in Kids, TempOpen(k) PROVE JobsOK'
    BY <2>7 DEF TempOpen
  <2>8. ASSUME NEW k \in Kids, TempFill(k) \/ TempReopen(k) PROVE JobsOK'
    BY <2>8 DEF TempFill, TempReopen, Beginning
  <2>9. ASSUME NEW k \in Kids, SendBlock(k) \/ WriteBlock(k) PROVE JobsOK'
    BY <2>9 DEF SendBlock, WriteBlock
  <2>10. ASSUME NEW k \in Kids, Done(k) PROVE JobsOK'
    BY <2>10 DEF Done
  <2> QED
    BY <2>1, <2>3, <2>4, <2>5, <2>6, <2>7, <2>8, <2>9, <2>10 DEF TftpNext, Child
<1> QED
  BY <1>1, <1>2, TftpImplementsChildren, ChildrenType, PTL DEF TftpSpec

LEMMA Acquainted == TftpSpec => []AliveHaveMet
<1>1. TftpInit => AliveHaveMet
  BY DEF TftpInit, ChildrenInit, AliveHaveMet
<1>2. ChildrenTypeOK /\ JobsOK /\ AliveHaveMet /\ [TftpNext]_tsvars => AliveHaveMet'
  <2> SUFFICES ASSUME ChildrenTypeOK, JobsOK, AliveHaveMet, [TftpNext]_tsvars PROVE AliveHaveMet'
    OBVIOUS
  <2> USE DEF AliveHaveMet, ChildrenTypeOK, kvars
  <2>1. CASE Tick \/ Ignore \/ UNCHANGED tsvars
    BY <2>1 DEF Tick, Ignore, Datagram, tsvars
  <2>3. ASSUME NEW r \in Requests, NEW k \in Kids, Receive(r, k) PROVE AliveHaveMet'
    BY <2>3 DEF Receive, Born, Alive
  <2>4. CASE HandlerRuns
    BY <2>4 DEF HandlerRuns, Handler, HandlerStarts, HandlerWaits, Zombies
  <2>5. ASSUME NEW k \in Kids, Child(k) PROVE AliveHaveMet'
    <3>1. met' = met /\ (kid' = kid \/ kid' = [kid EXCEPT ![k] = "zombie"])
      BY <2>5 DEF Child, At, Exits, Ends, OpenRefused, Open, TempOpen, TempFill, TempReopen,
                  SendBlock, WriteBlock, Done, Fail
    <3> QED
      BY <3>1
  <2> QED
    BY <2>1, <2>3, <2>4, <2>5 DEF TftpNext
<1> QED
  BY <1>1, <1>2, JobsCorrect, TftpImplementsChildren, ChildrenType, PTL DEF TftpSpec

LEMMA LastCorrect == TftpSpec => []LastOK
<1>1. TftpInit => LastOK
  BY DEF TftpInit, LastOK
<1>2. /\ ChildrenTypeOK /\ JobsOK /\ AliveHaveMet /\ LastOK /\ [TftpNext]_tsvars
      => LastOK'
  <2> SUFFICES ASSUME ChildrenTypeOK, JobsOK, AliveHaveMet, LastOK, [TftpNext]_tsvars
               PROVE  LastOK'
    OBVIOUS
  <2> USE TftpConstantsOK DEF LastOK, JobsOK, Writes, File, Moves, At, Exits, temps, reads
  <2>1. CASE Tick \/ Ignore \/ HandlerRuns \/ UNCHANGED tsvars
    BY <2>1 DEF Tick, Ignore, Datagram, HandlerRuns, tsvars
  <2>2. ASSUME NEW r \in Requests, NEW k \in Kids, Receive(r, k) PROVE LastOK'
    <3>1. /\ kpc[k] = "none" /\ kpc' = [kpc EXCEPT ![k] = "open"]
          /\ job' = [job EXCEPT ![k] = r] /\ job[k] = None /\ UNCHANGED last
      BY <2>2 DEF Receive, Born, Datagram
    <3>2. \A j \in Kids : met[j] \subseteq met'[j] \/ j = k
      BY <2>2 DEF Receive
    <3> QED
      BY <3>1, <3>2
  <2>3. ASSUME NEW k \in Kids, Open(k) PROVE LastOK'
    <3>1. kpc[k] = "open" /\ kid[k] = "alive" /\ UNCHANGED <<job, met>>
      BY <2>3 DEF Open
    <3>2. CASE job[k].op = "WRQ"
      <4>1. /\ last' = [last EXCEPT ![File(k)] = k] /\ File(k) \in Names
            /\ kpc' = [kpc EXCEPT ![k] = "failed"] \/ kpc' = [kpc EXCEPT ![k] = "write"]
        BY <2>3, <3>2 DEF Open
      <4>2. \A j \in Kids : kpc[j] = "write" => j \in met[k]
        BY <3>1 DEF AliveHaveMet
      <4> QED
        BY <3>1, <3>2, <4>1, <4>2
    <3>3. CASE job[k].op = "RRQ"
      <4>1. /\ UNCHANGED last
            /\ \E pc \in {"failed", "temp", "send"} : kpc' = [kpc EXCEPT ![k] = pc]
        BY <2>3, <3>3 DEF Open
      <4> QED
        BY <3>1, <4>1
    <3> QED
      BY <2>3, <3>2, <3>3 DEF Open
  <2>4. ASSUME NEW k \in Kids,
               OpenRefused(k) \/ Fail(k) \/ Done(k) \/ TempOpen(k) \/ TempFill(k) \/ TempReopen(k)
        PROVE  LastOK'
    <3>1. /\ UNCHANGED <<last, job, met>>
          /\ \/ kpc[k] \in {"open", "temp", "fill", "reopen"} /\ kpc'[k] # "write"
             \/ kpc'[k] \in {"failed", "done"}
             \/ kpc'[k] = kpc[k]
          /\ \A j \in Kids : j # k => kpc'[j] = kpc[j]
      BY <2>4 DEF OpenRefused, Fail, Done, TempOpen, TempFill, TempReopen
    <3> QED
      BY <3>1
  <2>5. ASSUME NEW k \in Kids, SendBlock(k) \/ WriteBlock(k) PROVE LastOK'
    BY <2>5 DEF SendBlock, WriteBlock
  <2> QED
    BY <2>1, <2>2, <2>3, <2>4, <2>5 DEF TftpNext, Child
<1> QED
  BY <1>1, <1>2, JobsCorrect, Acquainted, TftpImplementsChildren, ChildrenType, PTL DEF TftpSpec

(* A file is what its last writer was sent, unless one of the causes that  *)
(* FileIsLastWrite names - a failure, a full disk, another writer - has    *)
(* spoilt it: none of them by a step of a child that the writer never met. *)
THEOREM FileWhole == TftpSpec => []FileIsLastWrite
<1>1. TftpInit => FilesOK
  BY DEF TftpInit, FilesOK, FileOK
<1>2. JobsOK /\ JobsOK' /\ LastOK /\ FilesOK /\ [TftpNext]_tsvars => FilesOK'
  <2> SUFFICES ASSUME JobsOK, JobsOK', LastOK, FilesOK, [TftpNext]_tsvars, NEW f \in Names
               PROVE  FileOK(f)'
    BY DEF FilesOK
  <2>0. None \notin Kids /\ None \notin Requests
    BY TftpConstantsOK
  (* A step that leaves the file and its last writer alone.                *)
  <2> DEFINE Spared ==
        /\ data'[f] = data[f] /\ last'[f] = last[f] /\ full \subseteq full'
        /\ \A k \in Kids : met[k] \subseteq met'[k] \/ kpc[k] = "none"
        /\ \A j \in Kids : job[j] # None => job'[j] = job[j]
        /\ last[f] # None =>
             \/ kpc'[last[f]] = kpc[last[f]] /\ pos'[last[f]] = pos[last[f]]
             \/ kpc'[last[f]] = "failed"
             \/ /\ kpc[last[f]] = "write" /\ kpc'[last[f]] = "done"
                /\ pos[last[f]] = job[last[f]].size
  <2>1. CASE Spared
    <3>1. CASE last[f] = None
      BY <2>1, <3>1 DEF FilesOK, FileOK
    <3>2. CASE last[f] # None
      <4> DEFINE k == last[f]
      <4>1. k \in Kids /\ job[k] # None /\ kpc[k] \in {"write", "failed", "done"} /\ job'[k] = job[k]
        BY <2>1, <3>2 DEF LastOK, Writes
      <4>2. kpc[k] = "failed" => kpc'[k] = "failed"
        BY <2>1, <3>2
      <4>3. MetWriter(k, f) => MetWriter(k, f)'
        BY <2>1, <4>1 DEF MetWriter, Writes, File, JobsOK
      <4>4. SoFar(k, f) => kpc'[k] = "failed" \/ SoFar(k, f)'
        BY <2>1, <3>2, <4>1 DEF SoFar
      <4> QED
        BY <2>1, <3>2, <4>2, <4>3, <4>4 DEF FilesOK, FileOK
    <3> QED
      BY <3>1, <3>2
  <2> USE DEF JobsOK, LastOK, At, Moves, Exits, temps, reads
  <2>2. CASE Tick \/ Ignore \/ HandlerRuns \/ UNCHANGED tsvars
    <3> Spared
      BY <2>2 DEF Tick, Ignore, Datagram, HandlerRuns, tsvars
    <3> QED
      BY <2>1
  <2>3. ASSUME NEW r \in Requests, NEW k \in Kids, Receive(r, k) PROVE FileOK(f)'
    <3>1. /\ kpc[k] = "none" /\ kpc' = [kpc EXCEPT ![k] = "open"]
          /\ job' = [job EXCEPT ![k] = r] /\ job[k] = None
          /\ UNCHANGED <<data, last, full, pos>>
      BY <2>3 DEF Receive, Born, Datagram
    <3>2. \A j \in Kids : met[j] \subseteq met'[j] \/ j = k
      BY <2>3 DEF Receive
    <3> Spared
      BY <3>1, <3>2
    <3> QED
      BY <2>1
  <2>4. ASSUME NEW k \in Kids, Open(k), job[k].op = "WRQ", File(k) = f PROVE FileOK(f)'
    <3>1. /\ last'[f] = k /\ data'[f] = <<>> /\ pos'[k] = 0
          /\ kpc'[k] \in {"failed", "write"}
      BY <2>4 DEF Open, OpenForWriting
    <3>2. [i \in 1 .. 0 |-> [by |-> k, n |-> i]] = <<>>
      OBVIOUS
    <3> QED
      BY <2>0, <3>1, <3>2 DEF FileOK, SoFar
  <2>5. ASSUME NEW k \in Kids, Open(k), job[k].op = "RRQ" \/ File(k) # f PROVE FileOK(f)'
    <3>1. /\ data'[f] = data[f] /\ last'[f] = last[f] /\ kpc[k] = "open"
          /\ UNCHANGED <<full, met, job, pos>>
          /\ \A j \in Kids : j # k => kpc'[j] = kpc[j]
      BY <2>5 DEF Open, OpenForWriting
    <3> Spared
      BY <3>1
    <3> QED
      BY <2>1
  <2>6. ASSUME NEW k \in Kids,
               \/ OpenRefused(k) \/ Fail(k) \/ TempOpen(k) \/ TempFill(k) \/ TempReopen(k) \/ SendBlock(k)
        PROVE  FileOK(f)'
    <3>1. /\ UNCHANGED <<data, last, met, job>> /\ full \subseteq full'
          /\ kpc[k] \in {"open", "temp", "fill", "reopen", "send"} \/ kpc'[k] = "failed"
          /\ \A j \in Kids : j # k => kpc'[j] = kpc[j] /\ pos'[j] = pos[j]
      BY <2>6 DEF OpenRefused, Fail, TempOpen, TempFill, TempReopen, SendBlock
    <3> Spared
      BY <3>1
    <3> QED
      BY <2>1
  <2>7. ASSUME NEW k \in Kids, Done(k) PROVE FileOK(f)'
    <3>1. /\ UNCHANGED <<data, last, full, met, job, pos>>
          /\ kpc[k] = "send" \/ (kpc[k] = "write" /\ pos[k] = job[k].size)
          /\ kpc'[k] = "done" /\ \A j \in Kids : j # k => kpc'[j] = kpc[j]
      BY <2>7 DEF Done
    <3> Spared
      BY <3>1
    <3> QED
      BY <2>1
  <2>8. ASSUME NEW k \in Kids, WriteBlock(k) PROVE FileOK(f)'
    <3>1. /\ kpc[k] = "write" /\ UNCHANGED <<kpc, last, met, job>>
          /\ pos' = [pos EXCEPT ![k] = @ + 1] /\ full \subseteq full'
      BY <2>8 DEF WriteBlock
    <3>2. CASE last[f] # k /\ ~ (Writes(k, f) /\ last[f] # None /\ k \in met[last[f]])
      <4>1. File(k) # f
        BY <2>0, <3>1, <3>2 DEF Writes
      <4>2. data'[f] = data[f]
        BY <2>8, <4>1 DEF WriteBlock
      <4> Spared
        BY <3>1, <3>2, <4>2
      <4> QED
        BY <2>1
    <3>3. CASE last[f] # k /\ Writes(k, f) /\ last[f] # None /\ k \in met[last[f]]
      BY <3>1, <3>3 DEF FileOK, MetWriter, Writes, File
    <3>4. CASE last[f] = k
      <4>1. File(k) = f
        BY <2>0, <3>4 DEF Writes
      <4>2. CASE k \in full'
        BY <2>0, <3>1, <3>4, <4>2 DEF FileOK
      <4>3. CASE k \notin full'
        <5>1. data'[f] = Written(data[f], pos[k] + 1, [by |-> k, n |-> pos[k] + 1])
          BY <2>8, <4>1, <4>3 DEF WriteBlock
        <5>2. MetWriter(k, f) \/ SoFar(k, f)
          BY <2>0, <3>1, <3>4, <4>3 DEF FilesOK, FileOK
        <5>3. CASE MetWriter(k, f)
          BY <2>0, <3>1, <3>4, <5>3 DEF FileOK, MetWriter, Writes, File
        <5>4. CASE SoFar(k, f)
          <6>1. data[f] = [i \in 1 .. pos[k] |-> [by |-> k, n |-> i]] /\ pos[k] \in Nat
            BY <3>1, <5>4 DEF SoFar
          <6>2. data'[f] = [i \in 1 .. pos[k] + 1 |-> [by |-> k, n |-> i]]
            <7>1. Written([i \in 1 .. pos[k] |-> [by |-> k, n |-> i]], pos[k] + 1, [by |-> k, n |-> pos[k] + 1])
                    = [i \in 1 .. pos[k] + 1 |-> [by |-> k, n |-> i]]
              BY <6>1, NextBlock, ZenonT(30)
            <7> QED
              BY <5>1, <6>1, <7>1
          <6>3. SoFar(k, f)'
            BY <3>1, <6>2 DEF SoFar
          <6> QED
            BY <2>0, <3>1, <3>4, <6>3 DEF FileOK
        <5> QED
          BY <5>2, <5>3, <5>4
      <4> QED
        BY <4>2, <4>3
    <3> QED
      BY <3>2, <3>3, <3>4
  <2>9. \A k \in Kids : kpc[k] = "open" => job[k] \in Requests
    BY DEF JobsOK
  <2> QED
    BY <2>2, <2>3, <2>4, <2>5, <2>6, <2>7, <2>8 DEF TftpNext, Child, Open
<1>3. JobsOK /\ LastOK /\ FilesOK => FileIsLastWrite
  <2> SUFFICES ASSUME JobsOK, LastOK, FilesOK, NEW f \in Names
               PROVE  \/ data[f] = None /\ last[f] = None
                      \/ data[f] = Meant(f)
                      \/ /\ last[f] # None
                         /\ \/ kpc[last[f]] \in {"write", "failed"} \/ last[f] \in full
                            \/ \E j \in met[last[f]] : Writes(j, f)
    BY DEF FileIsLastWrite
  <2>1. CASE last[f] = None
    BY <2>1 DEF FilesOK, FileOK, Meant
  <2>2. CASE last[f] # None
    BY <2>2 DEF FilesOK, FileOK, LastOK, MetWriter, SoFar, Meant
  <2> QED
    BY <2>1, <2>2
<1> QED
  BY <1>1, <1>2, <1>3, JobsCorrect, LastCorrect, PTL DEF TftpSpec

-----------------------------------------------------------------------------
(* The reads.                                                              *)

Blocks == {Hole} \cup [by : Kids \cup {None}, n : Nat]

ContentsOK ==
  /\ DOMAIN data = Names /\ tdata \in [Kids -> Seq(Blocks)]
  /\ DOMAIN src = Kids /\ DOMAIN got = Kids
  /\ \A f \in Names : data[f] # None => data[f] \in Seq(Blocks)

ReaderOK(k) ==
  /\ kpc[k] \in {"temp", "fill", "reopen", "send", "write"} =>
       kid[k] = "alive" /\ data[File(k)] \in Seq(Blocks)
  /\ kpc[k] \in {"temp", "fill", "reopen", "send"} => job[k].op = "RRQ"
  /\ kpc[k] \in {"none", "open", "temp"} => pos[k] = 0
  /\ kpc[k] \in {"none", "open", "temp", "fill", "reopen"} => got[k] = <<>>
  /\ tname[k] = None => tdata[k] = <<>>
  /\ kpc[k] \in {"fill", "reopen"} => tname[k] # None
  /\ kpc[k] = "fill" => src[k] \in Kids /\ tname[src[k]] = tname[k]
  /\ kpc[k] = "send" =>
       \/ src[k] = File(k)
       \/ src[k] \in Kids /\ tname[src[k]] = tname[k] /\ tname[k] # None

(* What every child has, spoilt or not: the file it works on is there, it  *)
(* has sent nothing before it sends, and the temporary file it copies to   *)
(* or reads was made under the name that it uses itself.                   *)
ReadersOK ==
  /\ ContentsOK
  /\ \A k \in Kids : ReaderOK(k)
  /\ \A s \in Seconds : temp[s] # None => temp[s] \in Kids /\ tname[temp[s]] = s

UpTo(d, n) == [i \in 1 .. n |-> d[i]]

(* What a child has whose copy nothing spoils: the copy is the file as far *)
(* as it has come, and then the whole file, under its name until it is     *)
(* opened; and what it has sent is the file as far as it has come.         *)
CopyOK(k) ==
  LET d == data[File(k)]
  IN  /\ kpc[k] = "fill" =>
           /\ temp[tname[k]] = src[k] /\ pos[k] <= Len(d)
           /\ tdata[src[k]] = UpTo(d, pos[k])
      /\ kpc[k] = "reopen" => temp[tname[k]] # None /\ tdata[temp[tname[k]]] = d
      /\ kpc[k] = "send" =>
           /\ pos[k] <= Len(d) /\ got[k] = UpTo(d, pos[k])
           /\ src[k] # File(k) => tdata[src[k]] = d

Spoilt(k) == k \in full \/ \E j \in met[k] : Disturbs(j, k)

CopiesOK == \A k \in Kids : Spoilt(k) \/ CopyOK(k)

LEMMA WrittenType ==
  ASSUME NEW s \in Seq(Blocks), NEW p \in Nat \ {0}, NEW b \in Blocks
  PROVE  Written(s, p, b) \in Seq(Blocks)
<1> DEFINE n == IF p > Len(s) THEN p ELSE Len(s)
<1>1. n \in Nat
  OBVIOUS
<1>2. \A i \in 1 .. n : (IF i = p THEN b ELSE IF i <= Len(s) THEN s[i] ELSE Hole) \in Blocks
  BY DEF Blocks
<1>3. Written(s, p, b) \in [1 .. n -> Blocks]
  BY <1>2 DEF Written
<1> QED
  BY <1>1, <1>3

(* A block is copied, or sent, behind those that are.                      *)
LEMMA NextUpTo ==
  ASSUME NEW d \in Seq(Blocks), NEW p \in Nat, p < Len(d)
  PROVE  /\ Written(UpTo(d, p), p + 1, d[p + 1]) = UpTo(d, p + 1)
         /\ Append(UpTo(d, p), d[p + 1]) = UpTo(d, p + 1)
<1>1. UpTo(d, p) \in Seq(Blocks) /\ Len(UpTo(d, p)) = p /\ \A i \in 1 .. p : UpTo(d, p)[i] = d[i]
  BY DEF UpTo
<1>2. Written(UpTo(d, p), p + 1, d[p + 1]) = UpTo(d, p + 1)
  <2>1. (IF p + 1 > Len(UpTo(d, p)) THEN p + 1 ELSE Len(UpTo(d, p))) = p + 1
    BY <1>1
  <2>2. \A i \in 1 .. p + 1 :
          (IF i = p + 1 THEN d[p + 1] ELSE IF i <= Len(UpTo(d, p)) THEN UpTo(d, p)[i] ELSE Hole) = d[i]
    BY <1>1
  <2>3. UpTo(d, p + 1) = [i \in 1 .. p + 1 |-> d[i]]
    BY DEF UpTo
  <2> QED
    BY <2>1, <2>2, <2>3, Zenon DEF Written
<1>3. Append(UpTo(d, p), d[p + 1]) = UpTo(d, p + 1)
  BY DEF UpTo
<1> QED
  BY <1>2, <1>3

LEMMA AllUpTo ==
  ASSUME NEW d \in Seq(Blocks)
  PROVE  UpTo(d, Len(d)) = d /\ UpTo(d, 0) = <<>>
BY DEF UpTo

LEMMA FileIsName ==
  ASSUME ChildrenTypeOK, JobsOK, NEW k \in Kids, kid[k] # "unborn"
  PROVE  job[k] \in Requests /\ File(k) \in Names
<1>1. job[k] \in Requests
  BY DEF JobsOK
<1>2. job[k].file \in Names
  BY <1>1, TftpConstantsOK
<1> QED
  BY <1>1, <1>2 DEF File

LEMMA ReadersStart == TftpInit => ReadersOK
<1> SUFFICES ASSUME TftpInit PROVE ReadersOK
  OBVIOUS
<1>1. \A f \in Names : data[f] # None => data[f] \in Seq(Blocks)
  <2> SUFFICES ASSUME NEW f \in Names, data[f] # None PROVE data[f] \in Seq(Blocks)
    OBVIOUS
  <2>1. OldSize[f] \in Nat /\ data[f] = [i \in 1 .. OldSize[f] |-> [by |-> None, n |-> i]]
    BY TftpConstantsOK DEF TftpInit
  <2>2. \A i \in 1 .. OldSize[f] : [by |-> None, n |-> i] \in Blocks
    BY <2>1 DEF Blocks
  <2> QED
    BY <2>1, <2>2
<1>2. DOMAIN data = Names /\ DOMAIN src = Kids /\ DOMAIN got = Kids
  BY DEF TftpInit
<1>3. <<>> \in Seq(Blocks)
  OBVIOUS
<1>4. tdata \in [Kids -> Seq(Blocks)]
  BY <1>3 DEF TftpInit
<1>5. ASSUME NEW k \in Kids PROVE ReaderOK(k)
  BY DEF TftpInit, ReaderOK
<1>6. \A s \in Seconds : temp[s] = None
  BY DEF TftpInit
<1> QED
  BY <1>1, <1>2, <1>4, <1>5, <1>6 DEF ReadersOK, ContentsOK

(* A step of the child k leaves what ReadersOK says of the others.         *)
LEMMA OtherReaders ==
  ASSUME NEW k \in Kids, NEW j \in Kids, j # k, ReaderOK(j), TempsOK, JobsOK,
         kid'[j] = kid[j], kpc'[j] = kpc[j], job'[j] = job[j], pos'[j] = pos[j],
         got'[j] = got[j], src'[j] = src[j], tname'[j] = tname[j],
         \A i \in Kids : tname[i] # None => tname'[i] = tname[i],
         \A f \in Names : data[f] \in Seq(Blocks) => data'[f] \in Seq(Blocks),
         kid[j] # "unborn" => File(j) \in Names,
         tname[j] = None => tdata'[j] = tdata[j]
  PROVE  ReaderOK(j)'
<1>1. File(j)' = File(j)
  BY DEF File
<1>2. src[j] \in Kids /\ tname[src[j]] = tname[j] /\ tname[j] # None =>
        src'[j] \in Kids /\ tname'[src'[j]] = tname'[j] /\ tname'[j] # None
  OBVIOUS
<1>3. kpc[j] = "fill" => tname[j] # None
  BY DEF ReaderOK
<1> QED
  BY <1>1, <1>2, <1>3 DEF ReaderOK

LEMMA ReadersCorrect == TftpSpec => []ReadersOK
<1>2. /\ ChildrenTypeOK /\ TempsOK /\ JobsOK /\ ReadersOK /\ [TftpNext]_tsvars
      => ReadersOK'
  <2> SUFFICES ASSUME ChildrenTypeOK, TempsOK, JobsOK, ReadersOK, [TftpNext]_tsvars
               PROVE  ReadersOK'
    OBVIOUS
  <2>0. None \notin Seconds /\ None \notin Kids /\ None \notin Requests /\ Names \cap Kids = {}
    BY TftpConstantsOK DEF Seconds
  <2>00. \A j \in Kids : kid[j] # "unborn" => job[j] \in Requests /\ File(j) \in Names
    BY FileIsName
  <2>a. ContentsOK /\ \A j \in Kids : ReaderOK(j)
    BY DEF ReadersOK
  (* Nothing of which ReadersOK speaks changes, but for the state of one   *)
  (* child, which gets no further work.                                    *)
  <2>1. ASSUME UNCHANGED <<job, data, temps, reads>>,
               \A j \in Kids : kid'[j] = kid[j] \/ kid[j] # "alive",
               \A j \in Kids : kpc'[j] = kpc[j]
        PROVE  ReadersOK'
    <3>1. ASSUME NEW j \in Kids PROVE ReaderOK(j)'
      BY <2>a, <2>1 DEF ReaderOK, File, temps, reads
    <3> QED
      BY <2>1, <3>1 DEF ReadersOK, ContentsOK, temps, reads
  <2>2. CASE Tick \/ Ignore \/ UNCHANGED tsvars
    BY <2>1, <2>2 DEF Tick, Ignore, Datagram, tsvars, kvars
  <2>3. ASSUME NEW r \in Requests, NEW k \in Kids, Receive(r, k) PROVE ReadersOK'
    <3>1. /\ kid[k] = "unborn" /\ UNCHANGED <<data, temps, reads>>
          /\ kid' = [kid EXCEPT ![k] = "alive"] /\ kpc' = [kpc EXCEPT ![k] = "open"]
          /\ job' = [job EXCEPT ![k] = r]
      BY <2>3 DEF Receive, Datagram, Born, Moves
    <3>2. ASSUME NEW j \in Kids PROVE ReaderOK(j)'
      <4>1. CASE j # k
        BY <2>a, <3>1, <4>1 DEF ReaderOK, File, temps, reads, ChildrenTypeOK, JobsOK
      <4>2. CASE j = k
        BY <2>a, <3>1, <4>2 DEF ReaderOK, temps, reads, ChildrenTypeOK, JobsOK
      <4> QED
        BY <4>1, <4>2
    <3> QED
      BY <3>1, <3>2 DEF ReadersOK, ContentsOK, temps, reads
  <2>4. CASE HandlerRuns
    <3>1. UNCHANGED <<job, kpc, data, temps, reads>>
      BY <2>4 DEF HandlerRuns
    <3>2. \A j \in Kids : kid'[j] = kid[j] \/ kid[j] # "alive"
      BY <2>4 DEF HandlerRuns, Handler, HandlerStarts, HandlerWaits, Zombies, ChildrenTypeOK
    <3> QED
      BY <2>1, <3>1, <3>2
  (* A child that ends.                                                    *)
  <2>5. ASSUME NEW k \in Kids, OpenRefused(k) \/ Fail(k) \/ Done(k) PROVE ReadersOK'
    <3>1. /\ UNCHANGED <<job, data, tname, tdata, reads>>
          /\ kid' = [kid EXCEPT ![k] = "zombie"]
          /\ \E pc \in {"failed", "done"} : kpc' = [kpc EXCEPT ![k] = pc]
          /\ \A s \in Seconds : temp'[s] \in {temp[s], None}
      BY <2>5 DEF OpenRefused, Fail, Done, RemoveTemp, At, Exits, Ends, Moves, temps, reads, TempsOK
    <3>2. ASSUME NEW j \in Kids PROVE ReaderOK(j)'
      <4>1. CASE j # k
        BY <2>a, <3>1, <4>1 DEF ReaderOK, File, reads, ChildrenTypeOK, TempsOK
      <4>2. CASE j = k
        BY <2>a, <3>1, <4>2 DEF ReaderOK, reads, TempsOK
      <4> QED
        BY <4>1, <4>2
    <3> QED
      BY <3>1, <3>2 DEF ReadersOK, ContentsOK, reads
  <2>6. ASSUME NEW k \in Kids, Open(k) PROVE ReadersOK'
    <3>1. /\ kpc[k] = "open" /\ kid[k] = "alive" /\ UNCHANGED <<job, temps, pos, got>>
          /\ File(k) \in Names
      BY <2>6, <2>00 DEF Open, At
    <3>2. /\ DOMAIN data' = Names /\ data'[File(k)] \in Seq(Blocks)
          /\ \A f \in Names : data'[f] = data[f] \/ data'[f] \in Seq(Blocks)
      <4>1. <<>> \in Seq(Blocks)
        OBVIOUS
      <4> QED
        BY <2>6, <2>a, <3>1, <4>1 DEF Open, OpenForWriting, ContentsOK
    <3>3. \/ /\ kpc' = [kpc EXCEPT ![k] = "failed"] /\ kid' = [kid EXCEPT ![k] = "zombie"]
             /\ src' = src
          \/ /\ src' = [src EXCEPT ![k] = File(k)] /\ kid' = kid
             /\ \E pc \in {"write", "temp", "send"} :
                  kpc' = [kpc EXCEPT ![k] = pc] /\ (pc # "write" => job[k].op = "RRQ")
      BY <2>6, <3>1 DEF Open, Moves, Exits, Ends, kvars
    <3>4. ASSUME NEW j \in Kids PROVE ReaderOK(j)'
      <4>1. CASE j # k
        BY <2>a, <2>0, <2>00, <3>1, <3>2, <3>3, <4>1, OtherReaders DEF temps, ChildrenTypeOK, TempsOK, ContentsOK
      <4>2. CASE j = k
        <5>1. File(j)' = File(k) /\ tname'[j] = None /\ got'[j] = <<>> /\ tdata'[j] = <<>> /\ pos'[j] = 0
          BY <2>a, <3>1, <4>2 DEF ReaderOK, File, TempsOK, JobsOK, temps
        <5> QED
          BY <2>a, <3>1, <3>2, <3>3, <4>2, <5>1 DEF ReaderOK, TempsOK, ContentsOK, ChildrenTypeOK
      <4> QED
        BY <4>1, <4>2
    <3>5. ContentsOK'
      BY <2>a, <3>1, <3>2, <3>3 DEF ContentsOK, temps
    <3> QED
      BY <3>1, <3>4, <3>5 DEF ReadersOK, temps
  <2>7. ASSUME NEW k \in Kids, TempOpen(k) PROVE ReadersOK'
    <3>1. /\ kpc[k] = "temp" /\ UNCHANGED <<job, kid, data, pos, got>>
          /\ kpc' = [kpc EXCEPT ![k] = "fill"] /\ tname' = [tname EXCEPT ![k] = now]
          /\ now \in Seconds /\ tname[k] = None
      BY <2>7 DEF TempOpen, At, Moves, kvars, TempsOK
    <3>2. \/ /\ temp[now] = None /\ temp' = [temp EXCEPT ![now] = k]
             /\ src' = [src EXCEPT ![k] = k] /\ tdata' = tdata
          \/ /\ temp[now] # None /\ temp' = temp
             /\ src' = [src EXCEPT ![k] = temp[now]] /\ tdata' = [tdata EXCEPT ![temp[now]] = <<>>]
      BY <2>7 DEF TempOpen
    <3>3. \A i \in Kids : tname[i] # None => tname'[i] = tname[i]
      BY <3>1
    <3>4. src'[k] \in Kids /\ tname'[src'[k]] = now /\ tname'[k] = now
      BY <2>0, <3>1, <3>2, <3>3 DEF ReadersOK, TempsOK, ContentsOK
    <3>5. \A j \in Kids : tname'[j] = None => tdata'[j] = tdata[j]
      BY <2>0, <3>1, <3>2, <3>3 DEF ReadersOK, TempsOK, ContentsOK
    <3>6. ASSUME NEW j \in Kids PROVE ReaderOK(j)'
      <4>1. CASE j # k
        BY <2>a, <2>00, <3>1, <3>2, <3>3, <3>5, <4>1, OtherReaders DEF TempsOK, ContentsOK
      <4>2. CASE j = k
        BY <2>a, <2>0, <3>1, <3>4, <4>2 DEF ReaderOK, TempsOK, ContentsOK, File
      <4> QED
        BY <4>1, <4>2
    <3>7. ContentsOK'
      <4>1. <<>> \in Seq(Blocks)
        OBVIOUS
      <4> QED
        BY <2>a, <3>1, <3>2, <4>1 DEF ContentsOK
    <3>8. \A s \in Seconds : temp'[s] # None => temp'[s] \in Kids /\ tname'[temp'[s]] = s
      BY <2>0, <3>1, <3>2, <3>3 DEF ReadersOK, TempsOK
    <3> QED
      BY <3>6, <3>7, <3>8 DEF ReadersOK
  <2>8. ASSUME NEW k \in Kids, TempFill(k) PROVE ReadersOK'
    <3>1. /\ kpc[k] = "fill" /\ UNCHANGED <<job, kid, data, got, src, temp, tname>>
          /\ \A j \in Kids : j # k => kpc'[j] = kpc[j] /\ pos'[j] = pos[j]
          /\ kpc'[k] \in {"fill", "reopen"}
      BY <2>8 DEF TempFill, At, Moves, kvars, TempsOK, JobsOK
    <3>2. /\ src[k] \in Kids /\ tname[src[k]] = tname[k] /\ tname[k] # None
          /\ data[File(k)] \in Seq(Blocks) /\ pos[k] \in Nat /\ job[k].op = "RRQ"
          /\ kid[k] = "alive" /\ got[k] = <<>>
      BY <2>a, <3>1 DEF ReaderOK, JobsOK
    <3>3. /\ tdata' \in [Kids -> Seq(Blocks)]
          /\ \A j \in Kids : tname[j] = None => tdata'[j] = tdata[j]
      <4> DEFINE p == pos[k] + 1
      <4>1. CASE p <= Len(data[File(k)])
        <5>1. \/ tdata' = [tdata EXCEPT ![src[k]] = Written(@, p, data[File(k)][p])]
              \/ tdata' = tdata
          BY <2>8, <4>1 DEF TempFill
        <5>2. data[File(k)][p] \in Blocks /\ p \in Nat \ {0} /\ tdata[src[k]] \in Seq(Blocks)
          BY <2>a, <3>2, <4>1 DEF ContentsOK
        <5>3. Written(tdata[src[k]], p, data[File(k)][p]) \in Seq(Blocks)
          BY <5>2, WrittenType
        <5> QED
          BY <2>a, <3>2, <5>1, <5>3 DEF ContentsOK
      <4>2. CASE ~ (p <= Len(data[File(k)]))
        BY <2>8, <2>a, <4>2 DEF TempFill, ContentsOK
      <4> QED
        BY <4>1, <4>2
    <3>4. ASSUME NEW j \in Kids PROVE ReaderOK(j)'
      <4>1. CASE j # k
        BY <2>a, <2>00, <3>1, <3>3, <4>1, OtherReaders
      <4>2. CASE j = k
        BY <3>1, <3>2, <3>3, <4>2 DEF ReaderOK, File
      <4> QED
        BY <4>1, <4>2
    <3> QED
      BY <2>a, <3>1, <3>3, <3>4 DEF ReadersOK, ContentsOK
  <2>9. ASSUME NEW k \in Kids, TempReopen(k) \/ SendBlock(k) PROVE ReadersOK'
    <3>1. /\ kpc[k] \in {"reopen", "send"} /\ UNCHANGED <<job, data, temps>>
          /\ \A j \in Kids : j # k => /\ kpc'[j] = kpc[j] /\ pos'[j] = pos[j] /\ kid'[j] = kid[j]
                                      /\ src'[j] = src[j] /\ got'[j] = got[j]
          /\ DOMAIN src' = Kids /\ DOMAIN got' = Kids
          /\ kpc'[k] \in {"send", "failed"}
      BY <2>9, <2>a DEF TempReopen, SendBlock, At, Moves, Exits, Ends, kvars, ChildrenTypeOK, TempsOK, JobsOK, ContentsOK
    <3>2. kpc'[k] = "send" =>
            /\ kid'[k] = kid[k]
            /\ \/ src'[k] = src[k] /\ kpc[k] = "send"
               \/ src'[k] = temp[tname[k]] /\ temp[tname[k]] # None /\ kpc[k] = "reopen"
      BY <2>9, <2>a, <3>1 DEF TempReopen, SendBlock, At, Moves, Exits, kvars, TempsOK, JobsOK, ContentsOK
    <3>3. kpc[k] = "reopen" => tname[k] \in Seconds
      BY <2>a DEF ReaderOK, TempsOK
    <3>4. ASSUME NEW j \in Kids PROVE ReaderOK(j)'
      <4>1. CASE j # k
        BY <2>a, <2>00, <3>1, <4>1, OtherReaders DEF temps
      <4>2. CASE j = k
        BY <2>a, <2>0, <3>1, <3>2, <3>3, <4>2 DEF ReaderOK, File, temps, TempsOK, ReadersOK
      <4> QED
        BY <4>1, <4>2
    <3> QED
      BY <2>a, <3>1, <3>4 DEF ReadersOK, ContentsOK, temps
  <2>10. ASSUME NEW k \in Kids, WriteBlock(k) PROVE ReadersOK'
    <3>1. /\ kpc[k] = "write" /\ UNCHANGED <<job, kid, kpc, temps, src, got>>
          /\ pos' = [pos EXCEPT ![k] = @ + 1] /\ pos[k] \in Nat
      BY <2>10 DEF WriteBlock, At, kvars, JobsOK
    <3>2. /\ DOMAIN data' = Names
          /\ \A f \in Names : data'[f] = data[f] \/ data'[f] \in Seq(Blocks)
      <4>1. data[File(k)] \in Seq(Blocks)
        BY <2>a, <3>1 DEF ReaderOK
      <4>2. [by |-> k, n |-> pos[k] + 1] \in Blocks /\ pos[k] + 1 \in Nat \ {0}
        BY <3>1 DEF Blocks
      <4>3. Written(data[File(k)], pos[k] + 1, [by |-> k, n |-> pos[k] + 1]) \in Seq(Blocks)
        BY <4>1, <4>2, WrittenType
      <4> QED
        BY <2>10, <2>a, <4>3 DEF WriteBlock, ContentsOK
    <3>3. ASSUME NEW j \in Kids PROVE ReaderOK(j)'
      <4>1. CASE j # k
        BY <2>a, <2>00, <3>1, <3>2, <4>1, OtherReaders DEF temps
      <4>2. CASE j = k
        <5>1. kid[k] = "alive" /\ data[File(k)] \in Seq(Blocks) /\ File(k) \in Names
          BY <2>a, <2>00, <3>1 DEF ReaderOK
        <5> QED
          BY <2>a, <3>1, <3>2, <4>2, <5>1 DEF ReaderOK, File, temps
      <4> QED
        BY <4>1, <4>2
    <3> QED
      BY <2>a, <3>1, <3>2, <3>3 DEF ReadersOK, ContentsOK, temps
  <2> QED
    BY <2>2, <2>3, <2>4, <2>5, <2>6, <2>7, <2>8, <2>9, <2>10 DEF TftpNext, Child
<1> QED
  BY ReadersStart, <1>2, JobsCorrect, TempsCorrect, TftpImplementsChildren, ChildrenType, PTL DEF TftpSpec

(* A child once spoilt stays so.                                           *)
LEMMA StepsForward ==
  ASSUME ChildrenTypeOK, TempsOK, JobsOK, [TftpNext]_tsvars, NEW j \in Kids
  PROVE  /\ full \subseteq full'
         /\ kid[j] # "unborn" => job'[j] = job[j] /\ met[j] \subseteq met'[j]
         /\ kid[j] # "unborn" /\ kpc[j] # "open" => kpc'[j] # "open"
         /\ tname[j] # None => tname'[j] = tname[j]
<1>0. full \subseteq full'
  BY DEF TftpNext, Tick, Ignore, Datagram, HandlerRuns, Receive, Child, OpenRefused, Open, TempOpen,
         TempFill, TempReopen, SendBlock, WriteBlock, Done, Fail, tsvars
<1>1. CASE Tick \/ Ignore \/ HandlerRuns \/ UNCHANGED tsvars
  BY <1>1 DEF Tick, Ignore, Datagram, HandlerRuns, tsvars, temps
<1>2. ASSUME NEW r \in Requests, NEW k \in Kids, Receive(r, k)
      PROVE  /\ kid[j] # "unborn" => job'[j] = job[j] /\ met[j] \subseteq met'[j]
             /\ kid[j] # "unborn" /\ kpc[j] # "open" => kpc'[j] # "open"
             /\ tname[j] # None => tname'[j] = tname[j]
  BY <1>2 DEF Receive, Born, Datagram, Moves, temps, JobsOK
<1>3. ASSUME NEW k \in Kids, Child(k)
      PROVE  /\ kid[j] # "unborn" => job'[j] = job[j] /\ met[j] \subseteq met'[j]
             /\ kid[j] # "unborn" /\ kpc[j] # "open" => kpc'[j] # "open"
             /\ tname[j] # None => tname'[j] = tname[j]
  <2>1. job' = job /\ met' = met
    BY <1>3 DEF Child, At, OpenRefused, Open, TempOpen, TempFill, TempReopen, SendBlock, WriteBlock,
                Done, Fail
  <2>2. kpc' = kpc \/ \E pc \in {"failed", "done", "write", "temp", "send", "fill", "reopen"} :
                        kpc' = [kpc EXCEPT ![k] = pc]
    BY <1>3 DEF Child, Exits, Moves, OpenRefused, Open, TempOpen, TempFill, TempReopen, SendBlock,
                WriteBlock, Done, Fail
  <2>3. tname' = tname \/ (tname[k] = None /\ tname' = [tname EXCEPT ![k] = now])
    BY <1>3 DEF Child, At, OpenRefused, Open, TempOpen, TempFill, TempReopen, SendBlock, WriteBlock,
                Done, Fail, temps, TempsOK
  <2>4. kpc[j] # "open" => kpc'[j] # "open"
    BY <2>2 DEF TempsOK
  <2>5. tname[j] # None => tname'[j] = tname[j]
    BY <2>3 DEF TempsOK
  <2> QED
    BY <2>1, <2>4, <2>5
<1> QED
  BY <1>0, <1>1, <1>2, <1>3 DEF TftpNext

LEMMA SpoiltStays ==
  ASSUME ChildrenTypeOK, TempsOK, JobsOK, [TftpNext]_tsvars,
         NEW k \in Kids, kid[k] # "unborn", Spoilt(k)
  PROVE  Spoilt(k)'
<1> SUFFICES ASSUME k \notin full PROVE Spoilt(k)'
  BY StepsForward DEF Spoilt
<1>1. PICK j \in met[k] : Disturbs(j, k)
  BY DEF Spoilt
<1>2. j \in Kids /\ j \in met'[k] /\ File(k)' = File(k)
  BY <1>1, StepsForward DEF JobsOK, File
<1>3. CASE Writes(j, File(k)) /\ kpc[j] # "open"
  <2>1. job[j] # None /\ kid[j] # "unborn"
    BY <1>2, <1>3 DEF Writes, JobsOK
  <2>2. job'[j] = job[j] /\ kpc'[j] # "open"
    BY <1>2, <1>3, <2>1, StepsForward
  <2>3. Writes(j, File(k))'
    BY <1>2, <1>3, <2>2 DEF Writes, File
  <2> QED
    BY <1>2, <2>2, <2>3 DEF Spoilt, Disturbs
<1>4. CASE tname[j] = tname[k] /\ tname[k] # None
  <2>1. tname'[j] = tname[j] /\ tname'[k] = tname[k]
    BY <1>2, <1>4, StepsForward
  <2> QED
    BY <1>2, <1>4, <2>1 DEF Spoilt, Disturbs
<1> QED
  BY <1>1, <1>3, <1>4 DEF Disturbs

Copying(k) == kpc[k] \in {"fill", "reopen", "send"}

(* A step that spares a child's file, its copy and its own state.          *)
LEMMA CopySpared ==
  ASSUME ReadersOK, NEW k \in Kids, CopyOK(k),
         File(k)' = File(k), Copying(k) => data'[File(k)] = data[File(k)],
         kpc'[k] = kpc[k], pos'[k] = pos[k], got'[k] = got[k], src'[k] = src[k],
         Copying(k) => tname'[k] = tname[k],
         Copying(k) /\ tname[k] # None =>
           /\ temp'[tname[k]] = temp[tname[k]]
           /\ \A i \in Kids : tname[i] = tname[k] => tdata'[i] = tdata[i],
         TempsOK
  PROVE  CopyOK(k)'
<1>1. kpc[k] = "fill" \/ kpc[k] = "reopen" => tname[k] # None /\ tname[k] \in Seconds
  BY DEF ReadersOK, ReaderOK, TempsOK
<1>2. kpc[k] = "fill" => tdata'[src[k]] = tdata[src[k]]
  BY <1>1 DEF Copying, ReadersOK, ReaderOK
<1>3. kpc[k] = "reopen" /\ temp[tname[k]] # None => tdata'[temp[tname[k]]] = tdata[temp[tname[k]]]
  BY <1>1 DEF Copying, ReadersOK
<1>4. kpc[k] = "send" /\ src[k] # File(k) => tdata'[src[k]] = tdata[src[k]]
  BY DEF Copying, ReadersOK, ReaderOK
<1> QED
  BY <1>1, <1>2, <1>3, <1>4 DEF CopyOK, Copying

LEMMA SourceIsFile ==
  ASSUME ChildrenTypeOK, JobsOK, ReadersOK, NEW k \in Kids, kpc[k] = "send", CopyOK(k)
  PROVE  Source(k) = data[File(k)]
<1>1. kid[k] = "alive" /\ (src[k] = File(k) \/ src[k] \in Kids)
  BY DEF ReadersOK, ReaderOK
<1>2. File(k) \in Names
  BY <1>1, FileIsName
<1>3. Names \cap Kids = {}
  BY TftpConstantsOK
<1> QED
  BY <1>1, <1>2, <1>3 DEF Source, CopyOK

LEMMA CopiesCorrect == TftpSpec => []CopiesOK
<1>1. TftpInit => CopiesOK
  BY DEF TftpInit, CopiesOK, CopyOK
<1>2. /\ ChildrenTypeOK /\ TempsOK /\ JobsOK /\ AliveHaveMet /\ ReadersOK /\ CopiesOK
      /\ [TftpNext]_tsvars
      => CopiesOK'
  <2> SUFFICES ASSUME ChildrenTypeOK, TempsOK, JobsOK, AliveHaveMet, ReadersOK, CopiesOK,
                      [TftpNext]_tsvars, NEW j \in Kids, ~ Spoilt(j)'
               PROVE  CopyOK(j)'
    BY DEF CopiesOK
  <2>0. None \notin Seconds /\ None \notin Kids /\ j \notin full'
    BY TftpConstantsOK DEF Seconds, Spoilt
  <2>1. CASE ~ Copying(j)'
    BY <2>1 DEF Copying, CopyOK
  <2>2. kid[j] # "unborn" => CopyOK(j) /\ File(j)' = File(j)
    BY SpoiltStays, StepsForward DEF CopiesOK, File
  <2>3. Copying(j) => /\ kid[j] = "alive" /\ data[File(j)] \in Seq(Blocks) /\ job[j].op = "RRQ"
                      /\ File(j) \in Names
    BY FileIsName DEF Copying, ReadersOK, ReaderOK
  <2>4. \A k \in Kids : k # j /\ Copying(j) /\ kid[k] = "alive" => k \in met'[j]
    BY <2>3, StepsForward DEF AliveHaveMet
  <2>5. CASE Tick \/ Ignore \/ HandlerRuns \/ UNCHANGED tsvars
    <3>1. UNCHANGED <<kpc, job, data, temps, reads>>
      BY <2>5 DEF Tick, Ignore, Datagram, HandlerRuns, tsvars
    <3>2. ~ Copying(j) => ~ Copying(j)'
      BY <3>1 DEF Copying
    <3> QED
      BY <2>1, <2>2, <2>3, <3>1, <3>2, CopySpared DEF temps, reads
  <2>6. ASSUME NEW r \in Requests, NEW k \in Kids, Receive(r, k) PROVE CopyOK(j)'
    <3>1. /\ kid[k] = "unborn" /\ UNCHANGED <<data, temps, reads>>
          /\ kpc' = [kpc EXCEPT ![k] = "open"]
      BY <2>6 DEF Receive, Datagram, Born, Moves
    <3>2. ~ Copying(j) => ~ Copying(j)'
      BY <3>1 DEF Copying, TempsOK
    <3>3. Copying(j) => kpc'[j] = kpc[j]
      BY <2>3, <3>1 DEF TempsOK
    <3> QED
      BY <2>1, <2>2, <2>3, <3>1, <3>2, <3>3, CopySpared DEF temps, reads
  <2>7. ASSUME NEW k \in Kids, OpenRefused(k) \/ Fail(k) \/ Done(k) PROVE CopyOK(j)'
    <3>1. /\ UNCHANGED <<job, data, tname, tdata, reads>> /\ kid[k] = "alive"
          /\ \E pc \in {"failed", "done"} : kpc' = [kpc EXCEPT ![k] = pc]
          /\ \A s \in Seconds : temp'[s] = temp[s] \/ s = tname[k]
      BY <2>7 DEF OpenRefused, Fail, Done, RemoveTemp, At, Exits, Ends, Moves, temps, reads, TempsOK
    <3>2. ~ Copying(j) \/ j = k => ~ Copying(j)'
      BY <3>1 DEF Copying, TempsOK
    <3>3. ASSUME Copying(j), j # k PROVE CopyOK(j)'
      <4>1. kpc'[j] = kpc[j]
        BY <3>1, <3>3
      <4>2. tname[j] # None => tname[k] # tname[j]
        BY <2>4, <3>1, <3>3 DEF Spoilt, Disturbs
      <4>3. tname[j] # None => temp'[tname[j]] = temp[tname[j]]
        BY <3>1, <4>2 DEF TempsOK
      <4> QED
        BY <2>2, <2>3, <3>1, <3>3, <4>1, <4>3, CopySpared DEF reads
    <3> QED
      BY <2>1, <3>2, <3>3
  <2>8. ASSUME NEW k \in Kids, Open(k) PROVE CopyOK(j)'
    <3>1. /\ UNCHANGED <<job, temps, pos, got>> /\ kpc[k] = "open" /\ kid[k] = "alive"
          /\ \A i \in Kids : i # k => kpc'[i] = kpc[i] /\ src'[i] = src[i]
          /\ kpc'[k] # "open"
      BY <2>8 DEF Open, At, Exits, Moves, TempsOK, ReadersOK, ContentsOK
    <3>2. ASSUME j # k, Copying(j) PROVE CopyOK(j)'
      <4>1. ASSUME data'[File(j)] # data[File(j)] PROVE FALSE
        <5>1. job[k].op = "WRQ" /\ File(k) = File(j)
          BY <2>3, <2>8, <3>2, <4>1 DEF Open, OpenForWriting, ReadersOK, ContentsOK
        <5>2. job[k] \in Requests
          BY <3>1, FileIsName
        <5>3. Writes(k, File(j))'
          BY <2>2, <2>3, <3>1, <3>2, <5>1, <5>2, TftpConstantsOK DEF Writes, File
        <5> QED
          BY <2>2, <2>3, <2>4, <3>1, <3>2, <5>3 DEF Spoilt, Disturbs
      <4> QED
        BY <2>2, <2>3, <3>1, <3>2, <4>1, CopySpared DEF temps
    <3>3. ASSUME j = k, Copying(j)' PROVE CopyOK(j)'
      <4>1. /\ job[k].op = "RRQ" /\ data' = data /\ data[File(k)] # None /\ kpc'[k] = "send"
            /\ src'[k] = File(k)
        BY <2>8, <3>3 DEF Open, Copying, Exits, Moves, TempsOK, ReadersOK, ContentsOK
      <4>2. pos'[k] = 0 /\ got'[k] = <<>> /\ File(k)' = File(k) /\ File(k) \in Names
        BY <3>1, FileIsName DEF ReadersOK, ReaderOK, File
      <4>3. data[File(k)] \in Seq(Blocks)
        BY <4>1, <4>2 DEF ReadersOK, ContentsOK
      <4> QED
        BY <3>3, <4>1, <4>2, <4>3, AllUpTo DEF CopyOK
    <3>4. j # k /\ ~ Copying(j) => ~ Copying(j)'
      BY <3>1 DEF Copying
    <3> QED
      BY <2>1, <3>2, <3>3, <3>4
  <2>9. ASSUME NEW k \in Kids, TempOpen(k) PROVE CopyOK(j)'
    <3>1. /\ kpc[k] = "temp" /\ kid[k] = "alive" /\ UNCHANGED <<job, data, pos, got>>
          /\ kpc' = [kpc EXCEPT ![k] = "fill"] /\ tname' = [tname EXCEPT ![k] = now]
          /\ now \in Seconds /\ tname[k] = None
      BY <2>9 DEF TempOpen, At, Moves, kvars, TempsOK
    <3>2. \/ /\ temp[now] = None /\ temp' = [temp EXCEPT ![now] = k]
             /\ src' = [src EXCEPT ![k] = k] /\ tdata' = tdata
          \/ /\ temp[now] # None /\ temp' = temp
             /\ src' = [src EXCEPT ![k] = temp[now]] /\ tdata' = [tdata EXCEPT ![temp[now]] = <<>>]
      BY <2>9 DEF TempOpen
    <3>3. temp[now] # None => temp[now] \in Kids /\ tname[temp[now]] = now
      BY <3>1 DEF ReadersOK
    <3>4. ASSUME j # k, Copying(j) PROVE CopyOK(j)'
      <4>1. tname'[j] = tname[j] /\ tname'[k] = now /\ kpc'[j] = kpc[j] /\ src'[j] = src[j]
        BY <3>1, <3>2, <3>4 DEF TempsOK, ReadersOK, ContentsOK
      <4>2. tname[j] # now
        BY <2>0, <2>4, <3>1, <3>4, <4>1 DEF Spoilt, Disturbs
      <4>3. tname[j] # None =>
              /\ temp'[tname[j]] = temp[tname[j]]
              /\ \A i \in Kids : tname[i] = tname[j] => tdata'[i] = tdata[i]
        BY <3>1, <3>2, <3>3, <4>2 DEF TempsOK, ReadersOK, ContentsOK
      <4> QED
        BY <2>2, <2>3, <3>1, <3>4, <4>1, <4>3, CopySpared
    <3>5. ASSUME j = k PROVE CopyOK(j)'
      <4>1. /\ kpc'[k] = "fill" /\ tname'[k] = now /\ pos'[k] = 0 /\ File(k)' = File(k)
            /\ temp'[now] = src'[k] /\ tdata'[src'[k]] = <<>> /\ data'[File(k)] \in Seq(Blocks)
        BY <3>1, <3>2, <3>3 DEF ReadersOK, ReaderOK, ContentsOK, TempsOK, File
      <4> QED
        BY <3>5, <4>1, AllUpTo DEF CopyOK
    <3>6. j # k /\ ~ Copying(j) => ~ Copying(j)'
      BY <3>1 DEF Copying
    <3> QED
      BY <2>1, <3>4, <3>5, <3>6
  <2>10. ASSUME NEW k \in Kids, TempFill(k) PROVE CopyOK(j)'
    <3>1. /\ kpc[k] = "fill" /\ kid[k] = "alive" /\ UNCHANGED <<job, data, got, src, temp, tname>>
          /\ \A i \in Kids : i # k => kpc'[i] = kpc[i] /\ pos'[i] = pos[i]
      BY <2>10 DEF TempFill, At, Moves, kvars, TempsOK, JobsOK
    <3>2. /\ src[k] \in Kids /\ tname[src[k]] = tname[k] /\ tname[k] # None /\ tname[k] \in Seconds
          /\ data[File(k)] \in Seq(Blocks) /\ pos[k] \in Nat
      BY <3>1 DEF ReadersOK, ReaderOK, JobsOK, TempsOK
    <3>3. ASSUME j # k, Copying(j) PROVE CopyOK(j)'
      <4>1. tname[j] # None => tname[k] # tname[j]
        BY <2>4, <3>1, <3>3 DEF Spoilt, Disturbs
      <4>2. \A i \in Kids : i # src[k] => tdata'[i] = tdata[i]
        BY <2>10 DEF TempFill, ReadersOK, ContentsOK
      <4> QED
        BY <2>2, <2>3, <3>1, <3>2, <3>3, <4>1, <4>2, CopySpared
    <3>4. ASSUME j = k PROVE CopyOK(j)'
      <4> DEFINE d == data[File(k)]
                 p == pos[k] + 1
      <4>1. /\ temp[tname[k]] = src[k] /\ pos[k] <= Len(d) /\ tdata[src[k]] = UpTo(d, pos[k])
            /\ File(k)' = File(k) /\ d' = d
        BY <2>2, <3>1, <3>4 DEF CopyOK, TempsOK, File
      <4>2. CASE p <= Len(d)
        <5>1. /\ tdata'[src[k]] = Written(tdata[src[k]], p, d[p]) /\ pos'[k] = p /\ kpc' = kpc
          BY <2>0, <2>10, <3>2, <3>4, <4>2 DEF TempFill, ReadersOK, ContentsOK, JobsOK
        <5>2. Written(UpTo(d, pos[k]), p, d[p]) = UpTo(d, p)
          BY <3>2, <4>2, NextUpTo
        <5>3. tdata'[src'[k]] = UpTo(d, pos'[k])
          BY <3>1, <4>1, <5>1, <5>2
        <5> QED
          BY <3>1, <3>4, <4>1, <4>2, <5>1, <5>3 DEF CopyOK
      <4>3. CASE ~ (p <= Len(d))
        <5>1. kpc'[k] = "reopen" /\ tdata' = tdata
          BY <2>10, <3>1, <4>3 DEF TempFill, Moves, TempsOK
        <5>2. pos[k] = Len(d)
          BY <3>2, <4>1, <4>3
        <5>3. tdata[src[k]] = d
          BY <3>2, <4>1, <5>2, AllUpTo
        <5> QED
          BY <2>0, <3>1, <3>2, <3>4, <4>1, <5>1, <5>3 DEF CopyOK
      <4> QED
        BY <4>2, <4>3
    <3>5. j # k /\ ~ Copying(j) => ~ Copying(j)'
      BY <3>1 DEF Copying
    <3> QED
      BY <2>1, <3>3, <3>4, <3>5
  <2>11. ASSUME NEW k \in Kids, TempReopen(k) \/ SendBlock(k) \/ WriteBlock(k), j # k PROVE CopyOK(j)'
    <3>1. /\ UNCHANGED <<job, temps>> /\ kid[k] = "alive"
          /\ kpc'[j] = kpc[j] /\ src'[j] = src[j] /\ pos'[j] = pos[j] /\ got'[j] = got[j]
          /\ data' = data \/ WriteBlock(k)
      BY <2>11 DEF TempReopen, SendBlock, WriteBlock, At, Exits, Moves, TempsOK, JobsOK, ReadersOK, ContentsOK
    <3>2. ASSUME Copying(j), data'[File(j)] # data[File(j)] PROVE FALSE
      <4>1. kpc[k] = "write" /\ kpc' = kpc /\ File(k) = File(j)
        BY <2>3, <3>1, <3>2 DEF WriteBlock, At, ReadersOK, ContentsOK
      <4>2. job[k] \in Requests /\ job[k].op = "WRQ"
        BY <3>1, <4>1, FileIsName DEF JobsOK
      <4>3. Writes(k, File(j))'
        BY <2>2, <2>3, <3>1, <3>2, <4>1, <4>2, TftpConstantsOK DEF Writes, File
      <4> QED
        BY <2>2, <2>3, <2>4, <2>11, <3>1, <3>2, <4>1, <4>3 DEF Spoilt, Disturbs
    <3>3. ~ Copying(j) => ~ Copying(j)'
      BY <3>1 DEF Copying
    <3> QED
      BY <2>1, <2>2, <2>3, <3>1, <3>2, <3>3, CopySpared DEF temps
  <2>12. ASSUME TempReopen(j) PROVE CopyOK(j)'
    <3>1. /\ kpc[j] = "reopen" /\ UNCHANGED <<job, data, temps, got>>
      BY <2>12 DEF TempReopen, At
    <3>2. CASE temp[tname[j]] = None
      BY <2>1, <2>12, <3>2 DEF TempReopen, Exits, Moves, Copying, TempsOK
    <3>3. CASE temp[tname[j]] # None
      <4>1. /\ kpc'[j] = "send" /\ src'[j] = temp[tname[j]] /\ pos'[j] = 0 /\ got'[j] = <<>>
        BY <2>12, <3>1, <3>3 DEF TempReopen, Moves, Beginning, TempsOK, JobsOK, ReadersOK, ReaderOK, ContentsOK
      <4>2. data[File(j)] \in Seq(Blocks) /\ File(j)' = File(j) /\ tdata[temp[tname[j]]] = data[File(j)]
        BY <2>2, <2>3, <3>1 DEF CopyOK, Copying
      <4> QED
        BY <3>1, <4>1, <4>2, AllUpTo DEF CopyOK, temps
    <3> QED
      BY <3>2, <3>3
  <2>13. ASSUME SendBlock(j) PROVE CopyOK(j)'
    <3>1. /\ kpc[j] = "send" /\ UNCHANGED <<kpc, job, data, temps, src>>
          /\ data[File(j)] \in Seq(Blocks) /\ File(j)' = File(j) /\ CopyOK(j) /\ pos[j] \in Nat
      BY <2>2, <2>3, <2>13 DEF SendBlock, At, Copying, JobsOK
    <3>2. Source(j) = data[File(j)]
      BY <3>1, SourceIsFile
    <3>3. /\ pos[j] < Len(data[File(j)]) /\ pos'[j] = pos[j] + 1
          /\ got'[j] = Append(got[j], data[File(j)][pos[j] + 1])
      BY <2>13, <3>2 DEF SendBlock, JobsOK, ReadersOK, ContentsOK
    <3>4. got[j] = UpTo(data[File(j)], pos[j])
      BY <3>1 DEF CopyOK
    <3>5. got'[j] = UpTo(data[File(j)], pos'[j])
      BY <3>1, <3>3, <3>4, NextUpTo
    <3> QED
      BY <3>1, <3>3, <3>5 DEF CopyOK, temps
  <2>14. ASSUME WriteBlock(j) PROVE CopyOK(j)'
    BY <2>1, <2>14 DEF WriteBlock, At, Copying
  <2> QED
    BY <2>5, <2>6, <2>7, <2>8, <2>9, <2>10, <2>11, <2>12, <2>13, <2>14 DEF TftpNext, Child
<1> QED
  BY <1>1, <1>2, JobsCorrect, Acquainted, TempsCorrect, ReadersCorrect, TftpImplementsChildren,
     ChildrenType, PTL DEF TftpSpec

(* A read that is done has sent the whole file as it is, straight or over  *)
(* a temporary file, unless a child it met wrote the file or converted in  *)
(* the same second, or the disk was full when it made its copy.            *)
THEOREM ReadWhole == TftpSpec => GetWhole
<1>1. /\ ChildrenTypeOK /\ TempsOK /\ JobsOK /\ ReadersOK /\ CopiesOK /\ [TftpNext]_tsvars
      => \A k \in Kids :
           /\ kpc[k] = "send" /\ kpc'[k] = "done"
           /\ k \notin full
           /\ ~ (\E j \in met[k] : Disturbs(j, k))
           => got[k] = data[File(k)]
  <2> SUFFICES ASSUME ChildrenTypeOK, TempsOK, JobsOK, ReadersOK, CopiesOK, [TftpNext]_tsvars,
                      NEW k \in Kids, kpc[k] = "send", kpc'[k] = "done", ~ Spoilt(k)
               PROVE  got[k] = data[File(k)]
    BY DEF Spoilt
  <2>1. PICK j \in Kids : Done(j)
    BY DEF TftpNext, Child, Tick, Ignore, Datagram, HandlerRuns, Receive, OpenRefused, Open, TempOpen,
           TempFill, TempReopen, SendBlock, WriteBlock, Fail, Exits, Moves, At, tsvars, TempsOK
  <2>2. j = k
    BY <2>1 DEF Done, Exits, Moves, TempsOK
  <2>3. CopyOK(k) /\ Source(k) = data[File(k)]
    BY SourceIsFile DEF CopiesOK
  <2>4. pos[k] >= Len(data[File(k)]) /\ pos[k] \in Nat /\ data[File(k)] \in Seq(Blocks)
    BY <2>1, <2>2, <2>3 DEF Done, At, JobsOK, ReadersOK, ReaderOK
  <2>5. pos[k] <= Len(data[File(k)]) /\ got[k] = UpTo(data[File(k)], pos[k])
    BY <2>3 DEF CopyOK
  <2>6. pos[k] = Len(data[File(k)])
    BY <2>4, <2>5
  <2> QED
    BY <2>4, <2>5, <2>6, AllUpTo
<1> QED
  BY <1>1, JobsCorrect, TempsCorrect, ReadersCorrect, CopiesCorrect, TftpImplementsChildren,
     ChildrenType, PTL DEF TftpSpec, GetWhole
=============================================================================
