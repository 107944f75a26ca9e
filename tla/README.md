# Verification of ECEN-602 Network Programming

TLA+ models of the programs in this repository, the TLC runs that check them on
small instances, and TLAPS proofs about them for every value of their constants.
`PROJECT.json` is the machine-readable index: components, runs, the definitions of
the models with the source lines they stand for, hazards, findings, theorems.

    tlc -workers 2 -config MCChat.cfg MCChat      # one run
    tlapm ChatServerProofs.tla                    # one proof module

Contents: 1 the system, 2 the models, 3 the runs, 4 the findings, 5 the proofs,
6 assumptions and limits, 7 the plan.


## 1. The system

Five independent course assignments. `PA2` etc. stand for `src/Programming_Assignment_2`
etc.; there is no code shared between them, although some helpers were copied.

### PA2: chat room (SBCP) — the richest component

*Server* (`server.c`, `helper.c`): one process, one thread, a `select` loop.

| state | meaning |
|---|---|
| `clients[]`, `client_count` | the table of users, `max_client` cells, name and descriptor |
| `set1`, `max_fd` | the descriptors watched; `set1` is never zeroed |
| `set2` | what `select` reported, served by increasing descriptor |
| kernel: open descriptors | `accept` returns the lowest free one |

Operations: accept and wait for the JOIN, answer ACK (with the names present) or
NAK (full room, duplicate name), announce the new user; forward a SEND; forward an
IDLE; on the end of a stream announce the departure, remove the user, close. Every
forwarding is a loop of blocking `send`s. A failing system call ends the process.

*Client* (`client.c`): connects, sends JOIN, then a main thread selects on the
standard input and the socket; a second thread, `vSendIdleMessage`, waits on a
condition variable and sends IDLE after ten silent seconds. They share
`isIdleMessageSent`, a mutex that guards only a part of its uses, and the socket.

Interaction: TCP streams of fixed-size frames; a NAK ends the client.

Hard: recycled descriptors and table cells; a snapshot (`set2`) that ages while it
is served; broadcasts half done while clients come, go and are reset; blocking
calls; the race between the two threads of a client. Correct means: table, watch
set and open descriptors agree; a frame goes to the users, under the right name;
every user's picture of the room is the table; a JOIN is answered; the server ends
for a named cause only; IDLE means silence, and a new one is decided on only after a new line.

### PA3: TFTP server

The main loop receives a request on the well-known port, forks; the child opens a
socket of its own and runs `handle_message`: parse, open the file (through a
temporary file in netascii mode), then the RRQ loop (send a block, await its ACK)
or the WRQ loop (await a block, write it, acknowledge it), with `TIMEOUT` and
`MAX_RETRIES` per block. State of a child: `block_number` (16 bits), `retry_count`,
the file, `exit_flag`. State shared by the children: the files of the directory, the
temporary ones included. The parent keeps nothing but the handler of SIGCHLD. The
client is the packaged `tftp` (PA3/README.md:55).

Hard: UDP loses, repeats and reorders; both sides have timeouts; numbers wrap;
requests are repeated; children share the file system; signals merge. Correct means:
blocks stored in order and once, success reported only when it is true, every child
ends, one loss is repaired; a file is what one client sent, all of it, and a
temporary file is gone after its child.

### PA4: HTTP proxy

A `select` loop that serves GET requests from a ten-entry cache: miss (choose the
least recently used entry, fetch, store), fresh hit, expired hit (conditional GET,
304 / 404 / 200). State: `sCache_table` (URL, file name, time of the last use, expiry,
dates being strings), the files, `set1`/`set2`. The proxy waits for the origin
while it serves a client. An error of a request returns from `main`. The client
(`client.c`) sends one request and stores the answer.

Hard: the age of an entry against the time of its last use, eviction, files named by
the last component of a path, error exits, date comparison. Correct means: a page
has one entry, an entry has its file, a client gets the page it asked for and not an
outdated one, the least recently used entry goes, every client is answered.

### PA1: echo server and client

The server forks a process per connection; it reads a line (`iReadLine`, a character
at a time, up to a newline or a full buffer), writes it back (`writen`, as often as
it takes) and ends with its client. The parent installs a SIGCHLD handler that waits
for one child, as the TFTP server does. The client alternates between its
input and the connection.

Hard: lines longer than the buffer and lines without an end, partial reads and
writes, killed clients, signals that merge, failing calls that are reported and then
ignored. Correct means: what comes back is what was sent; a child ends after its
client and not before; the handler does not hold the parent.

### PA5: ns-2 script

Topologies and traffic for a simulator. No program state of its own.


## 2. The models

| module | extends | stands for |
|---|---|---|
| `ChatServer` | | PA2 server, open: its system calls return anything they may |
| `Chat` | `ChatServer` | the server, its clients' main threads, TCP connections |
| `ChatClient` | | the two threads of one client, the flag, the condition, time |
| `FileTransfer` | | abstract: what a transfer promises, either direction |
| `TftpLink` | | what both transfer loops share: datagrams, clocks, the client's end |
| `TftpRead` | `TftpLink` | the RRQ loop; implements `FileTransfer` |
| `TftpWrite` | `TftpLink` | the WRQ loop; implements `FileTransfer` |
| `Children` | | the processes of a forking server, SIGCHLD and its handler (PA1, PA3) |
| `TftpServer` | `Children` | PA3 around the loops: datagrams, children, files |
| `EchoServer` | `Children` | PA1: parent, children, clients, streams |
| `HttpDate` | | the dates of PA4 and their comparison, as functions |
| `Proxy` | `HttpDate` | PA4: the select loop, the cache, the origin, the clients |
| `ChatServerProofs`, `ChatProofs`, `ChatClientProofs`, `ChildrenProofs`, `EchoProofs`, `TftpServerProofs`, `ProxyProofs` | the module they are named for | section 5 |
| `TftpTransferProofs` | `TftpRead`, `TftpWrite` | section 5 |
| `MCChatServer`, `MCChat`, `MCTftpServer`, `MCEchoServer`, `MCProxy` | | sets for the instances TLC checks |

`Children` is the abstract specification of what both forking servers do with their
processes: `EchoServer` and `TftpServer` EXTEND it, use its actions as parts of
theirs, and are proved to implement `ChildrenSpec`.

### ChatServer

A step is the code between two system calls whose outcome matters; `pc` says which
call is next.

| `pc` | the code is at | actions |
|---|---|---|
| `select` | `select` (server.c) | `Select` |
| `scan` | the `for` loop over `set2` | `ScanDone`, `Accept`, `AcceptFails`, `Forward`, `Hangup`, `RecvFails` |
| `join` | the `recv` of `join_message_process` | `Refuse`, `Admit`, `ReplyFails` |
| `cast` | one of the four `send` loops | `SendTo`, `SendFails`, `CastDone` |
| `exited` | `exit(-1)` or SIGPIPE; `why` names the call | |

Memory the program never initialises is left open: `Garbage` is what `set1` may hold
before `FD_SET`, `Junk` what a cell of the `malloc`ed table may hold; when a lookup
loop finds nobody, the name it would have filled is any name. Cell `MaxClient` of
`clients` is the memory just past the array, which `index <= client_count`
(helper.c:274) may read. `set1` keeps all its bits, those above `max_fd` too.

### Chat

Adds clients and connections to the actions of `ChatServer`, whose parameters it
resolves: `SrvSelect` reports exactly the readable connections, `SrvForward` takes
the head of the stream `up[c]`, `SrvSendTo` waits while `down[c]` is full. Of the standard
descriptors whose bits were in `set1` from the start it may report any, since nothing
is known of them, and `SrvRecvFails` and `SrvSendFails` include the calls on them: they are
no sockets, so that `recv` and `send` return -1. `SrvAcceptFails` is the failing
`accept`. A
connection has two bounded streams of frames and `peer`, what the kernel of the
server has heard: the end of the stream (`fin`), a reset, pending (`due`), arrived
(`rst`) or already reported (`dead`). An interrupted client leaves a `fin`, or a
reset when frames for it were unread or still under way; this is what makes `recv`
return 0 or -1 and `send` succeed or raise SIGPIPE. `view[c]` is what the user
has been shown: it exists for the properties and no action reads it.

### ChatClient

One step per access to shared memory outside the mutex, one per critical section.
`prompt` (chosen at the start) says whether a runnable thread runs within the second;
with `FALSE` a thread may be preempted for as long as it takes. `wire` holds the frames sent,
each with the number of lines the user had typed when it was decided on: for an IDLE
that is when the flag was tested, `decided`, which may be long before it is sent. Both
are history. `valid` is what the
unassigned `t.tv_nsec` comes to: below 10^9, or not, in which case the wait fails at once.

### FileTransfer, TftpLink, TftpRead, TftpWrite

`FileTransfer` has the blocks the receiver stored and the status of both sides, and
four actions: store the next block, report success (only after the receiver), or fail.
`TftpRead` maps `got <- stored`, sender to the child (`spc`) and receiver to the
client (`cpc`); `TftpWrite` the other way round.

A datagram carries its kind, its block number modulo `Mod` (2^16 in the code) and,
for DATA, the place of the payload in the file, which neither program can see: with
it the model knows when a wrapped number is mistaken for another. Channels lose,
duplicate and reorder; `sclock` and `cclock` count the seconds to the two timeouts.
The client is external: RFC 1350 with the habits of the BSD program.


### Children

`kid[k]` goes from unborn to alive to zombie to reaped. A signal that arrives while one is
pending is lost (`unsignalled` counts these ends, and those before `signal` is
called); while the handler runs the next one stays pending; `HandlerWaits` is
`wait(NULL)`, which may take any zombie and would block if there were none.

### TftpServer

`Receive` forks for a datagram, also for one that comes again; each child then goes
`open` → (`temp` → `fill` → `reopen` →) `send` or `write` → `done` or `failed`.
The transfer is what `FileTransfer` promises of the loops: blocks in order and once, or a
failure at any point (`Fail`). A block of a file is the process that wrote it and
its number, so that mixed files can be told. `temp[s]` is the temporary file whose name
was drawn in second `s`: `srand(time(0)); rand()` is a function of the second.
An open file is known by who made it (`src[k]`), not by its name, as the kernel does:
a file that is removed and made again under the same name is another one, while one that is
opened again for writing is cut for all who have it open. A block may meet a full disk in
`WriteBlock` and in `TempFill`, where the converted copy is made: neither looks. `full`,
`last` and `met` are history that no action depends on, except that a child whose disk
was full once stores nothing more.

### EchoServer

A character is its position in the input of its client; `Inputs` says which are
newlines. Streams hold `Cap` characters, and a `write` takes what there is room for.
`kpc[c]` says where the child of `c` is; `refused` marks a connection for which `fork`
failed: the parent closes the only descriptor. `NoConn` is the connection
of a failed `accept`, for which a child is forked too; it reads from -1 and runs for ever.

### HttpDate and Proxy

A date is a record of the fields its string has, with the month as three letters.
`iMonthCoverter` and `iTime_Comparison_Func` are the code's, and `DateOrder` compares
them with the order of time over the ends of minutes, days, months and years.

`Proxy` serves one client per step, except that it waits for the origin in between:
`Miss` chooses the entry and opens the file, `Expired` sends If-Modified-Since; then
`OriginAnswers` (external), then `Store` or `Revalidate`. Meanwhile the clock runs,
pages change and clients arrive. `Victim` is the loop over the table, `oldest` keeping its
value from one miss to the next as `iOldest_Entry` does. `Late` is a set of outcomes,
because the comparison of an expiry that is no date reads uninitialised variables.
`StaleBit` is a bit that `set1`, never zeroed, had from the start: it may be reported at
any time, and ends the proxy. `fetched` is history, for the properties: when an entry's
page was last asked for from the origin, and when the entry was last used, whatever its stamp
says. `Asks` bounds what each client asks for.


## 3. The runs

States are those of one run of TLC with the bounds of the cfg.

| run | cfg | states | shows |
|---|---|---|---|
| `chat_server` | `MCChatServer.cfg` | 0.50 M | 4 names, 3 places, 6 descriptors, every content of `set1`: `UniqueUsers`, `WatchIsTable`, `NoDescriptorLost`, `SelectNeverFails`, `CastNamesSender`, `CastToMembers`, `SnapshotStable`, and the inductive invariant `IInv` |
| `chat` | `MCChat.cfg` | 3.4 M | 3 clients, two of one name, 2 places, all of whom may be killed, `set1` empty or with the bit of the standard input: `ConnectionsMatch`, `RosterAgrees`, `HeadMakesSense`, and `EndsForACause`: a failing `accept`, a stale standard descriptor or a reset client, and nothing else, ends the server |
| `chat_live` | `MCChatLive.cfg` | 0.21 M | the same, one of whom may be killed, fair: `JoinAnswered`, `LineForwarded` |
| `chat_client` | `MCChatClient.cfg` | 0.96 M | four seconds, three lines, spurious wake-ups, both paces: `IdleOncePerLine`, `NoFourIdles`, `IdleAfterSilence` |
| `tftp_read` | `MCTftpRead.cfg` | 0.38 M | 4 blocks numbered modulo 3, two losses, one duplicate, one overtaking, a client that aborts or dies: `ReadTransfers` (implements `FileTransfer`), `ReadEnds`, `ReadArrives` |
| `tftp_write` | `MCTftpWrite.cfg` | 0.46 M | the same for the other direction: `WriteTransfers`, `WriteEnds`, `WriteArrives` |
| `tftp_server` | `MCTftpServer.cfg` | 11.5 M | 3 datagrams out of 5 requests for 2 files, 2 seconds: `FileIsLastWrite`, `NoTempLeft`, `GetWhole`, `ZombiesAccounted` |
| `echo` | `MCEchoServer.cfg` | 0.15 M | 2 clients and a failed `accept`, a buffer of 3, streams of 2, fair: `EchoFaithful`, `ChildFollowsClient`, `HandlerNeverBlocks`, `EchoAnswered`, `ConnectionCloses` |
| `proxy` | `MCProxy.cfg` | 0.62 M | 2 clients, 4 requests, 4 pages, 2 entries, 3 minutes over a new year, fair: `OneEntryPerPage`, `FileOfEntry`, `RightPage`, `DatesRight`, `VictimIsOldest`, `StaleOnlyAfterUse`, `RequestAnswered` |
| `client_lost`, `echo_last`, `proxy_stale` | `MCChatClientLost.cfg`, `MCEchoLast.cfg`, `MCProxyStale.cfg` | | the disagreements of section 4 |

Why the bounds are enough.

* *Chat.* Two places and three clients of two names make every case of `check_name`
  happen with the table empty, partly filled and full; a place that is freed and
  taken again reuses both the cell and the descriptor; a removal from the first
  cell moves the other. Three places in `chat_server` add a removal from the
  middle. `FdLimit = 6` leaves room for a fourth connection that is refused and for
  stale bits of `Garbage` above `max_fd` and below the limit. `Cap = 2` lets the
  stream of a user hold an ACK and an announcement; one line for each user is
  enough to interleave a broadcast with joins and hangups. One stale bit of a standard
descriptor is enough for `recv`, and for a `send` in the middle of a broadcast, to meet
it; its rival, the server without any, is there as well. The proofs of section 5
  remove these bounds, those of the clients and their streams included.
* *Client.* With a wait of two seconds, four seconds hold an IDLE, a line and a
  second IDLE, or a line at each moment of one wait, and more of both where the time to wait
  is not valid and the wait returns at once: three lines allow four IDLEs. All three properties are proved
  without bounds.
* *TFTP.* Four blocks numbered modulo three wrap, and end, once. Three retries of
  one second against two of two seconds let each side time out first and make both
  give up. Two losses hit a block and its repetition; a duplicate and an
  overtaking give the late ACKs and blocks. The real values (4 s, 10 times, 2^16)
  keep the same order of events, and `ReadTransfers` and `WriteTransfers` are proved for
  any: the bounds matter to the liveness properties only.
* *TFTP server.* Two children are enough to disturb each other, the third is there
  to disturb a pair, or to be reaped in the place of another. The requests contain a reader and a writer of
  one file, two of one file in different modes, a refused one and a file that is not there at
  first; the old file is longer than the new one, so that a rest of it would show. Two
  seconds let two children share a name, or not. The four properties are proved without bounds.
* *Echo.* With a buffer of three, a line of two characters fills it and leaves its newline
  for the next line; the other input has an empty line and a last line that is cut.
  Streams of two characters, for lines of two, are at times too small for a write
  and at times not. `EchoFaithful` is proved without bounds.
* *Proxy.* Two entries for three pages that can be stored make every miss but the
  first two evict something; four requests hold two fetches, a use or a renewal of the older
  entry and a third fetch, which must then evict the other one: the least recently used entry
  is not the one fetched first. They also hold a fetch, a use and a revalidation of one
  page, or a fetch, an eviction and a second fetch. Both clients ask for `p` and `r`, one of them
  for anything else (`Asks`). `p` and `q` share a file
  name, `root` has none, `r` does not exist, `q` has an Expires header that is no
  date. All but `RequestAnswered` is proved without bounds.

Fairness. `FairChat` asks that the server and each client's program take a step
when they can: they are ordinary processes, and what they wait for (a frame, room in
a stream) stays there until they take it. Nothing is asked of users: to connect, to
type and to leave are never fair. `FairRead` and
`FairWrite` ask that both programs run, that time passes and that a datagram to a
side that has ended disappears; losses, duplicates, aborts and deaths are never
fair. Time cannot pass a timeout that is due. `ReadArrives` and `WriteArrives` ask in addition that
datagrams arrive before the clocks advance (`prompt`), that nothing is duplicated and at most one
datagram lost: beyond that the loops may abort a transfer that could go on, see the
hazards. `EchoLiveSpec` asks that the processes run and signals are delivered;
`ProxyLiveSpec` that the proxy runs and the origin answers a request it has
accepted. In both `accept` may fail, but not for ever while a connection waits: the
strong fairness of `Accept`. Which client `select` serves first, what the origin says and
who is killed are never fair.

Deadlock is not checked: the server may exit, users come once and type a bounded
number of lines, transfers end.

Every property has a mutant in `PROJECT.json`: an operator next to the one it
replaces, with a plausible mistake, for which the run fails.


## 4. Findings

Each is a run that TLC ends with a counterexample to what a document of the
repository, or a comment or test in its code, says.

| run | property | what happens |
|---|---|---|
| `client_lost` | `SilenceAnnounced` | A line typed between the test and the setting of `isIdleMessageSent` has its clearing overwritten: the silence after it is never reported. |
| `echo_last` | `LastLineEchoed` | A last line without a newline, shorter than the buffer, is not echoed: the client waits for the echo and the child for more of the line, for ever. |
| `proxy_stale` | `ModifiedIsFetched` | A page is fetched, changes, is served from the cache while fresh, then expires: If-Modified-Since carries the time it was last served, the origin says 304, and the old copy is served. |

`StaleOnlyAfterUse`, which holds, says that a use of the entry at a later moment than it was
asked for, as the one in between here, is the only way.

Behaviours met while modelling that the properties allow for, and say so:

* A client of the chat that is killed with unread frames makes `recv` return -1, or `send`
  raise SIGPIPE: the server ends for everybody. So it does when `accept` fails, for instance
  for want of descriptors, and when a standard descriptor is readable, or a frame is
  broadcast, while its bit happened to be in `set1`, which is never zeroed
  (`EndsForACause` names these three).
* The client of the chat decides once per line to send IDLE (`IdleOncePerLine`), but the frames
  of its two threads may leave in another order than they were decided on: the server may
  receive up to three IDLEs without a line between them (`NoFourIdles`).
* With full streams, say of one frame, and three lines each, two clients and the chat server
  wait for each other in blocking sends; a client that connects and does not send its
  JOIN holds the server in `recv`. `JoinAnswered` and `LineForwarded` are promised
  without these.
* A full chat room is noticed after `accept` has written one address past
  `client_addresses` (helper.c:87), an array nobody reads.
* PA3: `fwrite` never returns a negative number, so that a full disk goes unnoticed and the
  transfer is reported as done; so it does while a file is converted, where the results of
  `fputc` and `fclose` are ignored, and the copy that was cut is sent as the file; a refused write request has already cut the file; a
  repeated request datagram starts a second child on the same file; two netascii
  readings of one second use one temporary file. `FileIsLastWrite` and `GetWhole` name
  these, and hold of every other transfer of the model; an error of the disk while an open
  file is read, which the code takes for its end, is not in it (section 6).
* Children that end together leave zombies, in spite of the comment "To avoid zombie
  process" (PA1 server.c:50). They are counted by `ZombiesAccounted`.
* PA4: a bad request, a name that does not resolve, an origin that refuses, a path of
  slashes alone, a client that has gone or a stale bit of `set1` ends the proxy for all
  (`RequestAnswered` excepts them). Pages whose paths end alike share a file (`SharesName`). An
  error of the origin is stored as the page, and is confirmed by a later 304. The
  default expiry adds two to the minute without a carry (`TwoMinutes`). A 304 sets
  a new expiry, which without an Expires header has run out at once, and does not count as a
  use for the eviction.


## 5. The proofs

Every safety property of the runs that hold is a theorem, for every value of the
constants; liveness is model-checked. All proofs are checked by `tlapm` to the last leaf.

What is assumed are the named `ASSUME`s on the constants, which TLC evaluates in the runs:
the listener is one of the descriptors and stale bits are bits of descriptors
(`ConstantsOK`); each client has a name, lines have numbers (`ChatConstantsOK`); the wait is
a positive number of seconds (`ClientConstantsOK`); a buffer has room for a character and a
stream for one (`EchoConstantsOK`); values that stand for nothing are none of the others, and
no file has the name of a process (`TftpConstantsOK`, `ProxyConstantsOK`). Two say more.
`NumbersSuffice` (`TftpLink`): one datagram is overtaken by fewer others than there are
block numbers less one; without it a wrapped number is taken for a new one, and the transfer
is wrong. `MomentsOK` (`HttpDate`): a date is one `gmtime` gives, and the minutes of
`Clock` follow one another, with no more than this said of how days and months end. Theorems that count zombies assume that
the processes are finitely many. There is no bound on names, users, descriptors, clients,
lines, files, blocks, timeouts, retries, requests, pages or entries.

**ChatServerProofs.** `Spec => []IInv` (`Invariance`), then `TypeCorrect`,
`NoTwoUsersAlike`, `DescriptorsAgree`, `DescriptorsKept`, `SelectSucceeds`,
`BroadcastsAreRight`, `BroadcastsReachUsers` and `WaitingUsersStay`, which are the
properties of the run `chat_server`.

The properties are not inductive by themselves. `WatchIsTable` speaks of the bits up
to `max_fd`; a stale bit above it would become a watched one as soon as `max_fd` rises
over it. It does not, because `accept` takes the lowest free descriptor: all up to
the listener are open, and so are those of the users (`NoDescriptorLost`), so a
new one that is above `max_fd` can only be `max_fd + 1`, unless a hangup has left a
gap below, in which case it is in the gap and `max_fd` stays. This is the conjunct
`cur <= max_fd + 1` of `Alive`. `Alive` also says that the users lie between the
listener and `max_fd`, that what `select` reported is still watched when its turn
comes, and that the connection whose JOIN is awaited is neither a user's nor one
waiting in `set2`; from which `SnapshotStable` and the lookups of `broadcast_message`
follow (`LookupFinds`: `index <= client_count` never gets to the cell past the table,
because the descriptor served is always a user's).

The proof has one lemma per handler of the loop and under it one step per conjunct of
`IInv` the handler disturbs; the removal of a user has a lemma of its own, that the
cells moved down hold the users that remain.

**ChatProofs.** `ChatImplementsServer`: every behaviour of `Chat` is one of
`ChatServer`. So the theorems above hold of the server among its clients too, and `IInv` is
the ground the following stand on. They are four inductions, each using those before.

1. `RoomOK` (`ChatInvariance`): every descriptor of a connection leads to a client of
   its own; a client is in one place (not started, in the queue of `accept`, connected, or
   closed by the server); only a client that has gone has been heard of; what a client
   sends begins with its JOIN. It gives `FramesFindTheirUsers` (`ConnectionsMatch`) and
   `EndsHaveCauses` (`EndsForACause`), for any `set1`: a user's connection is reset only after
   its client has gone, and an answer to a JOIN never meets a reset.
2. `ViewsOK`: what a user will know once it has read all it was sent (`Will`) is a
   picture of exactly those it should know (`ShouldKnow`). It gives
   `PicturesAreTheTable` (`RosterAgrees`). The users of the next state are each one of this
   state's with the same client (`SameUser`, `Carried`), although a hangup moves their cells,
   and the case of a broadcast half done is the difference between `todo` and the rest.
3. `LinesOK` and `LastOK`: the lines of a user on their way to the server are the next
   ones in order, from the number the server has come to; and the last line another user will
   have seen of it is the one before, or the one before the line being broadcast if that
   has yet to reach the other.
4. `SenseOK`: every frame in the stream to a client, not only the first, makes sense to one
   who has read those before it. It gives `FramesMakeSense` (`HeadMakesSense`). The property itself
   speaks of the first frame only and is not inductive: reading it uncovers the second.

`ToldAll`, what a client knows after reading a stream of any length, is a recursive
function. That it exists and that a frame is added at the end (`ToldLast`) or read at the
head (`ToldFirst`) is shown from a least counterexample (`LeastNumber`, from
well-foundedness of the numbers), since induction theorems with an operator as a
parameter are out of reach.

**ChatClientProofs.** `IdleNotRepeated`: `ClientSpec => []IdleOncePerLine`, for every
schedule of the threads, every length of the wait and every value of `t.tv_nsec`: of any two
IDLEs the second was decided on when more lines had been typed than for the first.
The inductive invariant (`DecisionsOK`) is that a flag that is clear, or was seen clear by
the thread about to set it, means a line typed since every decision on the wire.
It is why the unprotected test and setting cannot repeat a decision, while they can lose one
(finding `client_lost`). It is a property of decisions and not of frames: either frame may be
held up on its way to the socket. `IdlesBounded` (`NoFourIdles`) says what is left of it there:
since only one line and one IDLE can be held up at a time (`OrderOK`), four IDLEs have a
line between them, and three need not. `IdleInTime`
(`IdleAfterSilence`) rests on `WaitOK`, which says at each place of the idle thread how old
the words on the wire are against the deadline: a line sent during the wait moves it.

**ChildrenProofs.** `HandlerFindsZombie`: the wait in the SIGCHLD handler never blocks. That
there is a zombie for a pending signal and one for the running handler is not
inductive: the handler may take any zombie, also the one that raised the pending
signal. The invariant `SignalsAreZombies` therefore has two of them when both are there.
`ZombiesCounted` is the same counted out: what stays are the merged signals.

**EchoProofs.** `EchoImplementsChildren` brings the theorems above to the echo server
(`EchoHandlerReturns`). `ChildOutlivesClient` rests on `iReadLine` never returning an
empty line before the end of the stream. `EchoComesBack` is `EchoFaithful` for every
input, buffer and stream. Its invariant `EchoInv` adds that a line has a newline at
its end only and fits the buffer (`OneLine`), so that `iReadLine` does not stop within
it (`WholeLine`); that only a client that has gone leaves a reset, and only a connection
without a child is forked for (`Quiet`); and where the pieces of a line are
(`Whole`): with the child before all of it is written, on its way back only after that,
nowhere at a prompt. `Join` is concatenation kept folded, with its associativity
as a lemma, so that each move of a piece is a step of rewriting.

**TftpTransferProofs.** `ReadImplementsTransfer` and `WriteImplementsTransfer`: both loops,
with their clients, over a network that loses, repeats and overtakes, implement
`FileTransfer`. Every action is one of the abstract ones or none. The invariants
(`ReadInvariant`, `WriteInvariant`) say that sender and receiver are within a block of each other
(`Counted`), and of each channel that it is in step (`InStep`): its datagrams can be given
blocks that agree with their numbers, never decrease along the channel, are not ahead of
the sender, and lag behind the receiver by no more than the times a datagram was overtaken. With `NumbersSuffice` an equal number is then an equal
block (`NumberIsBlock`), which is all the code compares. The write theorem has the hypothesis
`Blocks <= DiskBlocks`, the disk has room for the file: without it the statement is
false, `fwrite` failing unnoticed (section 4).

**TftpServerProofs.** `TftpImplementsChildren` and `TftpZombies` as above.
`TempsRemoved`: a child has a temporary name from the moment it opens the file, and a
name is given up only by who removes the file (`TempsOK`). `FileWhole` is
`FileIsLastWrite` for any requests and children. Its
invariants are that a child's job and position fit (`JobsOK`), that children alive
together have met (`AliveHaveMet`), that the last to open a file is a writer of it and
any other that still writes it met that one (`LastOK`), and that a file nothing has
spoilt holds as many blocks of its last opener as this one has written (`FilesOK`). A step
of another writer is harmless to the last conjunct because the two have met.
`ReadWhole` (`GetWhole`) does the same for readers: `ReadersOK` is what every reader has,
disturbed or not, and `CopiesOK` what an undisturbed one has, step by step of
`open`, `temp`, `fill`, `reopen`, `send`: the copy is the file as far as it has come, or
the child is in `full`.

**ProxyProofs.** `ProxyTypeCorrect` types every variable, expiries that are no dates
included, and shows that whoever is to be served waits with a request. `ProxyOneEntry`,
`ProxyFilesThere` and `ProxyRightPage` share one induction: the entry filled by a miss is for a page that has none;
a file is removed and written under the name of the page that is being
fetched only, and during that fetch no other request is looked at.

`ProxyDatesRight` (`DatesRight`): the comparison by fields is the order of time for all
dates, by way of `iMonthCoverter`, and the two minutes of the default expiry end early only at the end of an hour. With it stamps are ordered as
the clock is (`StampOrder`), on which the other two rest. `ProxyEvictsOldest`
(`VictimIsOldest`): the stamp of every entry is the date of its last use, be it a fetch, a hit
or a renewal, and the loop over a table of any size finds a least one, again by a least
counterexample. `ProxyStaleAfterUse` (`StaleOnlyAfterUse`): an entry that
was not used at a later moment than it was asked for has the stamp of that request, and a copy differs from the page only if
the page has changed since (`CopiesOK`); the same holds of an answer under way, and one
that says "not modified" speaks of a page older than the stamp (`ReplyOK`).

Only model-checked is what needs fairness: `JoinAnswered`, `LineForwarded`, `ReadEnds`,
`ReadArrives`, `WriteEnds`, `WriteArrives`, `EchoAnswered`, `ConnectionCloses` and
`RequestAnswered`. The prover has no rules for ENABLED, on which fairness rests.


## 6. Assumptions and limits

* A frame of the chat is read and written whole. Both programs pass
  `sizeof(sbcp_message_t)` to every call and never look for a short count.
* Names fit their 16 bytes; payload formatting, attribute headers and the display are
  left out.
* When a `recv` of a JOIN fails its buffer holds an arbitrary name of `Names`.
* The connection queue of `listen` never overflows. `accept` may fail at any time a client
  waits (`SrvAcceptFails`), and does when the process has no descriptor left.
* The thread of `ChatClient` and the streams of `Chat` are separate models: IDLE
  frames travel like SEND frames, and `Forward` of `ChatServer` has both.
* `select` leaves in `set2` only what it reports. (The kernel writes whole words: a
  stale bit of `set1` for the first descriptor of the next word, 64 or 128, would
  survive in `set2`, and the user who is given that descriptor in the same round would be
  served at once, by a `recv` that waits. Instances with stale bits that far are left out.)
* The answer to a JOIN never meets a reset connection in `Chat`: the client had
  nothing unread when it ended. `ReplyFails` is therefore an action of the open
  `ChatServer` only.
* A datagram may be overtaken by at most `Reorder` later ones. With 2^16 numbers an old
  one would have to be overtaken by 2^16 blocks to be mistaken for a new one; with
  `Mod = 3` the bound keeps the same relation.
* The children do not check the port a datagram comes from; all datagrams come from
  the one client.
* `TIMEOUT` seconds restart with every `recvfrom`, as the socket option has it.
* PA3: a child is as far as `FileTransfer` lets it be; that the loops promise this is
  the matter of `tftp_read` and `tftp_write`. The buffers of stdio are left out: a block is
  in the file when it is written. netascii changes no block. An error of the disk while an open file is read is left out:
  `fread` and `getc` then return what they return at the end of the file. In octet mode the never assigned
  `temp_file_name` is taken for the name of no file.
* PA1: a reset is delivered after what was sent before the client was killed may have been read;
  BUFFER_SIZE is at least two.
* PA4: the answer of the origin is one step, so that a page cut in the middle is not told
  from a whole one; the Expires header is looked for in the first 2048 bytes of the
  page (http.c:213), and a later one counts as none. `acFilename` and the
  URL arrays have room for the names, and `fopen` fails for the empty name only. The descriptor -1 of a failed `accept` goes
  through `FD_SET` first, which either does nothing or ends the process.
  Months are those of `pcMonth`. What the client of PA4 does with its answer is left out.
* Not modelled: socket set-up (straight-line code that ends the process on an error), PA5 (no
  program state).


## 7. The plan

Done, in this order because the chat room is the most intricate part:
`ChatServer` and its proofs, `Chat`, `ChatClient` and its proof, `FileTransfer`,
`TftpLink`, `TftpRead`, `TftpWrite`; then `Children`, `EchoServer`, `TftpServer`,
`HttpDate`, `Proxy` and their proofs; then the proofs of the rest of the safety properties:
`TftpTransferProofs`, the room of `ChatProofs`, the reads of the TFTP server, the silence of a
client, and the dates, the eviction and the staleness of the proxy.

Next:

1. Type correctness of every module as a theorem of its own, where it is now a
   part of an invariant only (`TftpServer`, `EchoServer`, the transfers).
2. The streams of `Chat`: that no more than `Cap` frames are under way, and none to a
   client that has gone, which `ConnectionsMatch` leaves open.
3. That a child of `TftpServer` takes the steps of `FileTransfer` one for one, so that
   the two halves of the TFTP server meet in a theorem and not in a comment.
4. The parts of the liveness arguments that need no fairness: that each step of a
   transfer lowers what is left of the file, the retries and the seconds.

