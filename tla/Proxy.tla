------------------------------- MODULE Proxy -------------------------------
(***************************************************************************)
(* The HTTP proxy (Programming_Assignment_4, http.c): one process serves   *)
(* the clients that select reports, one after the other, out of a table of *)
(* cached pages or from the origin server.                                 *)
(*                                                                         *)
(* A page is its URL and its version; the bytes of headers and bodies are  *)
(* left out, except for the status and the Expires header.  Origin server, *)
(* clock and TCP are external.  The proxy waits for the origin while it    *)
(* serves a client: meanwhile pages change, time passes, clients come.     *)
(***************************************************************************)
EXTENDS HttpDate, FiniteSets

CONSTANTS
  Clients,
  Urls,         \* what clients ask for: host and path
  FileOf,       \* the last component of each URL, which names its file
  NoName,       \* the last component of a path of slashes alone: there is none
  Garbage,      \* a malformed request, or a client that closes without one
  Listener,     \* iListener_fd
  Nobody,       \* no URL, no client, no reply, no file, no answer
  Cells,        \* bound: entries of the table, 10 in the code
  Lifetimes,    \* what the Expires header of each page may say: minutes from now,
  None,         \* ... or there is no such header,
  Junk,         \* ... or its value is no date, as in "Expires: 0"
  Asks,         \* bound: what each client asks for, if at all
  Changing,     \* bound: the pages that change
  Missing,      \* pages the origin does not have at first
  MaxVersion,   \* bound: versions of a page
  Horizon,      \* bound: minutes
  MaxRequests   \* bound: requests

ASSUME ProxyConstantsOK ==
  /\ Nobody \notin Urls /\ Garbage \notin Urls /\ Garbage # Nobody
  /\ Nobody \notin Clients /\ Listener \notin Clients
  /\ Nobody \notin [url : Urls, ver : 0 .. MaxVersion]
  /\ Changing \subseteq Urls
  /\ Asks \in [Clients -> SUBSET (Urls \cup {Garbage})]
  /\ Cells \in Nat \ {0} /\ MaxVersion \in Nat \ {0}
  /\ Lifetimes \in [Urls -> SUBSET (Nat \cup {None, Junk})]
  /\ None \notin Nat /\ Junk \notin Nat /\ None # Junk
  /\ Horizon \in 1 .. Len(Clock)

VARIABLES
  now, page, mtime,        \* the clock and the origin: see ProxyInit
  stage, want,             \* the clients
  ppc, todo, job,          \* the proxy at work
  oldest,                  \* iOldest_Entry, which keeps its last value
  cache, files,            \* sCache_table, and the files in its directory
  answer,                  \* what a client is sent in this step
  fetched,                 \* history: when the copy of an entry was asked for and when it was last used
  requests                 \* history: for the bound

world == <<now, page, mtime>>
store == <<cache, files, fetched>>
pvars == <<world, stage, want, ppc, todo, job, oldest, store, answer, requests>>

Entries    == 1 .. Cells
EmptyTable == [i \in Entries |-> [url |-> Nobody, last |-> Nobody, expiry |-> Nobody]]
NeverFetched == [i \in Entries |-> [at |-> 1, use |-> 1]]

ProxyInit ==
  /\ now = 1                                \* index into Clock
  /\ page = [u \in Urls |-> IF u \in Missing THEN 0 ELSE 1]  \* version; 0: no page
  /\ mtime = [u \in Urls |-> 1]             \* when it last changed
  /\ stage = [c \in Clients |-> "away"]     \* "away", "knocking", "open"
  /\ want = [c \in Clients |-> Nobody]      \* its request
  /\ ppc = "scan"                           \* "scan", "miss", "check", "exited"
  /\ todo = {}                              \* what is left of set2
  /\ job = Nobody                           \* client_fd, timenow, the entry, the reply
  /\ oldest \in Entries
  /\ cache = EmptyTable
  /\ files = [f \in {FileOf[u] : u \in Urls} |-> Nobody]
  /\ answer = Nobody
  /\ fetched = NeverFetched
  /\ requests = 0

-----------------------------------------------------------------------------
(* External: time, the origin's pages, the clients.                        *)

Outside(vars) == ppc # "exited" /\ answer' = Nobody /\ UNCHANGED <<vars, ppc, todo, job, oldest, store>>

Tick ==
  /\ now < Horizon
  /\ now' = now + 1
  /\ Outside(<<page, mtime, stage, want, requests>>)

(* A page changes.                                                         *)
Publish(u) ==
  /\ page[u] < MaxVersion
  /\ page' = [page EXCEPT ![u] = @ + 1]
  /\ mtime' = [mtime EXCEPT ![u] = now]
  /\ Outside(<<now, stage, want, requests>>)

(* client.c: connect and send the request.                                 *)
Connect(c, w) ==
  /\ stage[c] = "away"
  /\ requests < MaxRequests
  /\ w \in Asks[c]
  /\ requests' = requests + 1
  /\ stage' = [stage EXCEPT ![c] = "knocking"]
  /\ want' = [want EXCEPT ![c] = w]
  /\ Outside(world)

-----------------------------------------------------------------------------
(* The select loop.  Within a pass the listening socket, the lowest        *)
(* descriptor, comes first; the order of the clients is left open.         *)

(* return 1, or a signal: the table is gone with the process.              *)
Exit ==
  /\ ppc' = "exited"
  /\ todo' = {} /\ job' = Nobody /\ cache' = EmptyTable /\ answer' = Nobody
  /\ fetched' = NeverFetched
  /\ UNCHANGED <<world, stage, want, oldest, files, requests>>

(* Mutant: max_fd is not raised by accept.                                 *)
BelowMaxFd == {l \in {Listener} : \E c \in Clients : stage[c] = "knocking"}

(* The descriptors of the listener and of clients that select reports.     *)
Reported ==
  {c \in Clients : stage[c] = "open"}
    \cup {l \in {Listener} : \E c \in Clients : stage[c] = "knocking"}

Select ==
  /\ ppc = "scan" /\ todo = {}
  /\ todo' = Reported
  /\ todo' # {}
  /\ answer' = Nobody
  /\ UNCHANGED <<world, stage, want, ppc, job, oldest, store, requests>>

Accepting ==
  /\ ppc = "scan" /\ Listener \in todo
  /\ todo' = todo \ {Listener}
  /\ answer' = Nobody
  /\ UNCHANGED <<world, want, ppc, job, oldest, store, requests>>

Accept(c) ==
  /\ stage[c] = "knocking"
  /\ stage' = [stage EXCEPT ![c] = "open"]
  /\ Accepting

(* -1 goes through FD_SET before it is tested: nothing, or the end.        *)
AcceptFails ==
  \/ Accepting /\ UNCHANGED stage
  \/ ppc = "scan" /\ Listener \in todo /\ Exit

(* set1 is never zeroed: a stale bit makes select fail when the descriptor *)
(* is closed, and recv when it is a standard one.                          *)
StaleBit == ppc = "scan" /\ Exit

(* recv and iFormat_Read_Request; then the connection to the origin, which *)
(* is made before the table is looked at.                                  *)
Reads(c) == ppc = "scan" /\ Listener \notin todo /\ c \in todo

BadRequest(c) == Reads(c) /\ want[c] = Garbage /\ Exit

OriginUnreachable(c) == Reads(c) /\ want[c] # Garbage /\ Exit

Reached(c) == Reads(c) /\ want[c] # Garbage /\ todo' = todo \ {c}

(* Mutants: the last entry is not looked at; any page of the host will do. *)
NotTheLast(u) == {i \in Entries : i < Cells /\ cache[i].url = u}
AnyPage(u) == {i \in Entries : cache[i].url # Nobody}

check_cache_entry(u) == {i \in Entries : cache[i].url = u}

(* The client is sent an answer and the connection is closed.              *)
Answered(c, how, content) ==
  /\ stage' = [stage EXCEPT ![c] = "away"]
  /\ want' = [want EXCEPT ![c] = Nobody]
  /\ answer' = [how |-> how, for |-> want[c], content |-> content]

-----------------------------------------------------------------------------
(* A page that is not in the table.                                        *)

FirstEmpty == CHOOSE i \in Entries : cache[i].url = Nobody /\ \A j \in 1 .. i - 1 : cache[j].url # Nobody

(* Mutant: the newest entry is chosen.                                     *)
Newest ==
  LET newest[n \in 0 .. Cells] ==
        IF n = 0 THEN oldest
        ELSE IF NotAfter(cache[n].last, cache[newest[n - 1]].last) THEN newest[n - 1] ELSE n
  IN  IF \E i \in Entries : cache[i].url = Nobody THEN FirstEmpty ELSE newest[Cells]

(* The loop over the table: the first empty entry, or the one least        *)
(* recently used, starting from the entry chosen the last time.            *)
Victim ==
  LET least[n \in 0 .. Cells] ==
        IF n = 0 THEN oldest
        ELSE IF NotAfter(cache[n].last, cache[least[n - 1]].last) THEN n ELSE least[n - 1]
  IN  IF \E i \in Entries : cache[i].url = Nobody THEN FirstEmpty ELSE least[Cells]

(* Mutant: the file of the entry that is evicted.                          *)
EvictedFile(v, u) == IF cache[v].url = Nobody THEN FileOf[u] ELSE FileOf[cache[v].url]

(* The file removed: the one of the new page, acFilename being set before. *)
RemovedFile(v, u) == FileOf[u]

Miss(c) ==
  /\ Reached(c)
  /\ check_cache_entry(want[c]) = {}
  /\ ppc' = "miss"
  /\ \E v \in Entries :
       /\ v = Victim
       /\ oldest' = v
       /\ job' = [c |-> c, t |-> now, cell |-> v, resp |-> Nobody]
       /\ cache' = [cache EXCEPT ![v] = [url |-> want[c], last |-> Nobody, expiry |-> Nobody]]
       /\ files' = [files EXCEPT ![RemovedFile(v, want[c])] = Nobody]
  /\ answer' = Nobody
  /\ UNCHANGED <<world, stage, want, fetched, requests>>

(* The origin's reply to a plain GET, or to one with If-Modified-Since.    *)
(* Status 500 stands for any other status and for no reply.                *)
OriginAnswers ==
  /\ ppc \in {"miss", "check"} /\ job.resp = Nobody
  /\ LET u == want[job.c]
         unmodified == ppc = "check" /\ NotAfter(Date(Clock[mtime[u]]), cache[job.cell].last)
         status == IF page[u] = 0 THEN 404 ELSE IF unmodified THEN 304 ELSE 200
     IN  \E life \in Lifetimes[u], s \in {status, 500} :
           job' = [job EXCEPT !.resp = [status |-> s, ver |-> page[u], mod |-> mtime[u], life |-> life]]
  /\ answer' = Nobody
  /\ UNCHANGED <<world, stage, want, ppc, todo, oldest, store, requests>>

(* The Expires header of the reply, or the date given.                     *)
Expiry(default) ==
  CASE job.resp.life = None -> default
    [] job.resp.life = Junk -> Junk
    [] OTHER -> LET n == job.t + job.resp.life
                IN  Date(Clock[IF n <= Len(Clock) THEN n ELSE Len(Clock)])

(* strtok finds a name in every path but one of slashes alone: fopen of    *)
(* the empty name fails, which ends the proxy.                             *)
NoFile == ppc = "miss" /\ FileOf[want[job.c]] = NoName /\ Exit

Finish == ppc' = "scan" /\ job' = Nobody /\ UNCHANGED <<world, todo, oldest, requests>>

(* Mutant: the time is taken when the page has arrived.                    *)
LateStamp == Date(Clock[now])

(* The time an entry is stamped with: taken before the page is asked for.  *)
Stamp == Date(Clock[job.t])

(* The reply, whatever it is, is stored and passed on.  (The code stamps   *)
(* the entry before recv; nothing looks at the table in between.)          *)
Store ==
  /\ ppc = "miss" /\ job.resp # Nobody /\ FileOf[want[job.c]] # NoName
  /\ LET u == want[job.c]
         content == [url |-> u, ver |-> IF job.resp.status = 200 THEN job.resp.ver ELSE 0]
     IN  /\ files' = [files EXCEPT ![FileOf[u]] = content]
         /\ Answered(job.c, "fetched", content)
  /\ cache' = [cache EXCEPT ![job.cell].last = Stamp,
                            ![job.cell].expiry = Expiry(DefaultExpiry(Clock[job.t]))]
  /\ fetched' = [fetched EXCEPT ![job.cell] = [at |-> job.t, use |-> job.t]]
  /\ Finish

-----------------------------------------------------------------------------
(* A page of the table: fresh, or to be checked with the origin.           *)

(* Whether the entry has expired; uninitialised memory decides on Junk.    *)
Late(i) ==
  IF cache[i].expiry = Junk THEN BOOLEAN
  ELSE {iTime_Comparison_Func(cache[i].expiry, Date(Clock[now])) < 0}

(* Mutant: a page given out keeps its stamp.                               *)
OldStamp(i) == cache[i].last

UseStamp(i) == Date(Clock[now])

Hit(c) ==
  /\ Reached(c)
  /\ \E i \in check_cache_entry(want[c]) :
       /\ FALSE \in Late(i)
       /\ cache' = [cache EXCEPT ![i].last = UseStamp(i)]
       /\ fetched' = [fetched EXCEPT ![i].use = now]
       /\ Answered(c, "hit", files[FileOf[cache[i].url]])
  /\ UNCHANGED <<world, ppc, job, oldest, files, requests>>

Expired(c) ==
  /\ Reached(c)
  /\ \E i \in check_cache_entry(want[c]) :
       /\ TRUE \in Late(i)
       /\ job' = [c |-> c, t |-> now, cell |-> i, resp |-> Nobody]
  /\ ppc' = "check" /\ answer' = Nobody
  /\ UNCHANGED <<world, stage, want, oldest, store, requests>>

(* The reply to If-Modified-Since.  A new expiry is set in any case; one   *)
(* without a header has run out at once.                                   *)
Revalidate ==
  /\ ppc = "check" /\ job.resp # Nobody
  /\ cache' = [cache EXCEPT ![job.cell].expiry = Expiry(Date(Clock[job.t])),
                            ![job.cell].last = IF job.resp.status = 200 THEN Stamp ELSE @]
  /\ LET f == FileOf[cache[job.cell].url]
         content == [url |-> want[job.c], ver |-> job.resp.ver]
     IN  \/ /\ job.resp.status = 200
            /\ files' = [files EXCEPT ![f] = content]
            /\ fetched' = [fetched EXCEPT ![job.cell] = [at |-> job.t, use |-> job.t]]
            /\ Answered(job.c, "renewed", content)
         \/ /\ job.resp.status = 304
            /\ Answered(job.c, "unchanged", files[f])
            /\ UNCHANGED <<files, fetched>>
         \/ /\ job.resp.status \notin {200, 304}
            /\ Answered(job.c, "nothing", Nobody)
            /\ UNCHANGED <<files, fetched>>
  /\ Finish

(* A send to a client that has gone ends the proxy by SIGPIPE.             *)
SendFails(c) ==
  \/ job # Nobody /\ c = job.c /\ job.resp # Nobody /\ Exit
  \/ Reads(c) /\ (\E i \in check_cache_entry(want[c]) : FALSE \in Late(i)) /\ Exit

Serve(c) == BadRequest(c) \/ OriginUnreachable(c) \/ Miss(c) \/ Hit(c) \/ Expired(c) \/ SendFails(c)

ProxyNext ==
  \/ Tick
  \/ \E u \in Changing : Publish(u)
  \/ \E c \in Clients, w \in Urls \cup {Garbage} : Connect(c, w)
  \/ Select
  \/ \E c \in Clients : Accept(c) \/ Serve(c)
  \/ AcceptFails
  \/ StaleBit
  \/ OriginAnswers
  \/ NoFile
  \/ Store
  \/ Revalidate

ProxySpec == ProxyInit /\ [][ProxyNext]_pvars

(* The proxy runs on, the origin answers every request it has accepted,    *)
(* and accept does not fail for ever.                                      *)
ProxyLiveSpec ==
  /\ ProxySpec
  /\ WF_pvars(Select)
  /\ \A c \in Clients : SF_pvars(Accept(c))
  /\ WF_pvars(\E c \in Clients : Serve(c))
  /\ WF_pvars(OriginAnswers)
  /\ WF_pvars(NoFile \/ Store \/ Revalidate)

-----------------------------------------------------------------------------
(* Correctness.                                                            *)

Content  == [url : Urls, ver : 0 .. MaxVersion]
Dates    == [year : Int, month : {pcMonth[k] : k \in 1 .. 12}, day : Int,
             hour : Int, minute : 0 .. 61, second : Int] \cup {Nobody, Junk}
Replies  == [status : {200, 304, 404, 500}, ver : 0 .. MaxVersion, mod : 1 .. Horizon,
             life : Nat \cup {None, Junk}] \cup {Nobody}

ProxyTypeOK ==
  /\ now \in 1 .. Horizon
  /\ page \in [Urls -> 0 .. MaxVersion]
  /\ mtime \in [Urls -> 1 .. Horizon]
  /\ stage \in [Clients -> {"away", "knocking", "open"}]
  /\ want \in [Clients -> Urls \cup {Garbage, Nobody}]
  /\ ppc \in {"scan", "miss", "check", "exited"}
  /\ todo \subseteq Clients \cup {Listener}
  /\ IF ppc \in {"miss", "check"}
     THEN job \in [c : Clients, t : 1 .. Horizon, cell : Entries, resp : Replies]
     ELSE job = Nobody
  /\ oldest \in Entries
  /\ cache \in [Entries -> [url : Urls \cup {Nobody}, last : Dates, expiry : Dates]]
  /\ files \in [{FileOf[u] : u \in Urls} -> Content \cup {Nobody}]
  /\ fetched \in [Entries -> [at : 1 .. Horizon, use : 1 .. Horizon]]

(* The clients of the pass, and the one being served, wait with a request. *)
Waiting ==
  /\ \A c \in Clients : stage[c] # "away" => want[c] # Nobody
  /\ \A c \in todo \ {Listener} : stage[c] = "open"
  /\ ppc \in {"miss", "check"} =>
       /\ stage[job.c] = "open" /\ job.c \notin todo
       /\ want[job.c] \in Urls
       /\ cache[job.cell].url = want[job.c]

(* The comparison of dates orders them as time does, and a page without an *)
(* Expires header is kept for two minutes (HttpDate); both are facts about *)
(* constants, and so looked at in the first states only.                   *)
DatesRight == now = 1 /\ requests = 0 => DateOrder /\ TwoMinutes

(* check_cache_entry finds the entry of a page: no page has two, whatever  *)
(* is evicted, fetched again or asked for by several clients at once.      *)
OneEntryPerPage ==
  \A i, j \in Entries : i # j /\ cache[i].url = cache[j].url => cache[i].url = Nobody

SharesName(u) == \E w \in Urls \ {u} : FileOf[w] = FileOf[u]

(* The file of an entry that is not being fetched is there and holds its   *)
(* page, unless another page has the same last component: then it may hold *)
(* that one.  (fopen of a missing file returns NULL, which fread is given.) *)
FileOfEntry ==
  ppc # "exited" =>
    \A i \in Entries :
      LET u == cache[i].url
      IN  u # Nobody /\ ~ (ppc = "miss" /\ FileOf[u] = FileOf[want[job.c]]) =>
            /\ files[FileOf[u]] # Nobody
            /\ files[FileOf[u]].url = u \/ SharesName(u)

(* A client is given the page it asked for, or one of the same name.       *)
RightPage ==
  answer # Nobody /\ answer.how # "nothing" =>
    answer.content.url = answer.for \/ SharesName(answer.for)

(* An entry is evicted only from a full table, and only one whose last use *)
(* was not later than that of any other.  A use is a moment at which the   *)
(* page was asked for and fetched, found fresh, or renewed by a 200; that  *)
(* the stamps, which the loop compares, follow the uses is what is claimed.*)
VictimIsOldest ==
  [][\A i, j \in Entries :
       ppc' = "miss" /\ cache[i].url # Nobody /\ cache'[i].url # cache[i].url =>
         /\ cache[j].url # Nobody
         /\ fetched[i].use <= fetched[j].use]_pvars

(* A "not modified" that is answered with another version of the page than *)
(* the origin has.                                                         *)
StaleAnswer ==
  /\ ppc = "check" /\ job.resp # Nobody /\ job.resp.status = 304
  /\ ppc' = "scan"
  /\ files[FileOf[want[job.c]]].url = want[job.c]
  /\ files[FileOf[want[job.c]]].ver # job.resp.ver

(* What is in the file is the page as it was when it was asked for: not an *)
(* error of the origin, nor changed once more in that very second.         *)
TrueCopy ==
  /\ files[FileOf[want[job.c]]].ver # 0
  /\ job.resp.mod # fetched[job.cell].at

(* A page that has expired is answered as the origin has it, although the  *)
(* clock runs and the page changes while it is fetched - unless the entry  *)
(* was used at a later moment, which moves the date the origin is asked    *)
(* with.                                                                   *)
StaleOnlyAfterUse ==
  [][StaleAnswer /\ TrueCopy => fetched[job.cell].at < fetched[job.cell].use]_pvars

(* If the page has been modified since the copy was made, the client is    *)
(* not given the copy.                                                     *)
ModifiedIsFetched == [][~ (StaleAnswer /\ TrueCopy)]_pvars

(* A request is answered, or it, another one or the origin has ended the   *)
(* proxy: no client waits for ever behind others.                          *)
RequestAnswered ==
  \A c \in Clients : stage[c] # "away" ~> stage[c] = "away" \/ ppc = "exited"
=============================================================================
