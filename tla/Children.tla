------------------------------ MODULE Children ------------------------------
(***************************************************************************)
(* The children of a forking server and their SIGCHLD, as the echo server  *)
(* (Programming_Assignment_1) and the TFTP server (Programming_Assignment  *)
(* _3) have them: the handler calls wait(NULL), once.  A signal that       *)
(* arrives while one is pending is lost; while the handler runs it is      *)
(* blocked and stays pending; before signal() it is ignored.               *)
(***************************************************************************)
EXTENDS Integers, FiniteSets

CONSTANT Kids  \* the processes forked, each at most once

VARIABLES
  kid,         \* "unborn", "alive", "zombie", "reaped"
  installed,   \* signal(SIGCHLD, zombie_handler_func) has been called
  pending,     \* a SIGCHLD is pending
  handling,    \* zombie_handler_func runs
  unsignalled  \* history: children whose end raised no signal of its own

kvars == <<kid, installed, pending, handling, unsignalled>>

Zombies == {k \in Kids : kid[k] = "zombie"}
Alive   == {k \in Kids : kid[k] = "alive"}

ChildrenInit ==
  /\ kid = [k \in Kids |-> "unborn"]
  /\ installed \in BOOLEAN
  /\ pending = FALSE /\ handling = FALSE
  /\ unsignalled = 0

(* fork, in the parent.                                                    *)
Born(k) ==
  /\ kid[k] = "unborn"
  /\ kid' = [kid EXCEPT ![k] = "alive"]
  /\ UNCHANGED <<installed, pending, handling, unsignalled>>

Install ==
  /\ installed' = TRUE
  /\ UNCHANGED <<kid, pending, handling, unsignalled>>

(* Mutant: a child that ends while the handler runs goes unnoticed.        *)
EndsUnseen(k) ==
  /\ kid[k] = "alive"
  /\ kid' = [kid EXCEPT ![k] = "zombie"]
  /\ pending' = (installed /\ (pending \/ ~ handling))
  /\ unsignalled' = IF installed /\ ~ pending THEN unsignalled ELSE unsignalled + 1
  /\ UNCHANGED <<installed, handling>>

(* exit, or death by a signal.                                             *)
Ends(k) ==
  /\ kid[k] = "alive"
  /\ kid' = [kid EXCEPT ![k] = "zombie"]
  /\ pending' = installed
  /\ unsignalled' = IF installed /\ ~ pending THEN unsignalled ELSE unsignalled + 1
  /\ UNCHANGED <<installed, handling>>

HandlerStarts ==
  /\ pending /\ ~ handling
  /\ pending' = FALSE /\ handling' = TRUE
  /\ UNCHANGED <<kid, installed, unsignalled>>

(* Mutant: the handler waits for as long as there are children.            *)
WaitsForAll ==
  /\ handling
  /\ \E k \in Zombies :
       /\ kid' = [kid EXCEPT ![k] = "reaped"]
       /\ handling' = (Alive \cup (Zombies \ {k}) # {})
  /\ UNCHANGED <<installed, pending, unsignalled>>

(* wait(NULL) takes any zombie; while there is none it would block.        *)
HandlerWaits ==
  /\ handling
  /\ \E k \in Zombies : kid' = [kid EXCEPT ![k] = "reaped"]
  /\ handling' = FALSE
  /\ UNCHANGED <<installed, pending, unsignalled>>

Handler == HandlerStarts \/ HandlerWaits

ChildrenNext == Install \/ Handler \/ \E k \in Kids : Born(k) \/ Ends(k)

ChildrenSpec == ChildrenInit /\ [][ChildrenNext]_kvars

-----------------------------------------------------------------------------
(* The wait in the handler finds a zombie: the parent, which serves nobody *)
(* meanwhile, never waits there for a child that still works.              *)
HandlerNeverBlocks == handling => Zombies # {}

One(p) == IF p THEN 1 ELSE 0

(* The zombies that stay are those whose end raised no signal: none is     *)
(* left out otherwise, and none is waited for twice.                       *)
ZombiesAccounted == Cardinality(Zombies) = unsignalled + One(pending) + One(handling)
=============================================================================
