--------------------------- MODULE ChildrenProofs ---------------------------
(***************************************************************************)
(* Theorems about Children, for any number of processes.                   *)
(***************************************************************************)
EXTENDS Children, TLAPS, FiniteSetTheorems

ChildrenTypeOK ==
  /\ kid \in [Kids -> {"unborn", "alive", "zombie", "reaped"}]
  /\ installed \in BOOLEAN /\ pending \in BOOLEAN /\ handling \in BOOLEAN
  /\ pending => installed
  /\ unsignalled \in Nat

(* A signal, pending or being handled, stands for a zombie of its own.     *)
SignalsAreZombies ==
  /\ pending \/ handling => Zombies # {}
  /\ pending /\ handling => \E j, k \in Zombies : j # k

LEMMA ChildrenType == ChildrenSpec => []ChildrenTypeOK
<1>1. ChildrenInit => ChildrenTypeOK
  <2> SUFFICES ASSUME ChildrenInit PROVE ChildrenTypeOK
    OBVIOUS
  <2>1. pending \in BOOLEAN /\ handling \in BOOLEAN /\ installed \in BOOLEAN
    BY Zenon DEF ChildrenInit
  <2>2. kid \in [Kids -> {"unborn", "alive", "zombie", "reaped"}] /\ unsignalled \in Nat
    BY DEF ChildrenInit
  <2> QED
    BY <2>1, <2>2 DEF ChildrenTypeOK, ChildrenInit
<1>2. ChildrenTypeOK /\ [ChildrenNext]_kvars => ChildrenTypeOK'
  <2> SUFFICES ASSUME ChildrenTypeOK, [ChildrenNext]_kvars PROVE ChildrenTypeOK'
    OBVIOUS
  <2> USE DEF ChildrenTypeOK
  <2>1. CASE Install \/ HandlerStarts
    BY <2>1 DEF Install, HandlerStarts
  <2>3. CASE HandlerWaits
    BY <2>3 DEF HandlerWaits, Zombies
  <2>2. ASSUME NEW k \in Kids, Born(k) \/ Ends(k) PROVE ChildrenTypeOK'
    BY <2>2 DEF Born, Ends
  <2> QED
    BY <2>1, <2>2, <2>3 DEF ChildrenNext, Handler, kvars
<1> QED
  BY <1>1, <1>2, PTL DEF ChildrenSpec

(* The handler's wait never blocks: every signal that the handler answers  *)
(* has left it a zombie, although it takes any of them.                    *)
THEOREM HandlerFindsZombie == ChildrenSpec => []HandlerNeverBlocks
<1>1. ChildrenInit => SignalsAreZombies
  BY DEF ChildrenInit, SignalsAreZombies
<1>2. ChildrenTypeOK /\ SignalsAreZombies /\ [ChildrenNext]_kvars => SignalsAreZombies'
  <2> SUFFICES ASSUME ChildrenTypeOK, SignalsAreZombies, [ChildrenNext]_kvars
               PROVE  SignalsAreZombies'
    OBVIOUS
  <2> USE DEF ChildrenTypeOK, SignalsAreZombies, Zombies
  <2>1. CASE Install
    BY <2>1 DEF Install
  <2>2. CASE HandlerStarts
    BY <2>2 DEF HandlerStarts
  <2>3. CASE HandlerWaits
    <3>1. PICK k \in Zombies : kid' = [kid EXCEPT ![k] = "reaped"]
      BY <2>3 DEF HandlerWaits
    <3>2. \A j \in Zombies : j # k => j \in Zombies'
      BY <3>1
    <3> QED
      BY <2>3, <3>2 DEF HandlerWaits
  <2>4. ASSUME NEW k \in Kids, Born(k) PROVE SignalsAreZombies'
    <3>1. Zombies' = Zombies
      BY <2>4 DEF Born
    <3> QED
      BY <2>4, <3>1 DEF Born
  <2>5. ASSUME NEW k \in Kids, Ends(k) PROVE SignalsAreZombies'
    <3>1. Zombies' = Zombies \cup {k} /\ k \notin Zombies
      BY <2>5 DEF Ends
    <3> QED
      BY <2>5, <3>1 DEF Ends
  <2>6. CASE UNCHANGED kvars
    BY <2>6 DEF kvars
  <2> QED
    BY <2>1, <2>2, <2>3, <2>4, <2>5, <2>6 DEF ChildrenNext, Handler
<1>3. SignalsAreZombies => HandlerNeverBlocks
  BY DEF SignalsAreZombies, HandlerNeverBlocks
<1> QED
  BY <1>1, <1>2, <1>3, ChildrenType, PTL DEF ChildrenSpec

(* The zombies that stay are counted by the ends that raised no signal.    *)
THEOREM ZombiesCounted ==
  ASSUME IsFiniteSet(Kids)
  PROVE  ChildrenSpec => []ZombiesAccounted
<1>1. ChildrenInit => ZombiesAccounted
  <2> SUFFICES ASSUME ChildrenInit PROVE ZombiesAccounted
    OBVIOUS
  <2>1. Zombies = {}
    BY DEF ChildrenInit, Zombies
  <2> QED
    BY <2>1, FS_EmptySet DEF ChildrenInit, ZombiesAccounted, One
<1>2. ChildrenTypeOK /\ ZombiesAccounted /\ [ChildrenNext]_kvars => ZombiesAccounted'
  <2> SUFFICES ASSUME ChildrenTypeOK, ZombiesAccounted, [ChildrenNext]_kvars
               PROVE  ZombiesAccounted'
    OBVIOUS
  <2> USE DEF ChildrenTypeOK, ZombiesAccounted, One
  <2>0. IsFiniteSet(Zombies) /\ Cardinality(Zombies) \in Nat
    BY FS_Subset, FS_CardinalityType DEF Zombies
  <2>2. CASE Install
    BY <2>2 DEF Install, Zombies
  <2>3. CASE HandlerStarts
    BY <2>3 DEF HandlerStarts, Zombies
  <2>4. CASE HandlerWaits
    <3>1. PICK k \in Zombies : kid' = [kid EXCEPT ![k] = "reaped"]
      BY <2>4 DEF HandlerWaits
    <3>2. Zombies' = Zombies \ {k}
      BY <3>1 DEF Zombies
    <3>3. Cardinality(Zombies') = Cardinality(Zombies) - 1
      BY <2>0, <3>2, FS_RemoveElement
    <3> QED
      BY <2>0, <2>4, <3>3 DEF HandlerWaits
  <2>5. ASSUME NEW k \in Kids, Born(k) PROVE ZombiesAccounted'
    BY <2>5 DEF Born, Zombies
  <2>6. ASSUME NEW k \in Kids, Ends(k) PROVE ZombiesAccounted'
    <3>1. Zombies' = Zombies \cup {k} /\ k \notin Zombies
      BY <2>6 DEF Ends, Zombies
    <3>2. Cardinality(Zombies') = Cardinality(Zombies) + 1
      BY <2>0, <3>1, FS_AddElement
    <3>3. CASE installed /\ ~ pending
      BY <2>0, <2>6, <3>2, <3>3 DEF Ends
    <3>4. CASE ~ installed
      BY <2>0, <2>6, <3>2, <3>4 DEF Ends
    <3>5. CASE installed /\ pending
      BY <2>0, <2>6, <3>2, <3>5 DEF Ends
    <3> QED
      BY <3>3, <3>4, <3>5
  <2>7. CASE UNCHANGED kvars
    BY <2>7 DEF kvars, Zombies
  <2> QED
    BY <2>2, <2>3, <2>4, <2>5, <2>6, <2>7 DEF ChildrenNext, Handler
<1> QED
  BY <1>1, <1>2, ChildrenType, PTL DEF ChildrenSpec
=============================================================================
