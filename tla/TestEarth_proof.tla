--------------------------- MODULE TestEarth_proof ---------------------------
(***************************************************************************)
(* testEarth and the dtEarth library, for any number of actors and any     *)
(* number of entries into the world: every viewer is accounted for.        *)
(***************************************************************************)
EXTENDS TestEarth, TLAPS

USE MaxEntriesAssumption, ListenersAssumption

\* The types, without the bounds on the viewers: those follow from
\* ViewersAccounted.
Typed ==
    /\ typeRegistered \in BOOLEAN
    /\ life \in [Actors -> {"none", "created", "world", "deleted"}]
    /\ mConfig \in [Actors -> BOOLEAN]
    /\ entries \in [Actors -> 0 .. MaxEntries]
    /\ views \in [Actors -> Nat]
    /\ orphans \in [Actors -> Nat]
    /\ phase \in Phases
    /\ map \in {"none", "loading", "loaded"}

\* The factory makes an actor with mConfig reset, which must not forget a
\* viewer: an actor that has not been made has not been told of a map.
UnmadeUntold == \A a \in Actors : life[a] = "none" => ~mConfig[a]

Inv ==
    /\ Typed
    /\ ViewersAccounted
    /\ UnmadeUntold

LEMMA InitInv == Init => Inv
<1> SUFFICES ASSUME Init PROVE Inv
  OBVIOUS
<1> USE DEF Init, ActorInit
<1>1. Typed
  <2>1. entries \in [Actors -> 0 .. MaxEntries]
    <3>1. 0 \in 0 .. MaxEntries
      OBVIOUS
    <3> QED
      BY <3>1
  <2>2. views \in [Actors -> Nat] /\ orphans \in [Actors -> Nat]
    OBVIOUS
  <2>3. /\ life \in [Actors -> {"none", "created", "world", "deleted"}]
        /\ mConfig \in [Actors -> BOOLEAN]
    OBVIOUS
  <2> QED
    BY <2>1, <2>2, <2>3 DEF Typed, Phases
<1>2. \A a \in Actors : views[a] = 0 /\ orphans[a] = 0 /\ entries[a] = 0 /\ mConfig[a] = FALSE
  OBVIOUS
<1>3. ViewersAccounted
  BY <1>2 DEF ViewersAccounted
<1>4. UnmadeUntold
  BY DEF UnmadeUntold
<1> QED
  BY <1>1, <1>3, <1>4 DEF Inv

\* The entry point's own steps touch no actor.
LEMMA StartupInv == Inv /\ (Startup \/ HandleKeyPressed) => Inv'
<1> SUFFICES ASSUME Inv, Startup \/ HandleKeyPressed PROVE Inv'
  OBVIOUS
<1> USE DEF Inv, Typed, ViewersAccounted, UnmadeUntold, Phases, actorVars
<1>1. CASE Initialize
  BY <1>1 DEF Initialize
<1>2. CASE LoadActorRegistry
  BY <1>2 DEF LoadActorRegistry, RegisterActorTypes
<1>3. CASE AddComponent
  BY <1>3 DEF AddComponent
<1>4. CASE SetProjectContext
  BY <1>4 DEF SetProjectContext
<1>5. CASE ChangeMap
  BY <1>5 DEF ChangeMap
<1>6. CASE StartupException
  BY <1>6 DEF StartupException
<1>7. CASE HandleKeyPressed
  BY <1>7 DEF HandleKeyPressed
<1> QED
  BY <1>1, <1>2, <1>3, <1>4, <1>5, <1>6, <1>7 DEF Startup

\* What the game manager does to one actor.
LEMMA ActorInv ==
    ASSUME Inv, NEW a \in Actors,
           LoadMapActor(a) \/ AddActor(a) \/ SendMapLoaded(a)
             \/ TakeOut(a) \/ ShutdownActor(a)
    PROVE  Inv'
<1> USE DEF Inv, Typed, ViewersAccounted, UnmadeUntold
<1>1. CASE LoadMapActor(a)
  BY <1>1 DEF LoadMapActor, CreateDrawable
<1>2. CASE AddActor(a)
  <2>1. PICK file \in EarthFiles : OnEnteredWorld(a, file)
    BY <1>2 DEF AddActor
  <2>2. UNCHANGED <<phase, map>>
    BY <1>2 DEF AddActor
  <2>3. views'[a] + orphans'[a] = views[a] + orphans[a] + 1
    BY <2>1 DEF OnEnteredWorld, Build
  <2>4. \A b \in Actors \ {a} : views'[b] = views[b] /\ orphans'[b] = orphans[b]
    BY <2>1 DEF OnEnteredWorld, Build
  <2>5. Typed'
    <3>1. views' \in [Actors -> Nat] /\ orphans' \in [Actors -> Nat]
      BY <2>1 DEF OnEnteredWorld, Build
    <3>2. entries' \in [Actors -> 0 .. MaxEntries]
      <4>1. entries[a] + 1 \in 0 .. MaxEntries
        BY <2>1 DEF OnEnteredWorld
      <4> QED
        BY <2>1, <4>1 DEF OnEnteredWorld
    <3> QED
      BY <2>1, <2>2, <3>1, <3>2 DEF OnEnteredWorld
  <2>6. /\ entries'[a] = entries[a] + 1
        /\ \A b \in Actors \ {a} : entries'[b] = entries[b]
        /\ mConfig' = mConfig
    BY <2>1 DEF OnEnteredWorld
  <2>7. ViewersAccounted'
    BY <2>3, <2>4, <2>5, <2>6
  <2> QED
    BY <2>1, <2>2, <2>5, <2>7 DEF OnEnteredWorld
<1>3. CASE SendMapLoaded(a)
  <2>1. PICK file \in EarthFiles : ProcessMessage(a, "INFO_MAP_LOADED", file)
    BY <1>3 DEF SendMapLoaded
  <2>2. UNCHANGED <<phase, map>>
    BY <1>3 DEF SendMapLoaded
  <2> USE DEF ProcessMessage, OnMapLoaded
  <2>3. views'[a] + orphans'[a] = views[a] + orphans[a] + 1
    BY <2>1 DEF Build
  <2>4. \A b \in Actors \ {a} : views'[b] = views[b] /\ orphans'[b] = orphans[b]
    BY <2>1 DEF Build
  <2>5. Typed'
    BY <2>1, <2>2 DEF Build
  <2>6. ViewersAccounted'
    BY <2>1, <2>3, <2>4
  <2> QED
    BY <2>1, <2>2, <2>5, <2>6
<1>4. CASE TakeOut(a)
  BY <1>4 DEF TakeOut, RemoveActor, DeleteActor
<1>5. CASE ShutdownActor(a)
  BY <1>5 DEF ShutdownActor, RemoveActor, DeleteActor
<1> QED
  BY <1>1, <1>2, <1>3, <1>4, <1>5

LEMMA NextInv == Inv /\ [Next]_vars => Inv'
<1> SUFFICES ASSUME Inv, [Next]_vars PROVE Inv'
  OBVIOUS
<1>1. CASE Startup \/ HandleKeyPressed
  BY <1>1, StartupInv
<1>2. CASE MapLoaded
  BY <1>2 DEF MapLoaded, Inv, Typed, ViewersAccounted, UnmadeUntold, actorVars
<1>3. CASE UnloadActorRegistry
  BY <1>3 DEF UnloadActorRegistry, DestroyPluginRegistry, Inv, Typed, ViewersAccounted, UnmadeUntold
<1>4. CASE \E a \in Actors : \/ LoadMapActor(a) \/ AddActor(a) \/ SendMapLoaded(a)
                             \/ TakeOut(a) \/ ShutdownActor(a)
  BY <1>4, ActorInv
<1>5. CASE UNCHANGED vars
  BY <1>5 DEF vars, actorVars, Inv, Typed, ViewersAccounted, UnmadeUntold
<1> QED
  BY <1>1, <1>2, <1>3, <1>4, <1>5 DEF Next

THEOREM Invariant == Spec => []Inv
BY InitInv, NextInv, PTL DEF Spec

\* mConfig and the entries into the world account for every viewer an actor
\* ever makes, whatever the earth file gives.
THEOREM Viewers == Spec => []ViewersAccounted
<1>1. Inv => ViewersAccounted
  BY DEF Inv
<1> QED
  BY <1>1, Invariant, PTL

\* Type correctness; the bound on an actor's viewers is one more than its
\* entries.
THEOREM TypeCorrect == Spec => []TypeOK
<1>1. Inv => TypeOK
  <2> SUFFICES ASSUME Inv PROVE TypeOK
    OBVIOUS
  <2>1. \A a \in Actors : views[a] + orphans[a] <= MaxEntries + 1
    BY DEF Inv, Typed, ViewersAccounted
  <2>2. views \in [Actors -> 0 .. MaxEntries + 1] /\ orphans \in [Actors -> 0 .. MaxEntries + 1]
    BY <2>1 DEF Inv, Typed
  <2> QED
    BY <2>2 DEF Inv, Typed, TypeOK, ActorTypeOK
<1> QED
  BY <1>1, Invariant, PTL
=============================================================================
