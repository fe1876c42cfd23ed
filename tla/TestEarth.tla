------------------------------ MODULE TestEarth ------------------------------
(***************************************************************************)
(* The testEarth application: TestEarthEntryPoint, its input component and *)
(* the game manager's use of the dtEarth library.                          *)
(*                                                                         *)
(* OnStartup runs from top to bottom before the first frame; ChangeMap     *)
(* only asks for the map, which the game manager loads in later frames:    *)
(* it creates the map's actors, adds them to the world and then announces  *)
(* the map.  SetProjectContext and ChangeMap may throw; OnStartup logs     *)
(* that and the application runs on without a map.                         *)
(***************************************************************************)
EXTENDS EarthActor

CONSTANT Listeners      \* the actors the game registered for INFO_MAP_LOADED:
                        \* none as the library is written (the call in
                        \* OnEnteredWorld is commented out)

ASSUME ListenersAssumption == Listeners \subseteq Actors

VARIABLES
    phase,              \* the entry point's next call, "running" or "quit"
    map                 \* the game manager's map: "none", "loading", "loaded"

vars == <<actorVars, phase, map>>

Phases == {"Initialize", "LoadActorRegistry", "AddComponent",
           "SetProjectContext", "ChangeMap", "running", "quit"}

Init == ActorInit /\ phase = "Initialize" /\ map = "none"

Initialize ==
    /\ phase = "Initialize"
    /\ phase' = "LoadActorRegistry"
    /\ UNCHANGED <<actorVars, map>>

LoadActorRegistry ==
    /\ phase = "LoadActorRegistry"
    /\ phase' = "AddComponent"
    /\ RegisterActorTypes
    /\ UNCHANGED map

AddComponent ==
    /\ phase = "AddComponent"
    /\ phase' = "SetProjectContext"
    /\ UNCHANGED <<actorVars, map>>

SetProjectContext ==
    /\ phase = "SetProjectContext"
    /\ phase' = "ChangeMap"
    /\ UNCHANGED <<actorVars, map>>

ChangeMap ==
    /\ phase = "ChangeMap"
    /\ phase' = "running"
    /\ map' = "loading"
    /\ UNCHANGED actorVars

\* catch (const dtUtil::Exception& e): logged, and OnStartup returns.
StartupException ==
    /\ phase \in {"SetProjectContext", "ChangeMap"}
    /\ phase' = "running"
    /\ UNCHANGED <<actorVars, map>>

\* Escape quits from then on: the component is there.
HandleKeyPressed ==
    /\ phase = "running"
    /\ phase' = "quit"
    /\ UNCHANGED <<actorVars, map>>

-----------------------------------------------------------------------------
(* The game manager.                                                       *)

LoadMapActor(a) ==
    /\ phase = "running"
    /\ map = "loading"
    /\ CreateDrawable(a)
    /\ UNCHANGED <<phase, map>>

\* Actors of the map enter the world while it loads, others, and those taken
\* out before, at any time.
AddActor(a) ==
    /\ phase = "running"
    /\ \E file \in EarthFiles : OnEnteredWorld(a, file)
    /\ UNCHANGED <<phase, map>>

\* The map is announced when all of its actors are in.
MapLoaded ==
    /\ phase = "running"
    /\ map = "loading"
    /\ \A a \in Actors : life[a] # "none" /\ entries[a] > 0
    /\ map' = "loaded"
    /\ UNCHANGED <<actorVars, phase>>

\* The announcement reaches the actors that registered for it.
SendMapLoaded(a) ==
    /\ phase = "running"
    /\ map = "loaded"
    /\ a \in Listeners
    /\ \E file \in EarthFiles : ProcessMessage(a, "INFO_MAP_LOADED", file)
    /\ UNCHANGED <<phase, map>>

TakeOut(a) ==
    /\ phase = "running"
    /\ RemoveActor(a) \/ DeleteActor(a)
    /\ UNCHANGED <<phase, map>>

\* The game manager unloads the library when nothing of it is left.
UnloadActorRegistry ==
    /\ phase = "quit"
    /\ typeRegistered
    /\ \A a \in Actors : life[a] \in {"none", "deleted"}
    /\ DestroyPluginRegistry
    /\ UNCHANGED <<phase, map>>

\* At shutdown it drops its actors first.
ShutdownActor(a) ==
    /\ phase = "quit"
    /\ RemoveActor(a) \/ DeleteActor(a)
    /\ UNCHANGED <<phase, map>>

Startup ==
    \/ Initialize
    \/ LoadActorRegistry
    \/ AddComponent
    \/ SetProjectContext
    \/ ChangeMap
    \/ StartupException

Next ==
    \/ Startup
    \/ HandleKeyPressed
    \/ MapLoaded
    \/ UnloadActorRegistry
    \/ \E a \in Actors : \/ LoadMapActor(a) \/ AddActor(a) \/ SendMapLoaded(a)
                         \/ TakeOut(a) \/ ShutdownActor(a)

Spec == Init /\ [][Next]_vars

-----------------------------------------------------------------------------
(* Properties                                                              *)

\* Type invariant.
TypeOK ==
    /\ ActorTypeOK
    /\ phase \in Phases
    /\ map \in {"none", "loading", "loaded"}
=============================================================================
