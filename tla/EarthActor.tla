----------------------------- MODULE EarthActor -----------------------------
(***************************************************************************)
(* The dtEarth library: its actor registry, EarthActorProxy and            *)
(* EarthActor, and the viewers that an actor's Build makes.  All of it     *)
(* runs on the game manager's thread, so a handler is one step.            *)
(*                                                                         *)
(* The game manager itself belongs to Delta3D: this module only uses that  *)
(* it creates actors of a registered type, adds each to the world and may  *)
(* take it out again, and passes messages on.                              *)
(***************************************************************************)
EXTENDS Naturals, FiniteSets

CONSTANTS Actors,       \* the EarthActors a game creates
          MaxEntries    \* bound: how often an actor enters the world

ASSUME MaxEntriesAssumption == MaxEntries \in Nat \ {0}

VARIABLES
    typeRegistered,     \* EARTH_ACTOR_TYPE is known to the actor factory
    life,               \* each actor: "none", "created", "world" or "deleted"
    mConfig,            \* EarthActor::mConfig
    entries,            \* calls of OnEnteredWorld so far, for each actor
    views,              \* viewers of each actor in the CompositeViewer
    orphans             \* viewers that Build made but did not attach

actorVars == <<typeRegistered, life, mConfig, entries, views, orphans>>

\* What osgDB::readNodeFile("./tests/ocean.earth") may find.
EarthFiles == {"missing", "no_map_node", "map_node"}

\* MapNodeHelper::load: no node for a file it cannot read or that holds no map.
MapNodeHelperLoads(file) == file = "map_node"

ActorInit ==
    /\ typeRegistered = FALSE
    /\ life = [a \in Actors |-> "none"]
    /\ mConfig = [a \in Actors |-> FALSE]
    /\ entries = [a \in Actors |-> 0]
    /\ views = [a \in Actors |-> 0]
    /\ orphans = [a \in Actors |-> 0]

RegisterActorTypes ==
    /\ typeRegistered' = TRUE
    /\ UNCHANGED <<life, mConfig, entries, views, orphans>>

\* Deletes the registry and with it the factory's types.
DestroyPluginRegistry ==
    /\ typeRegistered' = FALSE
    /\ UNCHANGED <<life, mConfig, entries, views, orphans>>

\* The factory makes a proxy, whose CreateDrawable makes the actor.
CreateDrawable(a) ==
    /\ typeRegistered
    /\ life[a] = "none"
    /\ life' = [life EXCEPT ![a] = "created"]
    /\ mConfig' = [mConfig EXCEPT ![a] = FALSE]
    /\ UNCHANGED <<typeRegistered, entries, views, orphans>>

\* Build makes a viewer in every case and adds it to the application's
\* CompositeViewer when the earth file gave a node.
Build(a, file) ==
    IF MapNodeHelperLoads(file)
    THEN views' = [views EXCEPT ![a] = @ + 1] /\ UNCHANGED orphans
    ELSE orphans' = [orphans EXCEPT ![a] = @ + 1] /\ UNCHANGED views

OnEnteredWorld(a, file) ==
    /\ life[a] = "created"
    /\ entries[a] < MaxEntries
    /\ life' = [life EXCEPT ![a] = "world"]
    /\ entries' = [entries EXCEPT ![a] = @ + 1]
    /\ Build(a, file)
    /\ UNCHANGED <<typeRegistered, mConfig>>

\* Mutant: the latch is not set after the build.
OnMapLoadedAgain(a, file) ==
    /\ ~mConfig[a]
    /\ Build(a, file)
    /\ UNCHANGED mConfig

\* Builds once: mConfig is set even if Build found no node.
OnMapLoaded(a, file) ==
    /\ ~mConfig[a]
    /\ Build(a, file)
    /\ mConfig' = [mConfig EXCEPT ![a] = TRUE]

ProcessMessage(a, message, file) ==
    /\ life[a] = "world"
    /\ message = "INFO_MAP_LOADED"
    /\ OnMapLoaded(a, file)
    /\ UNCHANGED <<typeRegistered, life, entries>>

\* The actor leaves the world; nothing takes its views out.
RemoveActor(a) ==
    /\ life[a] = "world"
    /\ life' = [life EXCEPT ![a] = "created"]
    /\ UNCHANGED <<typeRegistered, mConfig, entries, views, orphans>>

\* ~EarthActor has an empty body.
DeleteActor(a) ==
    /\ life[a] = "created"
    /\ life' = [life EXCEPT ![a] = "deleted"]
    /\ UNCHANGED <<typeRegistered, mConfig, entries, views, orphans>>

-----------------------------------------------------------------------------
(* Properties                                                              *)

ActorTypeOK ==
    /\ typeRegistered \in BOOLEAN
    /\ life \in [Actors -> {"none", "created", "world", "deleted"}]
    /\ mConfig \in [Actors -> BOOLEAN]
    /\ entries \in [Actors -> 0 .. MaxEntries]
    /\ views \in [Actors -> 0 .. MaxEntries + 1]
    /\ orphans \in [Actors -> 0 .. MaxEntries + 1]

\* Over its whole life an actor has made one viewer per entry into the world,
\* plus one if it has been told of a loaded map: mConfig holds back every later
\* INFO_MAP_LOADED, but not the one after OnEnteredWorld.
ViewersAccounted ==
    \A a \in Actors :
        views[a] + orphans[a] = entries[a] + (IF mConfig[a] THEN 1 ELSE 0)
=============================================================================
