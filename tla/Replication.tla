----------------------------- MODULE Replication -----------------------------
(***************************************************************************)
(* The replication pipeline of LiveWorld: ActorRegistry mutates the world  *)
(* under its own mutex and announces the change on the EventBus only after *)
(* the mutex is released; VisibilityManager and BroadcastManager, each     *)
(* with a mutex of its own, queue the announcement; the replication-tick   *)
(* thread turns the queues into spawn, delta, movement and destroy bunches *)
(* per client.  One TLA+ action is one critical section of the code.  The  *)
(* bunches of a drained diff are emitted after it, one by one: a client    *)
(* that leaves and joins again meanwhile gets what was drained before.     *)
(* Deltas and destroys are emitted with the section that reads who sees    *)
(* the actor: a client that joins again meanwhile shows nothing they could *)
(* reach, for only the tick thread itself spawns.                          *)
(*                                                                         *)
(* Data abstraction: an actor has one property and one location; each      *)
(* mutation writes a fresh version number, so "which value" is "which      *)
(* version".  A guid is spawned at most once: the allocator never hands a  *)
(* slot out twice (module NetGuidAllocator).                               *)
(***************************************************************************)
EXTENDS Naturals

CONSTANTS
    Clients,     \* client keys ("ip:port")
    Guids,       \* actor NetGUIDs
    Threads,     \* threads that call ActorRegistry (one in GameServer: recv)
    Movers,      \* those of them that call its set_location
    Changing,    \* bound: the actors that are mutated, moved or destroyed
    MaxVersion,  \* bound: mutations and movements of an actor
    MaxJoins     \* bound: calls of VisibilityManager::add_client

ASSUME ReplicationAssumption ==
    /\ MaxVersion \in Nat /\ MaxJoins \in Nat
    /\ Movers \subseteq Threads /\ Changing \subseteq Guids

VARIABLES
    actors,          \* ActorRegistry::actors_ (its keys)
    prop, loc,       \* per actor: version of its property and its location
    spawned,         \* guids that have been used by a spawn
    event,           \* per thread: the event committed but not yet on the bus
    knownClients,    \* VisibilityManager::known_clients_
    knownActors,     \* VisibilityManager::known_actors_
    drained,         \* clients with an entry in seen_by_client_
    seen,            \* seen_by_client_
    newlyVisible,    \* pending_diffs_[c].newly_visible
    newlyHidden,     \* pending_diffs_[c].newly_hidden
    dirty,           \* actors whose DirtyEntry has dirty_keys
    moved,           \* DirtyEntry::latest_location, 0 while ~entry.moved
    pendingDestroys, \* BroadcastManager::pending_destroys_
    tickPc,          \* where the tick thread stands in BroadcastManager::tick
    dirtySnapshot, movedSnapshot, destroySnapshot,
    lookup,          \* keys of actor_lookup
    lookupProp, lookupLoc,
    seenClients,     \* clients of seen_clients not yet drained
    spawning, hiding, \* the drained diff: bunches not yet emitted, per client
    purging,         \* destroys emitted, remove_actor not yet called
    view,            \* per client: what the bunches sent to it add up to
    viewProp, viewLoc,
    again,           \* ghost: pairs spawned to a client that had left and joined
                     \* since they were drained, and not spawned again so far
    joins

worldVars == <<actors, prop, loc, spawned>>
visVars   == <<knownClients, knownActors, drained, seen,
               newlyVisible, newlyHidden>>
queueVars == <<dirty, moved, pendingDestroys>>
takenVars == <<dirtySnapshot, movedSnapshot, destroySnapshot>>
lookupVars == <<lookup, lookupProp, lookupLoc>>
diffVars  == <<seenClients, spawning, hiding>>
tickVars  == <<tickPc, takenVars, lookupVars, diffVars, purging>>
viewVars  == <<view, viewProp, viewLoc, again>>
vars == <<worldVars, event, visVars, queueVars, tickVars, viewVars, joins>>

NoEvent == [kind |-> "none"]
Event(k, g, l) == [kind |-> k, guid |-> g, loc |-> l]
Events == [kind : {"spawned", "destroyed", "changed", "moved"},
           guid : Guids, loc : Nat]
NoneMoved == [g \in Guids |-> 0]

TypeOK ==
    /\ spawned \subseteq Guids /\ actors \subseteq spawned
    /\ prop \in [Guids -> Nat] /\ loc \in [Guids -> Nat]
    /\ event \in [Threads -> {NoEvent} \cup Events]
    /\ knownClients \subseteq Clients /\ knownActors \subseteq Guids
    /\ drained \subseteq knownClients
    /\ seen \in [Clients -> SUBSET Guids]
    /\ newlyVisible \in [Clients -> SUBSET Guids]
    /\ newlyHidden \in [Clients -> SUBSET Guids]
    /\ dirty \subseteq Guids /\ moved \in [Guids -> Nat]
    /\ pendingDestroys \subseteq Guids
    /\ tickPc \in {"idle", "lookup", "clients", "emit"}
    /\ dirtySnapshot \subseteq Guids /\ movedSnapshot \in [Guids -> Nat]
    /\ destroySnapshot \subseteq Guids /\ purging \subseteq Guids
    /\ lookup \subseteq Guids
    /\ lookupProp \in [Guids -> Nat] /\ lookupLoc \in [Guids -> Nat]
    /\ seenClients \subseteq Clients
    /\ spawning \subseteq Clients \X Guids /\ hiding \subseteq Clients \X Guids
    /\ again \subseteq knownClients \X Guids
    /\ view \in [Clients -> [Guids -> {"none", "live", "gone"}]]
    /\ viewProp \in [Clients -> [Guids -> Nat]]
    /\ viewLoc \in [Clients -> [Guids -> Nat]]
    /\ joins \in Nat

Init ==
    /\ actors = {} /\ spawned = {}
    /\ prop = [g \in Guids |-> 0] /\ loc = [g \in Guids |-> 0]
    /\ event = [t \in Threads |-> NoEvent]
    /\ knownClients = {} /\ knownActors = {} /\ drained = {}
    /\ seen = [c \in Clients |-> {}]
    /\ newlyVisible = [c \in Clients |-> {}]
    /\ newlyHidden = [c \in Clients |-> {}]
    /\ dirty = {} /\ moved = NoneMoved /\ pendingDestroys = {}
    /\ tickPc = "idle"
    /\ dirtySnapshot = {} /\ movedSnapshot = NoneMoved
    /\ destroySnapshot = {} /\ purging = {}
    /\ lookup = {}
    /\ lookupProp = [g \in Guids |-> 0] /\ lookupLoc = [g \in Guids |-> 0]
    /\ seenClients = {} /\ spawning = {} /\ hiding = {} /\ again = {}
    /\ view = [c \in Clients |-> [g \in Guids |-> "none"]]
    /\ viewProp = [c \in Clients |-> [g \in Guids |-> 0]]
    /\ viewLoc = [c \in Clients |-> [g \in Guids |-> 0]]
    /\ joins = 0

-----------------------------------------------------------------------------
(* ActorRegistry: the critical section; the event leaves it undelivered.   *)

Announce(t, e) == event' = [event EXCEPT ![t] = e]

Spawn(t, g) ==
    /\ event[t] = NoEvent
    /\ g \notin spawned
    /\ actors' = actors \cup {g}
    /\ spawned' = spawned \cup {g}
    /\ Announce(t, Event("spawned", g, 0))
    /\ UNCHANGED <<prop, loc, visVars, queueVars, tickVars, viewVars, joins>>

Destroy(t, g) ==
    /\ event[t] = NoEvent
    /\ g \in actors \cap Changing
    /\ actors' = actors \ {g}
    /\ Announce(t, Event("destroyed", g, 0))
    /\ UNCHANGED <<prop, loc, spawned, visVars, queueVars, tickVars, viewVars,
                   joins>>

SetProperty(t, g) ==
    /\ event[t] = NoEvent
    /\ g \in actors \cap Changing
    /\ prop[g] + loc[g] < MaxVersion
    /\ prop' = [prop EXCEPT ![g] = @ + 1]
    /\ Announce(t, Event("changed", g, 0))
    /\ UNCHANGED <<actors, loc, spawned, visVars, queueVars, tickVars,
                   viewVars, joins>>

SetLocation(t, g) ==
    /\ t \in Movers /\ event[t] = NoEvent
    /\ g \in actors \cap Changing
    /\ prop[g] + loc[g] < MaxVersion
    /\ loc' = [loc EXCEPT ![g] = @ + 1]
    /\ Announce(t, Event("moved", g, loc[g] + 1))
    /\ UNCHANGED <<actors, prop, spawned, visVars, queueVars, tickVars,
                   viewVars, joins>>

-----------------------------------------------------------------------------
(* EventBus::emit calling the BroadcastManager handlers on the same thread *)

Delivered(t, k) == event[t] # NoEvent /\ event[t].kind = k

OnSpawn(t) ==
    /\ Delivered(t, "spawned")
    /\ knownActors' = knownActors \cup {event[t].guid}
    /\ newlyVisible' =
         [c \in Clients |->
            IF c \in knownClients /\ event[t].guid \notin knownActors
            THEN newlyVisible[c] \cup {event[t].guid}
            ELSE newlyVisible[c]]
    /\ Announce(t, NoEvent)
    /\ UNCHANGED <<worldVars, knownClients, drained, seen, newlyHidden,
                   queueVars, tickVars, viewVars, joins>>

\* Faulty: skips actors the visibility manager does not know (yet).
OnDestroyKnownOnly(t) ==
    /\ Delivered(t, "destroyed")
    /\ pendingDestroys' = pendingDestroys \cup ({event[t].guid} \cap knownActors)
    /\ dirty' = dirty \ {event[t].guid}
    /\ moved' = [moved EXCEPT ![event[t].guid] = 0]
    /\ Announce(t, NoEvent)
    /\ UNCHANGED <<worldVars, visVars, tickVars, viewVars, joins>>

\* Faulty: forgets the actor at once, before tick() has asked who saw it.
OnDestroyForgets(t) ==
    /\ Delivered(t, "destroyed")
    /\ pendingDestroys' = pendingDestroys \cup {event[t].guid}
    /\ dirty' = dirty \ {event[t].guid}
    /\ moved' = [moved EXCEPT ![event[t].guid] = 0]
    /\ knownActors' = knownActors \ {event[t].guid}
    /\ Announce(t, NoEvent)
    /\ UNCHANGED <<worldVars, knownClients, drained, seen, newlyVisible,
                   newlyHidden, tickVars, viewVars, joins>>

OnDestroy(t) ==
    /\ Delivered(t, "destroyed")
    /\ pendingDestroys' = pendingDestroys \cup {event[t].guid}
    /\ dirty' = dirty \ {event[t].guid}
    /\ moved' = [moved EXCEPT ![event[t].guid] = 0]
    /\ Announce(t, NoEvent)
    /\ UNCHANGED <<worldVars, visVars, tickVars, viewVars, joins>>

\* Faulty: ignores actors whose spawn has not been delivered.
OnPropertyChangedKnownOnly(t) ==
    /\ Delivered(t, "changed")
    /\ dirty' = dirty \cup ({event[t].guid} \cap knownActors)
    /\ Announce(t, NoEvent)
    /\ UNCHANGED <<worldVars, visVars, moved, pendingDestroys, tickVars,
                   viewVars, joins>>

OnPropertyChanged(t) ==
    /\ Delivered(t, "changed")
    /\ dirty' = dirty \cup {event[t].guid}
    /\ Announce(t, NoEvent)
    /\ UNCHANGED <<worldVars, visVars, moved, pendingDestroys, tickVars,
                   viewVars, joins>>

\* Faulty: the first movement of a tick interval wins.
OnMovedFirstWins(t) ==
    /\ Delivered(t, "moved")
    /\ moved' = [moved EXCEPT ![event[t].guid] = IF @ = 0 THEN event[t].loc ELSE @]
    /\ Announce(t, NoEvent)
    /\ UNCHANGED <<worldVars, visVars, dirty, pendingDestroys, tickVars,
                   viewVars, joins>>

OnMoved(t) ==
    /\ Delivered(t, "moved")
    /\ moved' = [moved EXCEPT ![event[t].guid] = event[t].loc]
    /\ Announce(t, NoEvent)
    /\ UNCHANGED <<worldVars, visVars, dirty, pendingDestroys, tickVars,
                   viewVars, joins>>

-----------------------------------------------------------------------------
(* VisibilityManager: clients come and go on the session side.             *)

AddClient(c) ==
    /\ joins < MaxJoins
    /\ c \notin knownClients
    /\ knownClients' = knownClients \cup {c}
    /\ newlyVisible' = [newlyVisible EXCEPT ![c] = @ \cup knownActors]
    /\ joins' = joins + 1
    /\ UNCHANGED <<worldVars, event, knownActors, drained, seen, newlyHidden,
                   queueVars, tickVars, viewVars>>

\* Faulty: keeps the seen_by_client_ entry of the client.
RemoveClientKeepsSeen(c) ==
    /\ c \in knownClients
    /\ knownClients' = knownClients \ {c}
    /\ newlyVisible' = [newlyVisible EXCEPT ![c] = {}]
    /\ newlyHidden' = [newlyHidden EXCEPT ![c] = {}]
    /\ view' = [view EXCEPT ![c] = [g \in Guids |-> "none"]]
    /\ viewProp' = [viewProp EXCEPT ![c] = [g \in Guids |-> 0]]
    /\ viewLoc' = [viewLoc EXCEPT ![c] = [g \in Guids |-> 0]]
    /\ again' = again \ ({c} \X Guids)
    /\ UNCHANGED <<worldVars, event, knownActors, drained, seen, queueVars,
                   tickVars, joins>>

\* The client is gone and its view with it: a client that joins again under
\* the same key starts from nothing.
RemoveClient(c) ==
    /\ c \in knownClients
    /\ knownClients' = knownClients \ {c}
    /\ drained' = drained \ {c}
    /\ seen' = [seen EXCEPT ![c] = {}]
    /\ newlyVisible' = [newlyVisible EXCEPT ![c] = {}]
    /\ newlyHidden' = [newlyHidden EXCEPT ![c] = {}]
    /\ view' = [view EXCEPT ![c] = [g \in Guids |-> "none"]]
    /\ viewProp' = [viewProp EXCEPT ![c] = [g \in Guids |-> 0]]
    /\ viewLoc' = [viewLoc EXCEPT ![c] = [g \in Guids |-> 0]]
    /\ again' = again \ ({c} \X Guids)
    /\ UNCHANGED <<worldVars, event, knownActors, queueVars, tickVars, joins>>

ClientsSeeing(g) == IF g \in knownActors THEN knownClients ELSE {}

-----------------------------------------------------------------------------
(* BroadcastManager::tick                                                  *)

\* Step 1: take the queues, under mu_.
TickBegin ==
    /\ tickPc = "idle"
    /\ tickPc' = "lookup"
    /\ dirtySnapshot' = dirty /\ dirty' = {}
    /\ movedSnapshot' = moved /\ moved' = NoneMoved
    /\ destroySnapshot' = pendingDestroys /\ pendingDestroys' = {}
    /\ UNCHANGED <<worldVars, event, visVars, lookupVars, diffVars, purging,
                   viewVars, joins>>

\* Faulty: dirty_actors_ is cleared after the snapshot, not with the move.
TickLookupClearsDirty ==
    /\ tickPc = "lookup"
    /\ tickPc' = "clients"
    /\ lookup' = actors /\ lookupProp' = prop /\ lookupLoc' = loc
    /\ dirty' = {}
    /\ UNCHANGED <<worldVars, event, visVars, moved, pendingDestroys, takenVars,
                   diffVars, purging, viewVars, joins>>

\* actors_.snapshot(), under the registry's mutex.
TickLookup ==
    /\ tickPc = "lookup"
    /\ tickPc' = "clients"
    /\ lookup' = actors /\ lookupProp' = prop /\ lookupLoc' = loc
    /\ UNCHANGED <<worldVars, event, visVars, queueVars, takenVars, diffVars,
                   purging, viewVars, joins>>

\* The clients to drain are the union of clients_seeing over the snapshot.
TickClients ==
    /\ tickPc = "clients"
    /\ tickPc' = "emit"
    /\ seenClients' = UNION {ClientsSeeing(g) : g \in lookup}
    /\ UNCHANGED <<worldVars, event, visVars, queueVars, takenVars, lookupVars,
                   spawning, hiding, purging, viewVars, joins>>

DiffEmitted == spawning = {} /\ hiding = {}

\* The bunches one drained diff makes: spawns first, then destroys.  An actor
\* missing from the snapshot is skipped, though drain has marked it seen.
SpawnsFor(c) == newlyVisible[c] \cap lookup
HidesFor(c) == newlyHidden[c]

\* Faulty: the pending diff is copied, not moved out.
TickDrainKeepsDiff(c) ==
    /\ tickPc = "emit" /\ DiffEmitted
    /\ c \in seenClients /\ c \in knownClients
    /\ seenClients' = seenClients \ {c}
    /\ drained' = drained \cup {c}
    /\ seen' = [seen EXCEPT ![c] = @ \cup newlyVisible[c]]
    /\ spawning' = {c} \X SpawnsFor(c) /\ hiding' = {c} \X HidesFor(c)
    /\ UNCHANGED <<worldVars, event, knownClients, knownActors, newlyVisible,
                   newlyHidden, queueVars, tickPc, takenVars, lookupVars,
                   purging, viewVars, joins>>

\* drain_diff_for_client: the pending diff is moved out, under its mutex.
TickDrain(c) ==
    /\ tickPc = "emit" /\ DiffEmitted
    /\ c \in seenClients /\ c \in knownClients
    /\ seenClients' = seenClients \ {c}
    /\ drained' = drained \cup {c}
    /\ seen' = [seen EXCEPT ![c] = @ \cup newlyVisible[c]]
    /\ newlyVisible' = [newlyVisible EXCEPT ![c] = {}]
    /\ newlyHidden' = [newlyHidden EXCEPT ![c] = {}]
    /\ spawning' = {c} \X SpawnsFor(c) /\ hiding' = {c} \X HidesFor(c)
    /\ UNCHANGED <<worldVars, event, knownClients, knownActors, queueVars,
                   tickPc, takenVars, lookupVars, purging, viewVars, joins>>

\* drain_diff_for_client of a client removed meanwhile: no pending diff.
TickDrainGone(c) ==
    /\ tickPc = "emit" /\ DiffEmitted
    /\ c \in seenClients /\ c \notin knownClients
    /\ seenClients' = seenClients \ {c}
    /\ UNCHANGED <<worldVars, event, visVars, queueVars, tickPc, takenVars,
                   lookupVars, spawning, hiding, purging, viewVars, joins>>

\* Faulty: reads the registry again, and the delta of this tick does not.
EmitSpawnLive(c, g) ==
    /\ <<c, g>> \in spawning /\ c \in knownClients
    /\ spawning' = spawning \ {<<c, g>>}
    /\ view' = [view EXCEPT ![c][g] = "live"]
    /\ viewProp' = [viewProp EXCEPT ![c][g] = prop[g]]
    /\ viewLoc' = [viewLoc EXCEPT ![c][g] = loc[g]]
    /\ again' = IF c \in drained THEN again \ {<<c, g>>} ELSE again \cup {<<c, g>>}
    /\ UNCHANGED <<worldVars, event, visVars, queueVars, tickPc, takenVars,
                   lookupVars, seenClients, hiding, purging, joins>>

\* emit_spawn goes to whoever has the client's key by now.  A client that has
\* left and joined since the drain, which has no seen_by_client_ entry yet, has
\* the actor in its new pending diff as well.
EmitSpawn(c, g) ==
    /\ <<c, g>> \in spawning /\ c \in knownClients
    /\ spawning' = spawning \ {<<c, g>>}
    /\ view' = [view EXCEPT ![c][g] = "live"]
    /\ viewProp' = [viewProp EXCEPT ![c][g] = lookupProp[g]]
    /\ viewLoc' = [viewLoc EXCEPT ![c][g] = lookupLoc[g]]
    /\ again' = IF c \in drained THEN again \ {<<c, g>>} ELSE again \cup {<<c, g>>}
    /\ UNCHANGED <<worldVars, event, visVars, queueVars, tickPc, takenVars,
                   lookupVars, seenClients, hiding, purging, joins>>

EmitHide(c, g) ==
    /\ spawning = {} /\ <<c, g>> \in hiding /\ c \in knownClients
    /\ hiding' = hiding \ {<<c, g>>}
    /\ view' = [view EXCEPT ![c][g] = "gone"]
    /\ UNCHANGED <<worldVars, event, visVars, queueVars, tickPc, takenVars,
                   lookupVars, seenClients, spawning, purging, viewProp, viewLoc,
                   again, joins>>

\* The client is gone, and the bunches drained for it with it.
EmitToNobody(c) ==
    /\ tickPc = "emit" /\ ~DiffEmitted
    /\ c \notin knownClients
    /\ spawning' = spawning \ ({c} \X Guids) /\ hiding' = hiding \ ({c} \X Guids)
    /\ UNCHANGED <<worldVars, event, visVars, queueVars, tickPc, takenVars,
                   lookupVars, seenClients, purging, viewVars, joins>>

DrainsDone == seenClients = {} /\ DiffEmitted

\* One dirty actor: the delta carries the snapshot's property, the movement
\* the location its event carried.  A client without the actor drops both.
DeltaTargets(g) == IF g \in lookup THEN ClientsSeeing(g) ELSE {}

TickDelta(g) ==
    /\ tickPc = "emit" /\ DrainsDone
    /\ g \in dirtySnapshot \/ movedSnapshot[g] > 0
    /\ dirtySnapshot' = dirtySnapshot \ {g}
    /\ movedSnapshot' = [movedSnapshot EXCEPT ![g] = 0]
    /\ viewProp' =
         [c \in Clients |->
            IF c \in DeltaTargets(g) /\ view[c][g] = "live" /\ g \in dirtySnapshot
            THEN [viewProp[c] EXCEPT ![g] = lookupProp[g]]
            ELSE viewProp[c]]
    /\ viewLoc' =
         [c \in Clients |->
            IF c \in DeltaTargets(g) /\ view[c][g] = "live" /\ movedSnapshot[g] > 0
            THEN [viewLoc[c] EXCEPT ![g] = movedSnapshot[g]]
            ELSE viewLoc[c]]
    /\ UNCHANGED <<worldVars, event, visVars, queueVars, tickPc, destroySnapshot,
                   lookupVars, diffVars, purging, view, again, joins>>

DeltasDone == DrainsDone /\ dirtySnapshot = {} /\ movedSnapshot = NoneMoved

\* emit_destroy to clients_seeing(g); remove_actor is a later lock.
TickDestroy(g) ==
    /\ tickPc = "emit" /\ DeltasDone
    /\ g \in destroySnapshot /\ purging = {}
    /\ destroySnapshot' = destroySnapshot \ {g}
    /\ purging' = {g}
    /\ view' = [c \in Clients |->
                  IF c \in ClientsSeeing(g) THEN [view[c] EXCEPT ![g] = "gone"]
                  ELSE view[c]]
    /\ UNCHANGED <<worldVars, event, visVars, queueVars, tickPc, dirtySnapshot,
                   movedSnapshot, lookupVars, diffVars, viewProp, viewLoc, again,
                   joins>>

\* VisibilityManager::remove_actor: only clients with a seen_by_client_ entry
\* are visited, so one that was never drained keeps g in its pending diff.
TickPurge(g) ==
    /\ g \in purging
    /\ purging' = {}
    /\ knownActors' = knownActors \ {g}
    /\ seen' = [c \in Clients |->
                  IF g \in knownActors /\ c \in drained THEN seen[c] \ {g}
                  ELSE seen[c]]
    /\ newlyHidden' =
         [c \in Clients |->
            IF g \in knownActors /\ c \in drained /\ g \in seen[c]
            THEN newlyHidden[c] \cup {g} ELSE newlyHidden[c]]
    /\ newlyVisible' =
         [c \in Clients |->
            IF g \in knownActors /\ c \in drained /\ g \notin seen[c]
            THEN newlyVisible[c] \ {g} ELSE newlyVisible[c]]
    /\ UNCHANGED <<worldVars, event, knownClients, drained, queueVars, tickPc,
                   takenVars, lookupVars, diffVars, viewVars, joins>>

\* tick() returns; tick_loop sleeps until the next boundary.
TickEnd ==
    /\ tickPc = "emit" /\ DeltasDone
    /\ destroySnapshot = {} /\ purging = {}
    /\ tickPc' = "idle"
    /\ lookup' = {}
    /\ lookupProp' = [g \in Guids |-> 0] /\ lookupLoc' = [g \in Guids |-> 0]
    /\ UNCHANGED <<worldVars, event, visVars, queueVars, takenVars, diffVars,
                   purging, viewVars, joins>>

-----------------------------------------------------------------------------

Mutate(t) == \E g \in Guids : \/ Spawn(t, g) \/ Destroy(t, g)
                              \/ SetProperty(t, g) \/ SetLocation(t, g)

Deliver(t) == \/ OnSpawn(t) \/ OnDestroy(t)
              \/ OnPropertyChanged(t) \/ OnMoved(t)

Tick == \/ TickBegin \/ TickLookup \/ TickClients
        \/ \E c \in Clients : TickDrain(c) \/ TickDrainGone(c) \/ EmitToNobody(c)
        \/ \E c \in Clients, g \in Guids : EmitSpawn(c, g) \/ EmitHide(c, g)
        \/ \E g \in Guids : TickDelta(g) \/ TickDestroy(g) \/ TickPurge(g)
        \/ TickEnd

Next == \/ \E t \in Threads : Mutate(t) \/ Deliver(t)
        \/ \E c \in Clients : AddClient(c) \/ RemoveClient(c)
        \/ Tick

\* tick_loop runs until stop(), and a thread that has mutated the registry
\* goes on to emit the event in the same call.
Fairness == WF_vars(Tick) /\ \A t \in Threads : WF_vars(Deliver(t))

Spec == Init /\ [][Next]_vars
FairSpec == Spec /\ Fairness

-----------------------------------------------------------------------------
(* Properties                                                              *)

InFlight(k, g) == \E t \in Threads : Delivered(t, k) /\ event[t].guid = g

\* The tick under way will still send the delta of g, from a snapshot that is
\* either not taken yet or up to date.
DeltaComing(g) == /\ g \in dirtySnapshot
                  /\ \/ tickPc = "lookup"
                     \/ g \in lookup /\ lookupProp[g] = prop[g]

\* No property change is lost: whenever a client shows an outdated property of
\* a living actor, the newer value is still on its way, in an event a thread
\* has yet to deliver, in dirty_actors_, or in the delta of the current tick.
\* This rests on tick() taking dirty_actors_ before actors_.snapshot().
NoLostUpdate ==
    \A c \in knownClients, g \in actors :
        view[c][g] = "live" /\ viewProp[c][g] # prop[g]
        => g \in dirty \/ InFlight("changed", g) \/ DeltaComing(g)

\* The registry's location of g is queued for the next tick, or about to be.
MoveQueued(g) == \/ moved[g] = loc[g]
                 \/ \E t \in Threads : event[t] = Event("moved", g, loc[g])

MoveComing(g) == /\ movedSnapshot[g] = loc[g]
                 /\ tickPc = "lookup" \/ g \in lookup

\* No movement is lost: the location a client shows is the registry's, or the
\* registry's is still queued.  ActorMoved carries the location by value, so
\* this needs events to be delivered in the order of the mutations, which
\* ActorRegistry gives to a single calling thread only.
NoLostMove ==
    \A c \in knownClients, g \in actors :
        view[c][g] = "live" /\ viewLoc[c][g] # loc[g]
        => MoveQueued(g) \/ MoveComing(g)

\* No ghosts: an actor that a client still shows although the registry has
\* dropped it has its destroy queued somewhere on the way to that client.
NoGhost ==
    \A c \in knownClients, g \in Guids \ actors :
        view[c][g] = "live"
        => g \in pendingDestroys \cup destroySnapshot \/ InFlight("destroyed", g)

\* "spawn only fires once per actor-client pair" (visibility_manager.h:65): a
\* spawn reaches only a client that has not shown the actor in its present
\* membership.  The code gives this but for a client that has left and joined
\* again between a drain and its emissions: it gets those spawns, and each of
\* them once more from its new diff, and no third time.
SpawnOnce ==
    [][\A c \in Clients, g \in Guids :
         EmitSpawn(c, g) /\ <<c, g>> \notin again => view[c][g] = "none"]_vars

\* The pipeline implements ReplicaView: seen from a client, all the queues and
\* the tick add up to a late but never invented, never rewound and never
\* resurrected copy of the world.
Replica == INSTANCE ReplicaView
ImplementsReplicaView == Replica!Spec

\* A destroyed actor disappears from every client that shows it.
DestroyReaches ==
    \A c \in Clients, g \in Guids :
        (view[c][g] = "live" /\ g \notin actors) ~> view[c][g] # "live"

\* A client that shows an actor ends up with its latest property and location,
\* or without the actor.
UpdateReaches ==
    \A c \in Clients, g \in Guids :
        (view[c][g] = "live" /\ <<viewProp[c][g], viewLoc[c][g]>> # <<prop[g], loc[g]>>)
        ~> (view[c][g] # "live"
            \/ <<viewProp[c][g], viewLoc[c][g]>> = <<prop[g], loc[g]>>)

Quiet == /\ tickPc = "idle" /\ dirty = {} /\ pendingDestroys = {}
         /\ \A t \in Threads : event[t] = NoEvent
         /\ \A c \in Clients : newlyVisible[c] = {}

\* "Register an actor ... it immediately becomes visible to all known clients"
\* (visibility_manager.h:32): with nothing left queued, every client shows
\* every actor.
AllSeeAll ==
    Quiet => \A c \in knownClients, g \in actors : view[c][g] = "live"
=============================================================================
