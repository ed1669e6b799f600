------------------------- MODULE ReplicationProofs -------------------------
(* Proofs about Replication, for any sets of clients, guids and threads;    *)
(* movements need a single mover, as GameServer has.                        *)
EXTENDS Replication, TLAPS

-----------------------------------------------------------------------------
(* The inductive invariant.                                                *)

\* Between ticks the locals of tick() are empty; destroys come last.
TickShape ==
    /\ tickPc \in {"idle", "lookup"} => lookup = {}
    /\ tickPc = "idle" => dirtySnapshot = {} /\ destroySnapshot = {}
    /\ tickPc # "emit" => DrainsDone
    /\ purging # {} => tickPc = "emit" /\ DrainsDone

\* A guid is anywhere only if it has been spawned.
Origins ==
    /\ knownActors \subseteq spawned /\ lookup \subseteq spawned
    /\ pendingDestroys \cup destroySnapshot \cup purging \subseteq spawned
    /\ \A t \in Threads : event[t] # NoEvent => event[t].guid \in spawned
    /\ \A c \in Clients :
         newlyVisible[c] \cup newlyHidden[c] \cup seen[c] \subseteq spawned
    /\ \A c \in Clients, g \in Guids :
         view[c][g] # "none" \/ <<c, g>> \in spawning \cup hiding => g \in spawned

\* What is queued for destruction, or hidden, is dead: out of the registry
\* and out of the snapshot the tick emits from.
Dead ==
    /\ (pendingDestroys \cup destroySnapshot \cup purging) \cap actors = {}
    /\ (destroySnapshot \cup purging) \cap lookup = {}
    /\ \A t \in Threads : Delivered(t, "destroyed") => event[t].guid \notin actors
    /\ \A c \in Clients : newlyHidden[c] \cap (actors \cup lookup) = {}
    /\ \A c \in Clients, g \in Guids :
         view[c][g] = "gone" \/ <<c, g>> \in hiding => g \notin actors \cup lookup

\* A client is shown only actors the visibility manager knows, and nothing
\* before it is known; what is queued to appear is not shown yet, but for the
\* spawns that reached a client which had left and joined again.
Known ==
    /\ \A c \in Clients : newlyVisible[c] \cap (actors \cup lookup) \subseteq knownActors
    /\ \A c \in Clients, g \in Guids : <<c, g>> \in spawning =>
         /\ g \in lookup \cap knownActors
         /\ c \in drained => g \notin newlyVisible[c]
    /\ \A c \in Clients, g \in Guids : view[c][g] = "live" =>
         /\ g \in knownActors /\ g \notin purging
         /\ <<c, g>> \notin again => g \notin newlyVisible[c] /\ <<c, g>> \notin spawning
    /\ \A c \in Clients \ knownClients, g \in Guids : view[c][g] = "none"

\* Versions only grow from the client to the snapshot to the registry.
Fresh ==
    /\ \A g \in Guids : lookupProp[g] <= prop[g]
    /\ \A c \in Clients, g \in Guids : view[c][g] = "live" =>
         /\ viewProp[c][g] <= prop[g]
         /\ g \in lookup => viewProp[c][g] <= lookupProp[g]

\* Whatever has changed since the snapshot was taken is queued for the next
\* tick: nothing leaves the queues while a snapshot is in use.
SnapshotCovered ==
    \A g \in lookup :
        /\ g \notin actors => g \in pendingDestroys \/ InFlight("destroyed", g)
        /\ g \in actors /\ lookupProp[g] # prop[g]
             => g \in dirty \/ InFlight("changed", g)

IInv == /\ TypeOK /\ TickShape /\ Origins /\ Dead /\ Known /\ Fresh
        /\ SnapshotCovered /\ NoGhost /\ NoLostUpdate

-----------------------------------------------------------------------------
\* Every step keeps the types, and with them the two inclusions the mutexes
\* maintain: live actors were spawned, drained clients are known.
LEMMA TypeNext == TypeOK /\ [Next]_vars => TypeOK'
<1> SUFFICES ASSUME TypeOK, [Next]_vars PROVE TypeOK'
  OBVIOUS
<1> USE ReplicationAssumption DEF TypeOK, Announce, Event, Events, NoneMoved, Delivered, worldVars,
            visVars, queueVars, tickVars, takenVars, lookupVars,
            diffVars, viewVars
<1>1. ASSUME NEW t \in Threads, NEW g \in Guids, Spawn(t, g) PROVE TypeOK'
  BY <1>1 DEF Spawn
<1>2. ASSUME NEW t \in Threads, NEW g \in Guids, Destroy(t, g) PROVE TypeOK'
  BY <1>2 DEF Destroy
<1>3. ASSUME NEW t \in Threads, NEW g \in Guids, SetProperty(t, g) PROVE TypeOK'
  BY <1>3 DEF SetProperty
<1>4. ASSUME NEW t \in Threads, NEW g \in Guids, SetLocation(t, g) PROVE TypeOK'
  BY <1>4 DEF SetLocation
<1>5. ASSUME NEW t \in Threads, OnSpawn(t) PROVE TypeOK'
  BY <1>5 DEF OnSpawn
<1>6. ASSUME NEW t \in Threads, OnDestroy(t) PROVE TypeOK'
  BY <1>6 DEF OnDestroy
<1>7. ASSUME NEW t \in Threads, OnPropertyChanged(t) PROVE TypeOK'
  BY <1>7 DEF OnPropertyChanged
<1>8. ASSUME NEW t \in Threads, OnMoved(t) PROVE TypeOK'
  BY <1>8 DEF OnMoved
<1>9. ASSUME NEW c \in Clients, AddClient(c) PROVE TypeOK'
  BY <1>9 DEF AddClient
<1>10. ASSUME NEW c \in Clients, RemoveClient(c) PROVE TypeOK'
  BY <1>10 DEF RemoveClient
<1>11. ASSUME TickBegin PROVE TypeOK'
  BY <1>11 DEF TickBegin
<1>12. ASSUME TickLookup PROVE TypeOK'
  BY <1>12 DEF TickLookup
<1>13. ASSUME TickClients PROVE TypeOK'
  BY <1>13 DEF TickClients, ClientsSeeing
<1>14. ASSUME NEW c \in Clients, TickDrain(c) PROVE TypeOK'
  BY <1>14 DEF TickDrain, SpawnsFor, HidesFor, DiffEmitted
<1>15. ASSUME NEW c \in Clients, TickDrainGone(c) PROVE TypeOK'
  BY <1>15 DEF TickDrainGone, DiffEmitted
<1>16. ASSUME NEW g \in Guids, TickDelta(g) PROVE TypeOK'
  BY <1>16 DEF TickDelta, DeltaTargets, ClientsSeeing
<1>17. ASSUME NEW g \in Guids, TickDestroy(g) PROVE TypeOK'
  BY <1>17 DEF TickDestroy, ClientsSeeing
<1>18. ASSUME NEW g \in Guids, TickPurge(g) PROVE TypeOK'
  BY <1>18 DEF TickPurge
<1>19. ASSUME TickEnd PROVE TypeOK'
  BY <1>19 DEF TickEnd
<1>20. ASSUME NEW c \in Clients, NEW g \in Guids, EmitSpawn(c, g) PROVE TypeOK'
  BY <1>20 DEF EmitSpawn
<1>21. ASSUME NEW c \in Clients, NEW g \in Guids, EmitHide(c, g) PROVE TypeOK'
  BY <1>21 DEF EmitHide
<1>22. ASSUME NEW c \in Clients, EmitToNobody(c) PROVE TypeOK'
  BY <1>22 DEF EmitToNobody, DiffEmitted
<1>23. CASE UNCHANGED vars
  BY <1>23 DEF vars
<1>24. QED
  BY <1>1, <1>2, <1>3, <1>4, <1>5, <1>6, <1>7, <1>8, <1>9, <1>10, <1>11,
     <1>12, <1>13, <1>14, <1>15, <1>16, <1>17, <1>18, <1>19, <1>20, <1>21,
     <1>22, <1>23 DEF Next, Mutate, Deliver, Tick

\* The locals of tick() are empty whenever they should be.
LEMMA ShapeNext == TypeOK /\ TickShape /\ [Next]_vars => TickShape'
<1> SUFFICES ASSUME TypeOK, TickShape, [Next]_vars PROVE TickShape'
  OBVIOUS
<1> USE DEF TypeOK, TickShape, DrainsDone, DiffEmitted,
            Announce, Event, Events, NoneMoved, NoEvent, Delivered, worldVars,
            visVars, queueVars, tickVars, takenVars, lookupVars,
            diffVars, viewVars
<1>1. ASSUME NEW t \in Threads, NEW g \in Guids, Spawn(t, g) PROVE TickShape'
  BY <1>1 DEF Spawn
<1>2. ASSUME NEW t \in Threads, NEW g \in Guids, Destroy(t, g) PROVE TickShape'
  BY <1>2 DEF Destroy
<1>3. ASSUME NEW t \in Threads, NEW g \in Guids, SetProperty(t, g) PROVE TickShape'
  BY <1>3 DEF SetProperty
<1>4. ASSUME NEW t \in Threads, NEW g \in Guids, SetLocation(t, g) PROVE TickShape'
  BY <1>4 DEF SetLocation
<1>5. ASSUME NEW t \in Threads, OnSpawn(t) PROVE TickShape'
  BY <1>5 DEF OnSpawn
<1>6. ASSUME NEW t \in Threads, OnDestroy(t) PROVE TickShape'
  BY <1>6 DEF OnDestroy
<1>7. ASSUME NEW t \in Threads, OnPropertyChanged(t) PROVE TickShape'
  BY <1>7 DEF OnPropertyChanged
<1>8. ASSUME NEW t \in Threads, OnMoved(t) PROVE TickShape'
  BY <1>8 DEF OnMoved
<1>9. ASSUME NEW c \in Clients, AddClient(c) PROVE TickShape'
  BY <1>9 DEF AddClient
<1>10. ASSUME NEW c \in Clients, RemoveClient(c) PROVE TickShape'
  BY <1>10 DEF RemoveClient
<1>11. ASSUME TickBegin PROVE TickShape'
  BY <1>11 DEF TickBegin
<1>12. ASSUME TickLookup PROVE TickShape'
  BY <1>12 DEF TickLookup
<1>13. ASSUME TickClients PROVE TickShape'
  BY <1>13 DEF TickClients, ClientsSeeing
<1>14. ASSUME NEW c \in Clients, TickDrain(c) PROVE TickShape'
  BY <1>14 DEF TickDrain, SpawnsFor, HidesFor, DiffEmitted
<1>15. ASSUME NEW c \in Clients, TickDrainGone(c) PROVE TickShape'
  BY <1>15 DEF TickDrainGone, DiffEmitted
<1>16. ASSUME NEW g \in Guids, TickDelta(g) PROVE TickShape'
  BY <1>16 DEF TickDelta, DeltaTargets, ClientsSeeing, DeltasDone, DrainsDone, DiffEmitted
<1>17. ASSUME NEW g \in Guids, TickDestroy(g) PROVE TickShape'
  BY <1>17 DEF TickDestroy, ClientsSeeing, DeltasDone, DrainsDone, DiffEmitted
<1>18. ASSUME NEW g \in Guids, TickPurge(g) PROVE TickShape'
  BY <1>18 DEF TickPurge
<1>19. ASSUME TickEnd PROVE TickShape'
  BY <1>19 DEF TickEnd, DeltasDone, DrainsDone, DiffEmitted
<1>20. ASSUME NEW c \in Clients, NEW g \in Guids, EmitSpawn(c, g) PROVE TickShape'
  BY <1>20 DEF EmitSpawn
<1>21. ASSUME NEW c \in Clients, NEW g \in Guids, EmitHide(c, g) PROVE TickShape'
  BY <1>21 DEF EmitHide
<1>22. ASSUME NEW c \in Clients, EmitToNobody(c) PROVE TickShape'
  BY <1>22 DEF EmitToNobody, DiffEmitted
<1>23. CASE UNCHANGED vars
  BY <1>23 DEF vars
<1>24. QED
  BY <1>1, <1>2, <1>3, <1>4, <1>5, <1>6, <1>7, <1>8, <1>9, <1>10, <1>11,
     <1>12, <1>13, <1>14, <1>15, <1>16, <1>17, <1>18, <1>19, <1>20, <1>21,
     <1>22, <1>23 DEF Next, Mutate, Deliver, Tick

\* No guid is invented.
LEMMA OriginsNext == TypeOK /\ Origins /\ [Next]_vars => Origins'
<1> SUFFICES ASSUME TypeOK, Origins, [Next]_vars PROVE Origins'
  OBVIOUS
<1> USE DEF TypeOK, Origins,
            Announce, Event, Events, NoneMoved, NoEvent, Delivered, worldVars,
            visVars, queueVars, tickVars, takenVars, lookupVars,
            diffVars, viewVars
<1>1. ASSUME NEW t \in Threads, NEW g \in Guids, Spawn(t, g) PROVE Origins'
  BY <1>1 DEF Spawn
<1>2. ASSUME NEW t \in Threads, NEW g \in Guids, Destroy(t, g) PROVE Origins'
  BY <1>2 DEF Destroy
<1>3. ASSUME NEW t \in Threads, NEW g \in Guids, SetProperty(t, g) PROVE Origins'
  BY <1>3 DEF SetProperty
<1>4. ASSUME NEW t \in Threads, NEW g \in Guids, SetLocation(t, g) PROVE Origins'
  BY <1>4 DEF SetLocation
<1>5. ASSUME NEW t \in Threads, OnSpawn(t) PROVE Origins'
  BY <1>5 DEF OnSpawn
<1>6. ASSUME NEW t \in Threads, OnDestroy(t) PROVE Origins'
  BY <1>6 DEF OnDestroy
<1>7. ASSUME NEW t \in Threads, OnPropertyChanged(t) PROVE Origins'
  BY <1>7 DEF OnPropertyChanged
<1>8. ASSUME NEW t \in Threads, OnMoved(t) PROVE Origins'
  BY <1>8 DEF OnMoved
<1>9. ASSUME NEW c \in Clients, AddClient(c) PROVE Origins'
  BY <1>9 DEF AddClient
<1>10. ASSUME NEW c \in Clients, RemoveClient(c) PROVE Origins'
  BY <1>10 DEF RemoveClient
<1>11. ASSUME TickBegin PROVE Origins'
  BY <1>11 DEF TickBegin
<1>12. ASSUME TickLookup PROVE Origins'
  BY <1>12 DEF TickLookup
<1>13. ASSUME TickClients PROVE Origins'
  BY <1>13 DEF TickClients, ClientsSeeing
<1>14. ASSUME NEW c \in Clients, TickDrain(c) PROVE Origins'
  BY <1>14 DEF TickDrain, SpawnsFor, HidesFor, DiffEmitted
<1>15. ASSUME NEW c \in Clients, TickDrainGone(c) PROVE Origins'
  BY <1>15 DEF TickDrainGone, DiffEmitted
<1>16. ASSUME NEW g \in Guids, TickDelta(g) PROVE Origins'
  BY <1>16 DEF TickDelta, DeltaTargets, ClientsSeeing, DeltasDone, DrainsDone, DiffEmitted
<1>17. ASSUME NEW g \in Guids, TickDestroy(g) PROVE Origins'
  BY <1>17 DEF TickDestroy, ClientsSeeing, DeltasDone, DrainsDone, DiffEmitted
<1>18. ASSUME NEW g \in Guids, TickPurge(g) PROVE Origins'
  BY <1>18 DEF TickPurge
<1>19. ASSUME TickEnd PROVE Origins'
  BY <1>19 DEF TickEnd, DeltasDone, DrainsDone, DiffEmitted
<1>20. ASSUME NEW c \in Clients, NEW g \in Guids, EmitSpawn(c, g) PROVE Origins'
  BY <1>20 DEF EmitSpawn
<1>21. ASSUME NEW c \in Clients, NEW g \in Guids, EmitHide(c, g) PROVE Origins'
  BY <1>21 DEF EmitHide
<1>22. ASSUME NEW c \in Clients, EmitToNobody(c) PROVE Origins'
  BY <1>22 DEF EmitToNobody, DiffEmitted
<1>23. CASE UNCHANGED vars
  BY <1>23 DEF vars
<1>24. QED
  BY <1>1, <1>2, <1>3, <1>4, <1>5, <1>6, <1>7, <1>8, <1>9, <1>10, <1>11,
     <1>12, <1>13, <1>14, <1>15, <1>16, <1>17, <1>18, <1>19, <1>20, <1>21,
     <1>22, <1>23 DEF Next, Mutate, Deliver, Tick

\* Destroyed actors stay dead, since no guid is spawned twice.
LEMMA DeadNext == 
    TypeOK /\ TickShape /\ Origins /\ Dead /\ [Next]_vars
    => Dead'
<1> SUFFICES ASSUME TypeOK, TickShape, Origins, Dead, [Next]_vars PROVE Dead'
  OBVIOUS
<1> USE DEF TypeOK, TickShape, Origins, Dead,
            Announce, Event, Events, NoneMoved, NoEvent, Delivered, worldVars,
            visVars, queueVars, tickVars, takenVars, lookupVars,
            diffVars, viewVars
<1>1. ASSUME NEW t \in Threads, NEW g \in Guids, Spawn(t, g) PROVE Dead'
  BY <1>1 DEF Spawn
<1>2. ASSUME NEW t \in Threads, NEW g \in Guids, Destroy(t, g) PROVE Dead'
  BY <1>2 DEF Destroy
<1>3. ASSUME NEW t \in Threads, NEW g \in Guids, SetProperty(t, g) PROVE Dead'
  BY <1>3 DEF SetProperty
<1>4. ASSUME NEW t \in Threads, NEW g \in Guids, SetLocation(t, g) PROVE Dead'
  BY <1>4 DEF SetLocation
<1>5. ASSUME NEW t \in Threads, OnSpawn(t) PROVE Dead'
  BY <1>5 DEF OnSpawn
<1>6. ASSUME NEW t \in Threads, OnDestroy(t) PROVE Dead'
  BY <1>6 DEF OnDestroy
<1>7. ASSUME NEW t \in Threads, OnPropertyChanged(t) PROVE Dead'
  BY <1>7 DEF OnPropertyChanged
<1>8. ASSUME NEW t \in Threads, OnMoved(t) PROVE Dead'
  BY <1>8 DEF OnMoved
<1>9. ASSUME NEW c \in Clients, AddClient(c) PROVE Dead'
  BY <1>9 DEF AddClient
<1>10. ASSUME NEW c \in Clients, RemoveClient(c) PROVE Dead'
  BY <1>10 DEF RemoveClient
<1>11. ASSUME TickBegin PROVE Dead'
  BY <1>11 DEF TickBegin
<1>12. ASSUME TickLookup PROVE Dead'
  BY <1>12 DEF TickLookup
<1>13. ASSUME TickClients PROVE Dead'
  BY <1>13 DEF TickClients, ClientsSeeing
<1>14. ASSUME NEW c \in Clients, TickDrain(c) PROVE Dead'
  BY <1>14 DEF TickDrain, SpawnsFor, HidesFor, DiffEmitted
<1>15. ASSUME NEW c \in Clients, TickDrainGone(c) PROVE Dead'
  BY <1>15 DEF TickDrainGone, DiffEmitted
<1>16. ASSUME NEW g \in Guids, TickDelta(g) PROVE Dead'
  BY <1>16 DEF TickDelta, DeltaTargets, ClientsSeeing, DeltasDone, DrainsDone, DiffEmitted
<1>17. ASSUME NEW g \in Guids, TickDestroy(g) PROVE Dead'
  BY <1>17 DEF TickDestroy, ClientsSeeing, DeltasDone, DrainsDone, DiffEmitted
<1>18. ASSUME NEW g \in Guids, TickPurge(g) PROVE Dead'
  BY <1>18 DEF TickPurge
<1>19. ASSUME TickEnd PROVE Dead'
  BY <1>19 DEF TickEnd, DeltasDone, DrainsDone, DiffEmitted
<1>20. ASSUME NEW c \in Clients, NEW g \in Guids, EmitSpawn(c, g) PROVE Dead'
  BY <1>20 DEF EmitSpawn
<1>21. ASSUME NEW c \in Clients, NEW g \in Guids, EmitHide(c, g) PROVE Dead'
  BY <1>21 DEF EmitHide
<1>22. ASSUME NEW c \in Clients, EmitToNobody(c) PROVE Dead'
  BY <1>22 DEF EmitToNobody, DiffEmitted
<1>23. CASE UNCHANGED vars
  BY <1>23 DEF vars
<1>24. QED
  BY <1>1, <1>2, <1>3, <1>4, <1>5, <1>6, <1>7, <1>8, <1>9, <1>10, <1>11,
     <1>12, <1>13, <1>14, <1>15, <1>16, <1>17, <1>18, <1>19, <1>20, <1>21,
     <1>22, <1>23 DEF Next, Mutate, Deliver, Tick

\* Views and pending diffs agree with known_actors_ and known_clients_.
LEMMA KnownNext == 
    TypeOK /\ TickShape /\ Origins /\ Dead /\ Known /\ [Next]_vars
    => Known'
<1> SUFFICES ASSUME TypeOK, TickShape, Origins, Dead, Known, [Next]_vars PROVE Known'
  OBVIOUS
<1> USE DEF TypeOK, TickShape, Origins, Dead, Known,
            Announce, Event, Events, NoneMoved, NoEvent, Delivered, worldVars,
            visVars, queueVars, tickVars, takenVars, lookupVars,
            diffVars, viewVars
<1>1. ASSUME NEW t \in Threads, NEW g \in Guids, Spawn(t, g) PROVE Known'
  BY <1>1 DEF Spawn
<1>2. ASSUME NEW t \in Threads, NEW g \in Guids, Destroy(t, g) PROVE Known'
  BY <1>2 DEF Destroy
<1>3. ASSUME NEW t \in Threads, NEW g \in Guids, SetProperty(t, g) PROVE Known'
  BY <1>3 DEF SetProperty
<1>4. ASSUME NEW t \in Threads, NEW g \in Guids, SetLocation(t, g) PROVE Known'
  BY <1>4 DEF SetLocation
<1>5. ASSUME NEW t \in Threads, OnSpawn(t) PROVE Known'
  BY <1>5 DEF OnSpawn
<1>6. ASSUME NEW t \in Threads, OnDestroy(t) PROVE Known'
  BY <1>6 DEF OnDestroy
<1>7. ASSUME NEW t \in Threads, OnPropertyChanged(t) PROVE Known'
  BY <1>7 DEF OnPropertyChanged
<1>8. ASSUME NEW t \in Threads, OnMoved(t) PROVE Known'
  BY <1>8 DEF OnMoved
<1>9. ASSUME NEW c \in Clients, AddClient(c) PROVE Known'
  BY <1>9 DEF AddClient
<1>10. ASSUME NEW c \in Clients, RemoveClient(c) PROVE Known'
  BY <1>10 DEF RemoveClient
<1>11. ASSUME TickBegin PROVE Known'
  BY <1>11 DEF TickBegin
<1>12. ASSUME TickLookup PROVE Known'
  BY <1>12 DEF TickLookup
<1>13. ASSUME TickClients PROVE Known'
  BY <1>13 DEF TickClients, ClientsSeeing
<1>14. ASSUME NEW c \in Clients, TickDrain(c) PROVE Known'
  BY <1>14 DEF TickDrain, SpawnsFor, HidesFor, DiffEmitted
<1>15. ASSUME NEW c \in Clients, TickDrainGone(c) PROVE Known'
  BY <1>15 DEF TickDrainGone, DiffEmitted
<1>16. ASSUME NEW g \in Guids, TickDelta(g) PROVE Known'
  BY <1>16 DEF TickDelta, DeltaTargets, ClientsSeeing, DeltasDone, DrainsDone, DiffEmitted
<1>17. ASSUME NEW g \in Guids, TickDestroy(g) PROVE Known'
  BY <1>17 DEF TickDestroy, ClientsSeeing, DeltasDone, DrainsDone, DiffEmitted
<1>18. ASSUME NEW g \in Guids, TickPurge(g) PROVE Known'
  BY <1>18 DEF TickPurge
<1>19. ASSUME TickEnd PROVE Known'
  BY <1>19 DEF TickEnd, DeltasDone, DrainsDone, DiffEmitted
<1>20. ASSUME NEW c \in Clients, NEW g \in Guids, EmitSpawn(c, g) PROVE Known'
  BY <1>20 DEF EmitSpawn
<1>21. ASSUME NEW c \in Clients, NEW g \in Guids, EmitHide(c, g) PROVE Known'
  BY <1>21 DEF EmitHide
<1>22. ASSUME NEW c \in Clients, EmitToNobody(c) PROVE Known'
  BY <1>22 DEF EmitToNobody, DiffEmitted
<1>23. CASE UNCHANGED vars
  BY <1>23 DEF vars
<1>24. QED
  BY <1>1, <1>2, <1>3, <1>4, <1>5, <1>6, <1>7, <1>8, <1>9, <1>10, <1>11,
     <1>12, <1>13, <1>14, <1>15, <1>16, <1>17, <1>18, <1>19, <1>20, <1>21,
     <1>22, <1>23 DEF Next, Mutate, Deliver, Tick

\* A client is never ahead of the world.
LEMMA FreshNext == 
    TypeOK /\ TickShape /\ Origins /\ Known /\ Fresh /\ [Next]_vars
    => Fresh'
<1> SUFFICES ASSUME TypeOK, TickShape, Origins, Known, Fresh, [Next]_vars PROVE Fresh'
  OBVIOUS
<1> USE DEF TypeOK, TickShape, Origins, Known, Fresh,
            Announce, Event, Events, NoneMoved, NoEvent, Delivered, worldVars,
            visVars, queueVars, tickVars, takenVars, lookupVars,
            diffVars, viewVars
<1>1. ASSUME NEW t \in Threads, NEW g \in Guids, Spawn(t, g) PROVE Fresh'
  BY <1>1 DEF Spawn
<1>2. ASSUME NEW t \in Threads, NEW g \in Guids, Destroy(t, g) PROVE Fresh'
  BY <1>2 DEF Destroy
<1>3. ASSUME NEW t \in Threads, NEW g \in Guids, SetProperty(t, g) PROVE Fresh'
  BY <1>3 DEF SetProperty
<1>4. ASSUME NEW t \in Threads, NEW g \in Guids, SetLocation(t, g) PROVE Fresh'
  BY <1>4 DEF SetLocation
<1>5. ASSUME NEW t \in Threads, OnSpawn(t) PROVE Fresh'
  BY <1>5 DEF OnSpawn
<1>6. ASSUME NEW t \in Threads, OnDestroy(t) PROVE Fresh'
  BY <1>6 DEF OnDestroy
<1>7. ASSUME NEW t \in Threads, OnPropertyChanged(t) PROVE Fresh'
  BY <1>7 DEF OnPropertyChanged
<1>8. ASSUME NEW t \in Threads, OnMoved(t) PROVE Fresh'
  BY <1>8 DEF OnMoved
<1>9. ASSUME NEW c \in Clients, AddClient(c) PROVE Fresh'
  BY <1>9 DEF AddClient
<1>10. ASSUME NEW c \in Clients, RemoveClient(c) PROVE Fresh'
  BY <1>10 DEF RemoveClient
<1>11. ASSUME TickBegin PROVE Fresh'
  BY <1>11 DEF TickBegin
<1>12. ASSUME TickLookup PROVE Fresh'
  BY <1>12 DEF TickLookup
<1>13. ASSUME TickClients PROVE Fresh'
  BY <1>13 DEF TickClients, ClientsSeeing
<1>14. ASSUME NEW c \in Clients, TickDrain(c) PROVE Fresh'
  BY <1>14 DEF TickDrain, SpawnsFor, HidesFor, DiffEmitted
<1>15. ASSUME NEW c \in Clients, TickDrainGone(c) PROVE Fresh'
  BY <1>15 DEF TickDrainGone, DiffEmitted
<1>16. ASSUME NEW g \in Guids, TickDelta(g) PROVE Fresh'
  BY <1>16 DEF TickDelta, DeltaTargets, ClientsSeeing, DeltasDone, DrainsDone, DiffEmitted
<1>17. ASSUME NEW g \in Guids, TickDestroy(g) PROVE Fresh'
  BY <1>17 DEF TickDestroy, ClientsSeeing, DeltasDone, DrainsDone, DiffEmitted
<1>18. ASSUME NEW g \in Guids, TickPurge(g) PROVE Fresh'
  BY <1>18 DEF TickPurge
<1>19. ASSUME TickEnd PROVE Fresh'
  BY <1>19 DEF TickEnd, DeltasDone, DrainsDone, DiffEmitted
<1>20. ASSUME NEW c \in Clients, NEW g \in Guids, EmitSpawn(c, g) PROVE Fresh'
  BY <1>20 DEF EmitSpawn
<1>21. ASSUME NEW c \in Clients, NEW g \in Guids, EmitHide(c, g) PROVE Fresh'
  BY <1>21 DEF EmitHide
<1>22. ASSUME NEW c \in Clients, EmitToNobody(c) PROVE Fresh'
  BY <1>22 DEF EmitToNobody, DiffEmitted
<1>23. CASE UNCHANGED vars
  BY <1>23 DEF vars
<1>24. QED
  BY <1>1, <1>2, <1>3, <1>4, <1>5, <1>6, <1>7, <1>8, <1>9, <1>10, <1>11,
     <1>12, <1>13, <1>14, <1>15, <1>16, <1>17, <1>18, <1>19, <1>20, <1>21,
     <1>22, <1>23 DEF Next, Mutate, Deliver, Tick

\* Mutations made during a tick reach the queues of the next one.
LEMMA CoveredNext == 
    TypeOK /\ TickShape /\ Origins /\ Dead /\ SnapshotCovered /\ [Next]_vars
    => SnapshotCovered'
<1> SUFFICES ASSUME TypeOK, TickShape, Origins, Dead, SnapshotCovered, [Next]_vars PROVE SnapshotCovered'
  OBVIOUS
<1> USE DEF TypeOK, TickShape, Origins, Dead, SnapshotCovered,
            Announce, Event, Events, NoneMoved, NoEvent, Delivered, worldVars,
            visVars, queueVars, tickVars, takenVars, lookupVars,
            diffVars, viewVars, InFlight
<1>1. ASSUME NEW t \in Threads, NEW g \in Guids, Spawn(t, g) PROVE SnapshotCovered'
  BY <1>1 DEF Spawn
<1>2. ASSUME NEW t \in Threads, NEW g \in Guids, Destroy(t, g) PROVE SnapshotCovered'
  BY <1>2 DEF Destroy
<1>3. ASSUME NEW t \in Threads, NEW g \in Guids, SetProperty(t, g) PROVE SnapshotCovered'
  BY <1>3 DEF SetProperty
<1>4. ASSUME NEW t \in Threads, NEW g \in Guids, SetLocation(t, g) PROVE SnapshotCovered'
  BY <1>4 DEF SetLocation
<1>5. ASSUME NEW t \in Threads, OnSpawn(t) PROVE SnapshotCovered'
  BY <1>5 DEF OnSpawn
<1>6. ASSUME NEW t \in Threads, OnDestroy(t) PROVE SnapshotCovered'
  BY <1>6 DEF OnDestroy
<1>7. ASSUME NEW t \in Threads, OnPropertyChanged(t) PROVE SnapshotCovered'
  BY <1>7 DEF OnPropertyChanged
<1>8. ASSUME NEW t \in Threads, OnMoved(t) PROVE SnapshotCovered'
  BY <1>8 DEF OnMoved
<1>9. ASSUME NEW c \in Clients, AddClient(c) PROVE SnapshotCovered'
  BY <1>9 DEF AddClient
<1>10. ASSUME NEW c \in Clients, RemoveClient(c) PROVE SnapshotCovered'
  BY <1>10 DEF RemoveClient
<1>11. ASSUME TickBegin PROVE SnapshotCovered'
  BY <1>11 DEF TickBegin
<1>12. ASSUME TickLookup PROVE SnapshotCovered'
  BY <1>12 DEF TickLookup
<1>13. ASSUME TickClients PROVE SnapshotCovered'
  BY <1>13 DEF TickClients, ClientsSeeing
<1>14. ASSUME NEW c \in Clients, TickDrain(c) PROVE SnapshotCovered'
  BY <1>14 DEF TickDrain, SpawnsFor, HidesFor, DiffEmitted
<1>15. ASSUME NEW c \in Clients, TickDrainGone(c) PROVE SnapshotCovered'
  BY <1>15 DEF TickDrainGone, DiffEmitted
<1>16. ASSUME NEW g \in Guids, TickDelta(g) PROVE SnapshotCovered'
  BY <1>16 DEF TickDelta, DeltaTargets, ClientsSeeing, DeltasDone, DrainsDone, DiffEmitted
<1>17. ASSUME NEW g \in Guids, TickDestroy(g) PROVE SnapshotCovered'
  BY <1>17 DEF TickDestroy, ClientsSeeing, DeltasDone, DrainsDone, DiffEmitted
<1>18. ASSUME NEW g \in Guids, TickPurge(g) PROVE SnapshotCovered'
  BY <1>18 DEF TickPurge
<1>19. ASSUME TickEnd PROVE SnapshotCovered'
  BY <1>19 DEF TickEnd, DeltasDone, DrainsDone, DiffEmitted
<1>20. ASSUME NEW c \in Clients, NEW g \in Guids, EmitSpawn(c, g) PROVE SnapshotCovered'
  BY <1>20 DEF EmitSpawn
<1>21. ASSUME NEW c \in Clients, NEW g \in Guids, EmitHide(c, g) PROVE SnapshotCovered'
  BY <1>21 DEF EmitHide
<1>22. ASSUME NEW c \in Clients, EmitToNobody(c) PROVE SnapshotCovered'
  BY <1>22 DEF EmitToNobody, DiffEmitted
<1>23. CASE UNCHANGED vars
  BY <1>23 DEF vars
<1>24. QED
  BY <1>1, <1>2, <1>3, <1>4, <1>5, <1>6, <1>7, <1>8, <1>9, <1>10, <1>11,
     <1>12, <1>13, <1>14, <1>15, <1>16, <1>17, <1>18, <1>19, <1>20, <1>21,
     <1>22, <1>23 DEF Next, Mutate, Deliver, Tick

\* The destroy of an actor some client shows is never dropped.
LEMMA GhostNext == 
    TypeOK /\ TickShape /\ Origins /\ Dead /\ Known /\ SnapshotCovered /\ NoGhost /\ [Next]_vars
    => NoGhost'
<1> SUFFICES ASSUME TypeOK, TickShape, Origins, Dead, Known, SnapshotCovered, NoGhost, [Next]_vars PROVE NoGhost'
  OBVIOUS
<1> USE DEF TypeOK, TickShape, Origins, Dead, Known, SnapshotCovered, NoGhost,
            Announce, Event, Events, NoneMoved, NoEvent, Delivered, worldVars,
            visVars, queueVars, tickVars, takenVars, lookupVars,
            diffVars, viewVars, InFlight
<1>1. ASSUME NEW t \in Threads, NEW g \in Guids, Spawn(t, g) PROVE NoGhost'
  BY <1>1 DEF Spawn
<1>2. ASSUME NEW t \in Threads, NEW g \in Guids, Destroy(t, g) PROVE NoGhost'
  BY <1>2 DEF Destroy
<1>3. ASSUME NEW t \in Threads, NEW g \in Guids, SetProperty(t, g) PROVE NoGhost'
  BY <1>3 DEF SetProperty
<1>4. ASSUME NEW t \in Threads, NEW g \in Guids, SetLocation(t, g) PROVE NoGhost'
  BY <1>4 DEF SetLocation
<1>5. ASSUME NEW t \in Threads, OnSpawn(t) PROVE NoGhost'
  BY <1>5 DEF OnSpawn
<1>6. ASSUME NEW t \in Threads, OnDestroy(t) PROVE NoGhost'
  BY <1>6 DEF OnDestroy
<1>7. ASSUME NEW t \in Threads, OnPropertyChanged(t) PROVE NoGhost'
  BY <1>7 DEF OnPropertyChanged
<1>8. ASSUME NEW t \in Threads, OnMoved(t) PROVE NoGhost'
  BY <1>8 DEF OnMoved
<1>9. ASSUME NEW c \in Clients, AddClient(c) PROVE NoGhost'
  BY <1>9 DEF AddClient
<1>10. ASSUME NEW c \in Clients, RemoveClient(c) PROVE NoGhost'
  BY <1>10 DEF RemoveClient
<1>11. ASSUME TickBegin PROVE NoGhost'
  <2>1. destroySnapshot' = pendingDestroys /\ destroySnapshot = {}
    BY <1>11 DEF TickBegin
  <2>2. UNCHANGED <<knownClients, actors, view, event>>
    BY <1>11 DEF TickBegin, worldVars, visVars, viewVars
  <2>3. QED
    BY <2>1, <2>2 DEF InFlight, Delivered
<1>12. ASSUME TickLookup PROVE NoGhost'
  BY <1>12 DEF TickLookup
<1>13. ASSUME TickClients PROVE NoGhost'
  BY <1>13 DEF TickClients, ClientsSeeing
<1>14. ASSUME NEW c \in Clients, TickDrain(c) PROVE NoGhost'
  BY <1>14 DEF TickDrain, SpawnsFor, HidesFor, DiffEmitted
<1>15. ASSUME NEW c \in Clients, TickDrainGone(c) PROVE NoGhost'
  BY <1>15 DEF TickDrainGone, DiffEmitted
<1>16. ASSUME NEW g \in Guids, TickDelta(g) PROVE NoGhost'
  BY <1>16 DEF TickDelta, DeltaTargets, ClientsSeeing, DeltasDone, DrainsDone, DiffEmitted
<1>17. ASSUME NEW g \in Guids, TickDestroy(g) PROVE NoGhost'
  <2>1. UNCHANGED <<knownClients, knownActors, actors, pendingDestroys, event>>
    BY <1>17 DEF TickDestroy
  <2>2. SUFFICES ASSUME NEW c \in knownClients, NEW h \in Guids \ actors,
                        view'[c][h] = "live"
                 PROVE  \/ h \in pendingDestroys \cup destroySnapshot'
                        \/ InFlight("destroyed", h)
    BY <2>1
  <2>3. view[c][h] = "live" /\ h # g
    <3>1. view' = [d \in Clients |-> IF d \in ClientsSeeing(g)
                                      THEN [view[d] EXCEPT ![g] = "gone"] ELSE view[d]]
      BY <1>17 DEF TickDestroy
    <3>2. view[c][h] = "live"
      BY <2>2, <3>1
    <3>3. c \in ClientsSeeing(h)
      BY <2>2, <3>2 DEF ClientsSeeing
    <3>4. QED
      BY <2>2, <3>1, <3>2, <3>3
  <2>4. QED
    BY <1>17, <2>2, <2>3 DEF TickDestroy
<1>18. ASSUME NEW g \in Guids, TickPurge(g) PROVE NoGhost'
  BY <1>18 DEF TickPurge
<1>19. ASSUME TickEnd PROVE NoGhost'
  BY <1>19 DEF TickEnd, DeltasDone, DrainsDone, DiffEmitted
<1>20. ASSUME NEW c \in Clients, NEW g \in Guids, EmitSpawn(c, g) PROVE NoGhost'
  <2>1. UNCHANGED <<knownClients, actors, pendingDestroys, destroySnapshot, event>>
    BY <1>20 DEF EmitSpawn
  <2>2. SUFFICES ASSUME NEW d \in knownClients, NEW h \in Guids \ actors,
                        view'[d][h] = "live"
                 PROVE  \/ h \in pendingDestroys \cup destroySnapshot
                        \/ InFlight("destroyed", h)
    BY <2>1
  <2>3. view[d][h] = "live" \/ h \in lookup
    BY <1>20, <2>2 DEF EmitSpawn
  <2>4. QED
    BY <2>2, <2>3
<1>21. ASSUME NEW c \in Clients, NEW g \in Guids, EmitHide(c, g) PROVE NoGhost'
  BY <1>21 DEF EmitHide
<1>22. ASSUME NEW c \in Clients, EmitToNobody(c) PROVE NoGhost'
  BY <1>22 DEF EmitToNobody, DiffEmitted
<1>23. CASE UNCHANGED vars
  BY <1>23 DEF vars
<1>24. QED
  BY <1>1, <1>2, <1>3, <1>4, <1>5, <1>6, <1>7, <1>8, <1>9, <1>10, <1>11,
     <1>12, <1>13, <1>14, <1>15, <1>16, <1>17, <1>18, <1>19, <1>20, <1>21,
     <1>22, <1>23 DEF Next, Mutate, Deliver, Tick

\* No client shows a guid that has not been spawned.
LEMMA Unseen ==
    Origins => \A c \in Clients, g \in Guids \ spawned : view[c][g] = "none"
  BY DEF Origins

\* The delta of a changed property is never dropped.
LEMMA LostUpdateNext == 
    TypeOK /\ TickShape /\ Origins /\ Dead /\ Known /\ SnapshotCovered /\ NoLostUpdate /\ [Next]_vars
    => NoLostUpdate'
<1> SUFFICES ASSUME TypeOK, TickShape, Origins, Dead, Known, SnapshotCovered, NoLostUpdate, [Next]_vars PROVE NoLostUpdate'
  OBVIOUS
<1> USE DEF TypeOK, TickShape, Origins, Dead, Known, SnapshotCovered, NoLostUpdate,
            Announce, Event, Events, NoneMoved, NoEvent, Delivered, worldVars,
            visVars, queueVars, tickVars, takenVars, lookupVars,
            diffVars, viewVars, InFlight, DeltaComing
<1>1. ASSUME NEW t \in Threads, NEW g \in Guids, Spawn(t, g) PROVE NoLostUpdate'
  <2>1. \A c \in Clients : view[c][g] = "none"
    BY <1>1, Unseen DEF Spawn
  <2>2. ASSUME NEW u \in Threads, event[u] # NoEvent PROVE event'[u] = event[u]
    BY <1>1, <2>2 DEF Spawn
  <2>3. UNCHANGED <<knownClients, prop, view, viewProp, dirty, dirtySnapshot,
                    tickPc, lookup, lookupProp>> /\ actors' = actors \cup {g}
    BY <1>1 DEF Spawn
  <2>4. SUFFICES ASSUME NEW c \in knownClients, NEW h \in actors',
                        view[c][h] = "live", viewProp[c][h] # prop[h]
                 PROVE  h \in dirty \/ InFlight("changed", h)' \/ DeltaComing(h)
    BY <2>3
  <2>5. h \in actors
    BY <2>1, <2>3, <2>4
  <2>6. h \in dirty \/ InFlight("changed", h) \/ DeltaComing(h)
    BY <2>4, <2>5
  <2>7. CASE InFlight("changed", h)
    <3>1. PICK u \in Threads : Delivered(u, "changed") /\ event[u].guid = h
      BY <2>7
    <3>2. event'[u] = event[u] /\ event[u] # NoEvent
      BY <2>2, <3>1
    <3>3. QED
      BY <3>1, <3>2
  <2>8. QED
    BY <2>6, <2>7
<1>2. ASSUME NEW t \in Threads, NEW g \in Guids, Destroy(t, g) PROVE NoLostUpdate'
  BY <1>2 DEF Destroy
<1>3. ASSUME NEW t \in Threads, NEW g \in Guids, SetProperty(t, g) PROVE NoLostUpdate'
  BY <1>3, SMTT(30) DEF SetProperty
<1>4. ASSUME NEW t \in Threads, NEW g \in Guids, SetLocation(t, g) PROVE NoLostUpdate'
  BY <1>4 DEF SetLocation
<1>5. ASSUME NEW t \in Threads, OnSpawn(t) PROVE NoLostUpdate'
  BY <1>5 DEF OnSpawn
<1>6. ASSUME NEW t \in Threads, OnDestroy(t) PROVE NoLostUpdate'
  BY <1>6 DEF OnDestroy
<1>7. ASSUME NEW t \in Threads, OnPropertyChanged(t) PROVE NoLostUpdate'
  BY <1>7 DEF OnPropertyChanged
<1>8. ASSUME NEW t \in Threads, OnMoved(t) PROVE NoLostUpdate'
  BY <1>8 DEF OnMoved
<1>9. ASSUME NEW c \in Clients, AddClient(c) PROVE NoLostUpdate'
  BY <1>9 DEF AddClient
<1>10. ASSUME NEW c \in Clients, RemoveClient(c) PROVE NoLostUpdate'
  BY <1>10 DEF RemoveClient
<1>11. ASSUME TickBegin PROVE NoLostUpdate'
  <2>1. UNCHANGED <<knownClients, actors, prop, view, viewProp, event>>
    BY <1>11 DEF TickBegin
  <2>2. tickPc' = "lookup" /\ dirtySnapshot' = dirty /\ dirtySnapshot = {}
    BY <1>11 DEF TickBegin
  <2>3. QED
    BY <2>1, <2>2
<1>12. ASSUME TickLookup PROVE NoLostUpdate'
  BY <1>12 DEF TickLookup
<1>13. ASSUME TickClients PROVE NoLostUpdate'
  BY <1>13 DEF TickClients, ClientsSeeing
<1>14. ASSUME NEW c \in Clients, TickDrain(c) PROVE NoLostUpdate'
  BY <1>14 DEF TickDrain, SpawnsFor, HidesFor, DiffEmitted
<1>15. ASSUME NEW c \in Clients, TickDrainGone(c) PROVE NoLostUpdate'
  BY <1>15 DEF TickDrainGone, DiffEmitted
<1>16. ASSUME NEW g \in Guids, TickDelta(g) PROVE NoLostUpdate'
  <2>1. UNCHANGED <<knownClients, knownActors, actors, prop, view, event, dirty, tickPc, lookup, lookupProp>>
    BY <1>16 DEF TickDelta, worldVars, visVars, queueVars
  <2>2. SUFFICES ASSUME NEW c \in knownClients, NEW h \in actors,
                        view[c][h] = "live", viewProp'[c][h] # prop[h],
                        h \notin dirty, ~InFlight("changed", h)
                 PROVE  DeltaComing(h)'
    BY <2>1 DEF InFlight, Delivered
  <2>3. CASE h = g
    <3>1. CASE g \in dirtySnapshot /\ g \in lookup
      <4>1. viewProp'[c][h] = lookupProp[h]
        <5>1. c \in DeltaTargets(g)
          BY <2>2, <2>3, <3>1 DEF DeltaTargets, ClientsSeeing
        <5>2. QED
          BY <1>16, <2>2, <2>3, <3>1, <5>1 DEF TickDelta
      <4>2. lookupProp[h] = prop[h]
        BY <2>2, <2>3, <3>1
      <4>3. QED
        BY <2>2, <4>1, <4>2
    <3>2. CASE ~(g \in dirtySnapshot /\ g \in lookup)
      <4>1. viewProp'[c][h] = viewProp[c][h]
        BY <1>16, <2>2, <2>3, <3>2 DEF TickDelta, DeltaTargets
      <4>2. DeltaComing(h)
        BY <2>2, <4>1
      <4>3. QED
        BY <1>16, <2>3, <3>2, <4>2 DEF TickDelta, DeltaComing
    <3>3. QED
      BY <3>1, <3>2
  <2>4. CASE h # g
    <3>1. viewProp'[c][h] = viewProp[c][h]
      BY <1>16, <2>2, <2>4 DEF TickDelta
    <3>2. DeltaComing(h)
      BY <2>2, <3>1
    <3>3. QED
      BY <1>16, <2>1, <2>4, <3>2 DEF TickDelta, DeltaComing
  <2>5. QED
    BY <2>3, <2>4
<1>17. ASSUME NEW g \in Guids, TickDestroy(g) PROVE NoLostUpdate'
  BY <1>17 DEF TickDestroy, ClientsSeeing, DeltasDone, DrainsDone, DiffEmitted
<1>18. ASSUME NEW g \in Guids, TickPurge(g) PROVE NoLostUpdate'
  BY <1>18 DEF TickPurge
<1>19. ASSUME TickEnd PROVE NoLostUpdate'
  BY <1>19 DEF TickEnd, DeltasDone, DrainsDone, DiffEmitted
<1>20. ASSUME NEW c \in Clients, NEW g \in Guids, EmitSpawn(c, g) PROVE NoLostUpdate'
  <2>1. UNCHANGED <<knownClients, actors, prop, dirty, event, dirtySnapshot, tickPc,
                    lookup, lookupProp>>
    BY <1>20 DEF EmitSpawn
  <2>2. SUFFICES ASSUME NEW d \in knownClients, NEW h \in actors,
                        view'[d][h] = "live", viewProp'[d][h] # prop[h],
                        h \notin dirty, ~InFlight("changed", h)
                 PROVE  DeltaComing(h)
    BY <2>1
  <2>3. CASE d = c /\ h = g
    <3>1. viewProp'[d][h] = lookupProp[h] /\ h \in lookup
      BY <1>20, <2>3 DEF EmitSpawn
    <3>2. QED
      BY <2>2, <3>1
  <2>4. CASE ~(d = c /\ h = g)
    <3>1. view[d][h] = "live" /\ viewProp[d][h] # prop[h]
      BY <1>20, <2>2, <2>4 DEF EmitSpawn
    <3>2. QED
      BY <2>2, <3>1
  <2>5. QED
    BY <2>3, <2>4
<1>21. ASSUME NEW c \in Clients, NEW g \in Guids, EmitHide(c, g) PROVE NoLostUpdate'
  BY <1>21 DEF EmitHide
<1>22. ASSUME NEW c \in Clients, EmitToNobody(c) PROVE NoLostUpdate'
  BY <1>22 DEF EmitToNobody, DiffEmitted
<1>23. CASE UNCHANGED vars
  BY <1>23 DEF vars
<1>24. QED
  BY <1>1, <1>2, <1>3, <1>4, <1>5, <1>6, <1>7, <1>8, <1>9, <1>10, <1>11,
     <1>12, <1>13, <1>14, <1>15, <1>16, <1>17, <1>18, <1>19, <1>20, <1>21,
     <1>22, <1>23 DEF Next, Mutate, Deliver, Tick

-----------------------------------------------------------------------------

LEMMA InitIInv == Init => IInv
  BY ReplicationAssumption
     DEF Init, IInv, TypeOK, NoneMoved, NoEvent, TickShape, DrainsDone, DiffEmitted, Origins, Dead, Known,
         Fresh, SnapshotCovered, NoGhost, NoLostUpdate, Delivered

LEMMA NextIInv == IInv /\ [Next]_vars => IInv'
  BY TypeNext, ShapeNext, OriginsNext, DeadNext, KnownNext, FreshNext, CoveredNext,
     GhostNext, LostUpdateNext DEF IInv

LEMMA ReplicationInvariant == Spec => []IInv
  BY InitIInv, NextIInv, PTL DEF Spec

\* TypeOK holds of every reachable state.
THEOREM ReplicationTypeOK == Spec => []TypeOK
<1>1. IInv => TypeOK
  BY DEF IInv
<1>2. QED
  BY <1>1, ReplicationInvariant, PTL

\* No property change is lost, whatever the number of mutating threads.
THEOREM ReplicationNoLostUpdate == Spec => []NoLostUpdate
<1>1. IInv => NoLostUpdate
  BY DEF IInv
<1>2. QED
  BY <1>1, ReplicationInvariant, PTL

\* No client is left with a ghost of a destroyed actor.
THEOREM ReplicationNoGhost == Spec => []NoGhost
<1>1. IInv => NoGhost
  BY DEF IInv
<1>2. QED
  BY <1>1, ReplicationInvariant, PTL

\* A spawn reaches only clients that have not shown the actor in their present
\* membership, but for the second spawn of a client that left and joined again.
THEOREM ReplicationSpawnOnce == Spec => SpawnOnce
<1>1. ASSUME IInv, NEW c \in Clients, NEW g \in Guids, EmitSpawn(c, g),
             <<c, g>> \notin again
      PROVE  view[c][g] = "none"
  <2>1. <<c, g>> \in spawning /\ g \in lookup
    BY <1>1 DEF EmitSpawn, IInv, Known
  <2>2. view[c][g] # "live"
    BY <1>1, <2>1 DEF IInv, Known
  <2>3. QED
    BY <1>1, <2>1, <2>2 DEF IInv, TypeOK, Dead
<1>2. IInv /\ [Next]_vars =>
        [\A c \in Clients, g \in Guids :
           EmitSpawn(c, g) /\ <<c, g>> \notin again => view[c][g] = "none"]_vars
  BY <1>1
<1>3. QED
  BY <1>2, ReplicationInvariant, PTL DEF Spec, SpawnOnce

-----------------------------------------------------------------------------
(* Locations, with any number of threads.                                  *)

\* Whatever location is kept anywhere is one the registry has had.
MovesBehind ==
    /\ \A g \in Guids : moved[g] <= loc[g] /\ movedSnapshot[g] <= loc[g]
                       /\ lookupLoc[g] <= loc[g]
    /\ \A t \in Threads : Delivered(t, "moved") => event[t].loc <= loc[event[t].guid]
    /\ \A c \in Clients, g \in Guids : viewLoc[c][g] <= loc[g]

LEMMA MovesBehindNext == TypeOK /\ MovesBehind /\ [Next]_vars => MovesBehind'
<1> SUFFICES ASSUME TypeOK, MovesBehind, [Next]_vars PROVE MovesBehind'
  OBVIOUS
<1> USE DEF TypeOK, MovesBehind,
            Announce, Event, Events, NoneMoved, NoEvent, Delivered, worldVars,
            visVars, queueVars, tickVars, takenVars, lookupVars,
            diffVars, viewVars
<1>1. ASSUME NEW t \in Threads, NEW g \in Guids, Spawn(t, g) PROVE MovesBehind'
  BY <1>1 DEF Spawn
<1>2. ASSUME NEW t \in Threads, NEW g \in Guids, Destroy(t, g) PROVE MovesBehind'
  BY <1>2 DEF Destroy
<1>3. ASSUME NEW t \in Threads, NEW g \in Guids, SetProperty(t, g) PROVE MovesBehind'
  BY <1>3 DEF SetProperty
<1>4. ASSUME NEW t \in Threads, NEW g \in Guids, SetLocation(t, g) PROVE MovesBehind'
  BY <1>4 DEF SetLocation
<1>5. ASSUME NEW t \in Threads, OnSpawn(t) PROVE MovesBehind'
  BY <1>5 DEF OnSpawn
<1>6. ASSUME NEW t \in Threads, OnDestroy(t) PROVE MovesBehind'
  <2>1. moved' = [moved EXCEPT ![event[t].guid] = 0] /\ event' = [event EXCEPT ![t] = NoEvent]
    BY <1>6 DEF OnDestroy
  <2>2. UNCHANGED <<loc, movedSnapshot, lookupLoc, viewLoc>>
    BY <1>6 DEF OnDestroy
  <2>3. \A g \in Guids : moved'[g] <= loc[g]
    BY <2>1
  <2>4. \A u \in Threads : event'[u] = event[u] \/ event'[u] = NoEvent
    BY <2>1
  <2>5. QED
    BY <2>2, <2>3, <2>4
<1>7. ASSUME NEW t \in Threads, OnPropertyChanged(t) PROVE MovesBehind'
  BY <1>7 DEF OnPropertyChanged
<1>8. ASSUME NEW t \in Threads, OnMoved(t) PROVE MovesBehind'
  BY <1>8 DEF OnMoved
<1>9. ASSUME NEW c \in Clients, AddClient(c) PROVE MovesBehind'
  BY <1>9 DEF AddClient
<1>10. ASSUME NEW c \in Clients, RemoveClient(c) PROVE MovesBehind'
  BY <1>10 DEF RemoveClient
<1>11. ASSUME TickBegin PROVE MovesBehind'
  BY <1>11 DEF TickBegin
<1>12. ASSUME TickLookup PROVE MovesBehind'
  BY <1>12 DEF TickLookup
<1>13. ASSUME TickClients PROVE MovesBehind'
  BY <1>13 DEF TickClients, ClientsSeeing
<1>14. ASSUME NEW c \in Clients, TickDrain(c) PROVE MovesBehind'
  BY <1>14 DEF TickDrain, SpawnsFor, HidesFor, DiffEmitted
<1>15. ASSUME NEW c \in Clients, TickDrainGone(c) PROVE MovesBehind'
  BY <1>15 DEF TickDrainGone, DiffEmitted
<1>16. ASSUME NEW g \in Guids, TickDelta(g) PROVE MovesBehind'
  BY <1>16 DEF TickDelta, DeltaTargets, ClientsSeeing, DeltasDone, DrainsDone, DiffEmitted
<1>17. ASSUME NEW g \in Guids, TickDestroy(g) PROVE MovesBehind'
  BY <1>17 DEF TickDestroy, ClientsSeeing, DeltasDone, DrainsDone, DiffEmitted
<1>18. ASSUME NEW g \in Guids, TickPurge(g) PROVE MovesBehind'
  BY <1>18 DEF TickPurge
<1>19. ASSUME TickEnd PROVE MovesBehind'
  BY <1>19 DEF TickEnd, DeltasDone, DrainsDone, DiffEmitted
<1>20. ASSUME NEW c \in Clients, NEW g \in Guids, EmitSpawn(c, g) PROVE MovesBehind'
  BY <1>20 DEF EmitSpawn
<1>21. ASSUME NEW c \in Clients, NEW g \in Guids, EmitHide(c, g) PROVE MovesBehind'
  BY <1>21 DEF EmitHide
<1>22. ASSUME NEW c \in Clients, EmitToNobody(c) PROVE MovesBehind'
  BY <1>22 DEF EmitToNobody, DiffEmitted
<1>23. CASE UNCHANGED vars
  BY <1>23 DEF vars
<1>24. QED
  BY <1>1, <1>2, <1>3, <1>4, <1>5, <1>6, <1>7, <1>8, <1>9, <1>10, <1>11,
     <1>12, <1>13, <1>14, <1>15, <1>16, <1>17, <1>18, <1>19, <1>20, <1>21,
     <1>22, <1>23 DEF Next, Mutate, Deliver, Tick

LEMMA MovesBehindInvariant == Spec => []MovesBehind
<1>1. Init => MovesBehind
  BY DEF Init, MovesBehind, NoneMoved, Delivered
<1>2. QED
  BY <1>1, MovesBehindNext, ReplicationTypeOK, PTL DEF Spec

-----------------------------------------------------------------------------
(* Movements, when a single thread calls set_location.                     *)

OneMover == \A t, u \in Movers : t = u

\* A movement in flight carries the location the registry has now: the one
\* mover does not move anything again before it has delivered the event.
EventsCurrent ==
    \A t \in Threads : Delivered(t, "moved") =>
        t \in Movers /\ event[t].loc = loc[event[t].guid]

\* Nothing is queued for a guid that has not been spawned.
Unmoved == \A g \in Guids \ spawned : loc[g] = 0 /\ moved[g] = 0

\* An older location, wherever it is kept, is one the next tick replaces.
MovesCovered ==
    \A g \in actors :
        \/ MoveQueued(g)
        \/ /\ moved[g] = 0 /\ movedSnapshot[g] \in {0, loc[g]}
           /\ g \in lookup => lookupLoc[g] = loc[g]

MoveInv == IInv /\ EventsCurrent /\ Unmoved /\ MovesCovered /\ NoLostMove

\* With one mover an event is delivered before the next movement.
LEMMA EventsCurrentNext ==
    OneMover /\ TypeOK /\ EventsCurrent /\ [Next]_vars => EventsCurrent'
<1> SUFFICES ASSUME OneMover, TypeOK, EventsCurrent, [Next]_vars PROVE EventsCurrent'
  OBVIOUS
<1> USE DEF OneMover, TypeOK, EventsCurrent,
            Announce, Event, Events, NoneMoved, NoEvent, Delivered, worldVars,
            visVars, queueVars, tickVars, takenVars, lookupVars,
            diffVars, viewVars
<1>1. ASSUME NEW t \in Threads, NEW g \in Guids, Spawn(t, g) PROVE EventsCurrent'
  BY <1>1 DEF Spawn
<1>2. ASSUME NEW t \in Threads, NEW g \in Guids, Destroy(t, g) PROVE EventsCurrent'
  BY <1>2 DEF Destroy
<1>3. ASSUME NEW t \in Threads, NEW g \in Guids, SetProperty(t, g) PROVE EventsCurrent'
  BY <1>3 DEF SetProperty
<1>4. ASSUME NEW t \in Threads, NEW g \in Guids, SetLocation(t, g) PROVE EventsCurrent'
  BY <1>4 DEF SetLocation
<1>5. ASSUME NEW t \in Threads, OnSpawn(t) PROVE EventsCurrent'
  BY <1>5 DEF OnSpawn
<1>6. ASSUME NEW t \in Threads, OnDestroy(t) PROVE EventsCurrent'
  BY <1>6 DEF OnDestroy
<1>7. ASSUME NEW t \in Threads, OnPropertyChanged(t) PROVE EventsCurrent'
  BY <1>7 DEF OnPropertyChanged
<1>8. ASSUME NEW t \in Threads, OnMoved(t) PROVE EventsCurrent'
  BY <1>8 DEF OnMoved
<1>9. ASSUME NEW c \in Clients, AddClient(c) PROVE EventsCurrent'
  BY <1>9 DEF AddClient
<1>10. ASSUME NEW c \in Clients, RemoveClient(c) PROVE EventsCurrent'
  BY <1>10 DEF RemoveClient
<1>11. ASSUME TickBegin PROVE EventsCurrent'
  BY <1>11 DEF TickBegin
<1>12. ASSUME TickLookup PROVE EventsCurrent'
  BY <1>12 DEF TickLookup
<1>13. ASSUME TickClients PROVE EventsCurrent'
  BY <1>13 DEF TickClients, ClientsSeeing
<1>14. ASSUME NEW c \in Clients, TickDrain(c) PROVE EventsCurrent'
  BY <1>14 DEF TickDrain, SpawnsFor, HidesFor, DiffEmitted
<1>15. ASSUME NEW c \in Clients, TickDrainGone(c) PROVE EventsCurrent'
  BY <1>15 DEF TickDrainGone, DiffEmitted
<1>16. ASSUME NEW g \in Guids, TickDelta(g) PROVE EventsCurrent'
  BY <1>16 DEF TickDelta, DeltaTargets, ClientsSeeing, DeltasDone, DrainsDone, DiffEmitted
<1>17. ASSUME NEW g \in Guids, TickDestroy(g) PROVE EventsCurrent'
  BY <1>17 DEF TickDestroy, ClientsSeeing, DeltasDone, DrainsDone, DiffEmitted
<1>18. ASSUME NEW g \in Guids, TickPurge(g) PROVE EventsCurrent'
  BY <1>18 DEF TickPurge
<1>19. ASSUME TickEnd PROVE EventsCurrent'
  BY <1>19 DEF TickEnd, DeltasDone, DrainsDone, DiffEmitted
<1>20. ASSUME NEW c \in Clients, NEW g \in Guids, EmitSpawn(c, g) PROVE EventsCurrent'
  BY <1>20 DEF EmitSpawn
<1>21. ASSUME NEW c \in Clients, NEW g \in Guids, EmitHide(c, g) PROVE EventsCurrent'
  BY <1>21 DEF EmitHide
<1>22. ASSUME NEW c \in Clients, EmitToNobody(c) PROVE EventsCurrent'
  BY <1>22 DEF EmitToNobody, DiffEmitted
<1>23. CASE UNCHANGED vars
  BY <1>23 DEF vars
<1>24. QED
  BY <1>1, <1>2, <1>3, <1>4, <1>5, <1>6, <1>7, <1>8, <1>9, <1>10, <1>11,
     <1>12, <1>13, <1>14, <1>15, <1>16, <1>17, <1>18, <1>19, <1>20, <1>21,
     <1>22, <1>23 DEF Next, Mutate, Deliver, Tick

\* A guid is moved only while it lives.
LEMMA UnmovedNext ==
    TypeOK /\ Origins /\ Unmoved /\ [Next]_vars => Unmoved'
<1> SUFFICES ASSUME TypeOK, Origins, Unmoved, [Next]_vars PROVE Unmoved'
  OBVIOUS
<1> USE DEF TypeOK, Origins, Unmoved,
            Announce, Event, Events, NoneMoved, NoEvent, Delivered, worldVars,
            visVars, queueVars, tickVars, takenVars, lookupVars,
            diffVars, viewVars
<1>1. ASSUME NEW t \in Threads, NEW g \in Guids, Spawn(t, g) PROVE Unmoved'
  BY <1>1 DEF Spawn
<1>2. ASSUME NEW t \in Threads, NEW g \in Guids, Destroy(t, g) PROVE Unmoved'
  BY <1>2 DEF Destroy
<1>3. ASSUME NEW t \in Threads, NEW g \in Guids, SetProperty(t, g) PROVE Unmoved'
  BY <1>3 DEF SetProperty
<1>4. ASSUME NEW t \in Threads, NEW g \in Guids, SetLocation(t, g) PROVE Unmoved'
  BY <1>4 DEF SetLocation
<1>5. ASSUME NEW t \in Threads, OnSpawn(t) PROVE Unmoved'
  BY <1>5 DEF OnSpawn
<1>6. ASSUME NEW t \in Threads, OnDestroy(t) PROVE Unmoved'
  BY <1>6 DEF OnDestroy
<1>7. ASSUME NEW t \in Threads, OnPropertyChanged(t) PROVE Unmoved'
  BY <1>7 DEF OnPropertyChanged
<1>8. ASSUME NEW t \in Threads, OnMoved(t) PROVE Unmoved'
  BY <1>8 DEF OnMoved
<1>9. ASSUME NEW c \in Clients, AddClient(c) PROVE Unmoved'
  BY <1>9 DEF AddClient
<1>10. ASSUME NEW c \in Clients, RemoveClient(c) PROVE Unmoved'
  BY <1>10 DEF RemoveClient
<1>11. ASSUME TickBegin PROVE Unmoved'
  BY <1>11 DEF TickBegin
<1>12. ASSUME TickLookup PROVE Unmoved'
  BY <1>12 DEF TickLookup
<1>13. ASSUME TickClients PROVE Unmoved'
  BY <1>13 DEF TickClients, ClientsSeeing
<1>14. ASSUME NEW c \in Clients, TickDrain(c) PROVE Unmoved'
  BY <1>14 DEF TickDrain, SpawnsFor, HidesFor, DiffEmitted
<1>15. ASSUME NEW c \in Clients, TickDrainGone(c) PROVE Unmoved'
  BY <1>15 DEF TickDrainGone, DiffEmitted
<1>16. ASSUME NEW g \in Guids, TickDelta(g) PROVE Unmoved'
  BY <1>16 DEF TickDelta, DeltaTargets, ClientsSeeing, DeltasDone, DrainsDone, DiffEmitted
<1>17. ASSUME NEW g \in Guids, TickDestroy(g) PROVE Unmoved'
  BY <1>17 DEF TickDestroy, ClientsSeeing, DeltasDone, DrainsDone, DiffEmitted
<1>18. ASSUME NEW g \in Guids, TickPurge(g) PROVE Unmoved'
  BY <1>18 DEF TickPurge
<1>19. ASSUME TickEnd PROVE Unmoved'
  BY <1>19 DEF TickEnd, DeltasDone, DrainsDone, DiffEmitted
<1>20. ASSUME NEW c \in Clients, NEW g \in Guids, EmitSpawn(c, g) PROVE Unmoved'
  BY <1>20 DEF EmitSpawn
<1>21. ASSUME NEW c \in Clients, NEW g \in Guids, EmitHide(c, g) PROVE Unmoved'
  BY <1>21 DEF EmitHide
<1>22. ASSUME NEW c \in Clients, EmitToNobody(c) PROVE Unmoved'
  BY <1>22 DEF EmitToNobody, DiffEmitted
<1>23. CASE UNCHANGED vars
  BY <1>23 DEF vars
<1>24. QED
  BY <1>1, <1>2, <1>3, <1>4, <1>5, <1>6, <1>7, <1>8, <1>9, <1>10, <1>11,
     <1>12, <1>13, <1>14, <1>15, <1>16, <1>17, <1>18, <1>19, <1>20, <1>21,
     <1>22, <1>23 DEF Next, Mutate, Deliver, Tick

\* Whatever takes a location out of one place has put it in the next.
LEMMA MovesCoveredNext ==
    TypeOK /\ TickShape /\ Origins /\ Dead /\ EventsCurrent /\ Unmoved /\ MovesCovered /\ [Next]_vars => MovesCovered'
<1> SUFFICES ASSUME TypeOK, TickShape, Origins, Dead, EventsCurrent, Unmoved, MovesCovered, [Next]_vars PROVE MovesCovered'
  OBVIOUS
<1> USE DEF TypeOK, TickShape, Origins, Dead, EventsCurrent,
            Unmoved, MovesCovered, MoveQueued,
            Announce, Event, Events, NoneMoved, NoEvent, Delivered, worldVars,
            visVars, queueVars, tickVars, takenVars, lookupVars,
            diffVars, viewVars
<1>1. ASSUME NEW t \in Threads, NEW g \in Guids, Spawn(t, g) PROVE MovesCovered'
  BY <1>1 DEF Spawn
<1>2. ASSUME NEW t \in Threads, NEW g \in Guids, Destroy(t, g) PROVE MovesCovered'
  BY <1>2 DEF Destroy
<1>3. ASSUME NEW t \in Threads, NEW g \in Guids, SetProperty(t, g) PROVE MovesCovered'
  BY <1>3 DEF SetProperty
<1>4. ASSUME NEW t \in Threads, NEW g \in Guids, SetLocation(t, g) PROVE MovesCovered'
  BY <1>4 DEF SetLocation
<1>5. ASSUME NEW t \in Threads, OnSpawn(t) PROVE MovesCovered'
  BY <1>5 DEF OnSpawn
<1>6. ASSUME NEW t \in Threads, OnDestroy(t) PROVE MovesCovered'
  BY <1>6 DEF OnDestroy
<1>7. ASSUME NEW t \in Threads, OnPropertyChanged(t) PROVE MovesCovered'
  BY <1>7 DEF OnPropertyChanged
<1>8. ASSUME NEW t \in Threads, OnMoved(t) PROVE MovesCovered'
  BY <1>8 DEF OnMoved
<1>9. ASSUME NEW c \in Clients, AddClient(c) PROVE MovesCovered'
  BY <1>9 DEF AddClient
<1>10. ASSUME NEW c \in Clients, RemoveClient(c) PROVE MovesCovered'
  BY <1>10 DEF RemoveClient
<1>11. ASSUME TickBegin PROVE MovesCovered'
  BY <1>11 DEF TickBegin
<1>12. ASSUME TickLookup PROVE MovesCovered'
  BY <1>12 DEF TickLookup
<1>13. ASSUME TickClients PROVE MovesCovered'
  BY <1>13 DEF TickClients, ClientsSeeing
<1>14. ASSUME NEW c \in Clients, TickDrain(c) PROVE MovesCovered'
  BY <1>14 DEF TickDrain, SpawnsFor, HidesFor, DiffEmitted
<1>15. ASSUME NEW c \in Clients, TickDrainGone(c) PROVE MovesCovered'
  BY <1>15 DEF TickDrainGone, DiffEmitted
<1>16. ASSUME NEW g \in Guids, TickDelta(g) PROVE MovesCovered'
  BY <1>16 DEF TickDelta, DeltaTargets, ClientsSeeing, DeltasDone, DrainsDone, DiffEmitted
<1>17. ASSUME NEW g \in Guids, TickDestroy(g) PROVE MovesCovered'
  BY <1>17 DEF TickDestroy, ClientsSeeing, DeltasDone, DrainsDone, DiffEmitted
<1>18. ASSUME NEW g \in Guids, TickPurge(g) PROVE MovesCovered'
  BY <1>18 DEF TickPurge
<1>19. ASSUME TickEnd PROVE MovesCovered'
  BY <1>19 DEF TickEnd, DeltasDone, DrainsDone, DiffEmitted
<1>20. ASSUME NEW c \in Clients, NEW g \in Guids, EmitSpawn(c, g) PROVE MovesCovered'
  BY <1>20 DEF EmitSpawn
<1>21. ASSUME NEW c \in Clients, NEW g \in Guids, EmitHide(c, g) PROVE MovesCovered'
  BY <1>21 DEF EmitHide
<1>22. ASSUME NEW c \in Clients, EmitToNobody(c) PROVE MovesCovered'
  BY <1>22 DEF EmitToNobody, DiffEmitted
<1>23. CASE UNCHANGED vars
  BY <1>23 DEF vars
<1>24. QED
  BY <1>1, <1>2, <1>3, <1>4, <1>5, <1>6, <1>7, <1>8, <1>9, <1>10, <1>11,
     <1>12, <1>13, <1>14, <1>15, <1>16, <1>17, <1>18, <1>19, <1>20, <1>21,
     <1>22, <1>23 DEF Next, Mutate, Deliver, Tick

\* A movement stays where it is in a step that leaves its places alone.
LEMMA MovesStay ==
    UNCHANGED <<loc, moved, event, movedSnapshot, tickPc, lookup>>
    => \A h : MoveQueued(h)' = MoveQueued(h) /\ MoveComing(h)' = MoveComing(h)
  BY DEF MoveQueued, MoveComing

\* A client that shows an older location will be sent the registry's.
LEMMA LostMoveNext ==
    TypeOK /\ TickShape /\ Origins /\ Dead /\ Known /\ EventsCurrent /\ Unmoved /\ MovesCovered /\ NoLostMove /\ [Next]_vars => NoLostMove'
<1> SUFFICES ASSUME TypeOK, TickShape, Origins, Dead, Known, EventsCurrent, Unmoved, MovesCovered, NoLostMove, [Next]_vars PROVE NoLostMove'
  OBVIOUS
<1> USE DEF TypeOK, TickShape, Origins, Dead, Known, EventsCurrent,
            Unmoved, MovesCovered, NoLostMove,
            Announce, Event, Events, NoneMoved, NoEvent, Delivered, worldVars,
            visVars, queueVars, tickVars, takenVars, lookupVars,
            diffVars, viewVars
<1>1. ASSUME NEW t \in Threads, NEW g \in Guids, Spawn(t, g) PROVE NoLostMove'
  <2>1. ASSUME NEW h \in actors', MoveQueued(h) PROVE MoveQueued(h)'
    BY <1>1, <2>1 DEF Spawn, MoveQueued
  <2>2. ASSUME NEW h \in actors', MoveComing(h) PROVE MoveComing(h)'
    BY <1>1, <2>2 DEF Spawn, MoveComing
  <2>3. \A c \in Clients : view[c][g] = "none"
    BY <1>1 DEF Spawn
  <2>4. QED
    BY <1>1, <2>1, <2>2, <2>3 DEF Spawn
<1>2. ASSUME NEW t \in Threads, NEW g \in Guids, Destroy(t, g) PROVE NoLostMove'
  <2>1. ASSUME NEW h \in actors', MoveQueued(h) PROVE MoveQueued(h)'
    BY <1>2, <2>1 DEF Destroy, MoveQueued
  <2>2. ASSUME NEW h \in actors', MoveComing(h) PROVE MoveComing(h)'
    BY <1>2, <2>2 DEF Destroy, MoveComing
  <2>3. QED
    BY <1>2, <2>1, <2>2 DEF Destroy
<1>3. ASSUME NEW t \in Threads, NEW g \in Guids, SetProperty(t, g) PROVE NoLostMove'
  <2>1. ASSUME NEW h \in actors', MoveQueued(h) PROVE MoveQueued(h)'
    BY <1>3, <2>1 DEF SetProperty, MoveQueued
  <2>2. ASSUME NEW h \in actors', MoveComing(h) PROVE MoveComing(h)'
    BY <1>3, <2>2 DEF SetProperty, MoveComing
  <2>3. QED
    BY <1>3, <2>1, <2>2 DEF SetProperty
<1>4. ASSUME NEW t \in Threads, NEW g \in Guids, SetLocation(t, g) PROVE NoLostMove'
  <2>1. MoveQueued(g)'
    BY <1>4 DEF SetLocation, MoveQueued
  <2>2. ASSUME NEW h \in actors, h # g, MoveQueued(h) PROVE MoveQueued(h)'
    BY <1>4, <2>2 DEF SetLocation, MoveQueued
  <2>3. ASSUME NEW h \in actors, h # g, MoveComing(h) PROVE MoveComing(h)'
    BY <1>4, <2>3 DEF SetLocation, MoveComing
  <2>4. QED
    BY <1>4, <2>1, <2>2, <2>3 DEF SetLocation
<1>5. ASSUME NEW t \in Threads, OnSpawn(t) PROVE NoLostMove'
  <2>1. ASSUME NEW h \in actors', MoveQueued(h) PROVE MoveQueued(h)'
    BY <1>5, <2>1 DEF OnSpawn, MoveQueued
  <2>2. ASSUME NEW h \in actors', MoveComing(h) PROVE MoveComing(h)'
    BY <1>5, <2>2 DEF OnSpawn, MoveComing
  <2>3. QED
    BY <1>5, <2>1, <2>2 DEF OnSpawn
<1>6. ASSUME NEW t \in Threads, OnDestroy(t) PROVE NoLostMove'
  <2>1. ASSUME NEW h \in actors', MoveQueued(h) PROVE MoveQueued(h)'
    BY <1>6, <2>1 DEF OnDestroy, MoveQueued
  <2>2. ASSUME NEW h \in actors', MoveComing(h) PROVE MoveComing(h)'
    BY <1>6, <2>2 DEF OnDestroy, MoveComing
  <2>3. QED
    BY <1>6, <2>1, <2>2 DEF OnDestroy
<1>7. ASSUME NEW t \in Threads, OnPropertyChanged(t) PROVE NoLostMove'
  <2>1. ASSUME NEW h \in actors', MoveQueued(h) PROVE MoveQueued(h)'
    BY <1>7, <2>1 DEF OnPropertyChanged, MoveQueued
  <2>2. ASSUME NEW h \in actors', MoveComing(h) PROVE MoveComing(h)'
    BY <1>7, <2>2 DEF OnPropertyChanged, MoveComing
  <2>3. QED
    BY <1>7, <2>1, <2>2 DEF OnPropertyChanged
<1>8. ASSUME NEW t \in Threads, OnMoved(t) PROVE NoLostMove'
  <2>1. ASSUME NEW h \in actors', MoveQueued(h) PROVE MoveQueued(h)'
    BY <1>8, <2>1 DEF OnMoved, MoveQueued
  <2>2. ASSUME NEW h \in actors', MoveComing(h) PROVE MoveComing(h)'
    BY <1>8, <2>2 DEF OnMoved, MoveComing
  <2>3. QED
    BY <1>8, <2>1, <2>2 DEF OnMoved
<1>9. ASSUME NEW c \in Clients, AddClient(c) PROVE NoLostMove'
  <2>1. ASSUME NEW h \in actors', MoveQueued(h) PROVE MoveQueued(h)'
    BY <1>9, <2>1 DEF AddClient, MoveQueued
  <2>2. ASSUME NEW h \in actors', MoveComing(h) PROVE MoveComing(h)'
    BY <1>9, <2>2 DEF AddClient, MoveComing
  <2>3. QED
    BY <1>9, <2>1, <2>2 DEF AddClient
<1>10. ASSUME NEW c \in Clients, RemoveClient(c) PROVE NoLostMove'
  <2>1. ASSUME NEW h \in actors', MoveQueued(h) PROVE MoveQueued(h)'
    BY <1>10, <2>1 DEF RemoveClient, MoveQueued
  <2>2. ASSUME NEW h \in actors', MoveComing(h) PROVE MoveComing(h)'
    BY <1>10, <2>2 DEF RemoveClient, MoveComing
  <2>3. QED
    BY <1>10, <2>1, <2>2 DEF RemoveClient
<1>11. ASSUME TickBegin PROVE NoLostMove'
  <2>1. ASSUME NEW h \in actors, MoveQueued(h)
        PROVE  MoveQueued(h)' \/ MoveComing(h)'
    BY <1>11, <2>1 DEF TickBegin, MoveQueued, MoveComing
  <2>2. ASSUME NEW h \in actors PROVE ~MoveComing(h)
    BY <1>11 DEF TickBegin, MoveComing
  <2>3. QED
    BY <1>11, <2>1, <2>2 DEF TickBegin
<1>12. ASSUME TickLookup PROVE NoLostMove'
  <2>1. ASSUME NEW h \in actors, MoveQueued(h) PROVE MoveQueued(h)'
    BY <1>12, <2>1 DEF TickLookup, MoveQueued
  <2>2. ASSUME NEW h \in actors, MoveComing(h) PROVE MoveComing(h)'
    BY <1>12, <2>2 DEF TickLookup, MoveComing
  <2>3. QED
    BY <1>12, <2>1, <2>2 DEF TickLookup
<1>13. ASSUME TickClients PROVE NoLostMove'
  <2>1. ASSUME NEW h \in actors', MoveQueued(h) PROVE MoveQueued(h)'
    BY <1>13, <2>1 DEF TickClients, ClientsSeeing, MoveQueued
  <2>2. ASSUME NEW h \in actors', MoveComing(h) PROVE MoveComing(h)'
    BY <1>13, <2>2 DEF TickClients, ClientsSeeing, MoveComing
  <2>3. QED
    BY <1>13, <2>1, <2>2 DEF TickClients, ClientsSeeing
<1>14. ASSUME NEW c \in Clients, TickDrain(c) PROVE NoLostMove'
  <2>1. ASSUME NEW h \in actors', MoveQueued(h) PROVE MoveQueued(h)'
    BY <1>14, <2>1 DEF TickDrain, MoveQueued
  <2>2. ASSUME NEW h \in actors', MoveComing(h) PROVE MoveComing(h)'
    BY <1>14, <2>2 DEF TickDrain, MoveComing
  <2>3. QED
    BY <1>14, <2>1, <2>2 DEF TickDrain
<1>15. ASSUME NEW c \in Clients, TickDrainGone(c) PROVE NoLostMove'
  <2>1. ASSUME NEW h \in actors', MoveQueued(h) PROVE MoveQueued(h)'
    BY <1>15, <2>1 DEF TickDrainGone, DiffEmitted, MoveQueued
  <2>2. ASSUME NEW h \in actors', MoveComing(h) PROVE MoveComing(h)'
    BY <1>15, <2>2 DEF TickDrainGone, DiffEmitted, MoveComing
  <2>3. QED
    BY <1>15, <2>1, <2>2 DEF TickDrainGone, DiffEmitted
<1>16. ASSUME NEW g \in Guids, TickDelta(g) PROVE NoLostMove'
  <2>1. UNCHANGED <<knownClients, knownActors, actors, loc, view, event, moved, tickPc, lookup>>
    BY <1>16 DEF TickDelta
  <2>2. SUFFICES ASSUME NEW c \in knownClients, NEW h \in actors,
                        view[c][h] = "live", viewLoc'[c][h] # loc[h],
                        ~MoveQueued(h)
                 PROVE  MoveComing(h)'
    <3>1. \A h : MoveQueued(h)' = MoveQueued(h)
      BY <2>1 DEF MoveQueued
    <3>2. QED
      BY <2>1, <3>1
  <2>3. CASE h = g /\ movedSnapshot[g] > 0 /\ g \in lookup
    <3>1. viewLoc'[c][h] = movedSnapshot[h]
      <4>1. c \in DeltaTargets(g)
        <5>1. g \in knownActors
          BY <2>2, <2>3 DEF Known
        <5>2. QED
          BY <2>2, <2>3, <5>1 DEF DeltaTargets, ClientsSeeing
      <4>2. viewLoc'[c] = [viewLoc[c] EXCEPT ![g] = movedSnapshot[g]]
        <5>1. c \in Clients
          BY <2>2 DEF TypeOK
        <5>2. QED
          BY <1>16, <2>2, <2>3, <4>1, <5>1 DEF TickDelta
      <4>3. viewLoc[c] \in [Guids -> Nat]
        BY <2>2 DEF TypeOK
      <4>4. QED
        BY <2>3, <4>2, <4>3
    <3>2. movedSnapshot[h] = loc[h]
      BY <2>2, <2>3
    <3>3. QED
      BY <2>2, <3>1, <3>2
  <2>4. CASE ~(h = g /\ movedSnapshot[g] > 0 /\ g \in lookup)
    <3>1. viewLoc'[c][h] = viewLoc[c][h]
      BY <1>16, <2>2, <2>4 DEF TickDelta, DeltaTargets
    <3>2. MoveComing(h)
      BY <2>2, <3>1
    <3>3. QED
      BY <1>16, <2>1, <2>4, <3>2 DEF TickDelta, MoveComing
  <2>5. QED
    BY <2>3, <2>4
<1>17. ASSUME NEW g \in Guids, TickDestroy(g) PROVE NoLostMove'
  <2>1. ASSUME NEW h \in actors', MoveQueued(h) PROVE MoveQueued(h)'
    BY <1>17, <2>1 DEF TickDestroy, ClientsSeeing, DeltasDone, DrainsDone, DiffEmitted, MoveQueued
  <2>2. ASSUME NEW h \in actors', MoveComing(h) PROVE MoveComing(h)'
    BY <1>17, <2>2 DEF TickDestroy, ClientsSeeing, DeltasDone, DrainsDone, DiffEmitted, MoveComing
  <2>3. QED
    BY <1>17, <2>1, <2>2 DEF TickDestroy, ClientsSeeing, DeltasDone, DrainsDone, DiffEmitted
<1>18. ASSUME NEW g \in Guids, TickPurge(g) PROVE NoLostMove'
  <2>1. ASSUME NEW h \in actors', MoveQueued(h) PROVE MoveQueued(h)'
    BY <1>18, <2>1 DEF TickPurge, MoveQueued
  <2>2. ASSUME NEW h \in actors', MoveComing(h) PROVE MoveComing(h)'
    BY <1>18, <2>2 DEF TickPurge, MoveComing
  <2>3. QED
    BY <1>18, <2>1, <2>2 DEF TickPurge
<1>19. ASSUME TickEnd PROVE NoLostMove'
  <2>1. ASSUME NEW h \in actors, MoveQueued(h) PROVE MoveQueued(h)'
    BY <1>19, <2>1 DEF TickEnd, MoveQueued
  <2>2. ASSUME NEW h \in actors, MoveComing(h) PROVE MoveQueued(h)
    <3>1. loc[h] = 0
      BY <1>19, <2>2 DEF TickEnd, DeltasDone, DrainsDone, DiffEmitted, MoveComing
    <3>2. QED
      BY <3>1 DEF MoveQueued
  <2>3. QED
    BY <1>19, <2>1, <2>2 DEF TickEnd
<1>20. ASSUME NEW c \in Clients, NEW g \in Guids, EmitSpawn(c, g) PROVE NoLostMove'
  <2>1. UNCHANGED <<knownClients, actors, loc, moved, event, movedSnapshot, tickPc, lookup>>
    BY <1>20 DEF EmitSpawn
  <2>2. SUFFICES ASSUME NEW d \in knownClients, NEW h \in actors,
                        view'[d][h] = "live", viewLoc'[d][h] # loc[h],
                        ~MoveQueued(h)
                 PROVE  MoveComing(h)
    BY <2>1, MovesStay
  <2>3. CASE d = c /\ h = g
    <3>1. viewLoc'[d][h] = lookupLoc[h] /\ h \in lookup
      BY <1>20, <2>3 DEF EmitSpawn
    <3>2. QED
      BY <2>2, <2>3, <3>1, <1>20 DEF EmitSpawn
  <2>4. CASE ~(d = c /\ h = g)
    <3>1. view[d][h] = "live" /\ viewLoc[d][h] # loc[h]
      BY <1>20, <2>2, <2>4 DEF EmitSpawn
    <3>2. QED
      BY <2>2, <3>1
  <2>5. QED
    BY <2>3, <2>4
<1>21. ASSUME NEW c \in Clients, NEW g \in Guids, EmitHide(c, g) PROVE NoLostMove'
  <2>1. ASSUME NEW h \in actors', MoveQueued(h) PROVE MoveQueued(h)'
    BY <1>21, <2>1 DEF EmitHide, MoveQueued
  <2>2. ASSUME NEW h \in actors', MoveComing(h) PROVE MoveComing(h)'
    BY <1>21, <2>2 DEF EmitHide, MoveComing
  <2>3. QED
    BY <1>21, <2>1, <2>2 DEF EmitHide
<1>22. ASSUME NEW c \in Clients, EmitToNobody(c) PROVE NoLostMove'
  <2>1. ASSUME NEW h \in actors', MoveQueued(h) PROVE MoveQueued(h)'
    BY <1>22, <2>1 DEF EmitToNobody, MoveQueued
  <2>2. ASSUME NEW h \in actors', MoveComing(h) PROVE MoveComing(h)'
    BY <1>22, <2>2 DEF EmitToNobody, MoveComing
  <2>3. QED
    BY <1>22, <2>1, <2>2 DEF EmitToNobody
<1>23. CASE UNCHANGED vars
  BY <1>23, MovesStay DEF vars
<1>24. QED
  BY <1>1, <1>2, <1>3, <1>4, <1>5, <1>6, <1>7, <1>8, <1>9, <1>10, <1>11,
     <1>12, <1>13, <1>14, <1>15, <1>16, <1>17, <1>18, <1>19, <1>20, <1>21,
     <1>22, <1>23 DEF Next, Mutate, Deliver, Tick

LEMMA InitMoveInv == Init => MoveInv
<1> SUFFICES ASSUME Init PROVE MoveInv
  OBVIOUS
<1>1. EventsCurrent /\ Unmoved /\ MovesCovered /\ NoLostMove
  BY DEF Init, EventsCurrent, Unmoved, MovesCovered, MoveQueued, NoLostMove,
         NoneMoved, NoEvent, Delivered
<1>2. QED
  BY <1>1, InitIInv DEF MoveInv

LEMMA NextMoveInv == OneMover /\ MoveInv /\ [Next]_vars => MoveInv'
<1> SUFFICES ASSUME OneMover, MoveInv, [Next]_vars PROVE MoveInv'
  OBVIOUS
<1>1. IInv /\ IInv'
  BY NextIInv DEF MoveInv
<1>2. TypeOK /\ TickShape /\ Origins /\ Dead /\ Known
  BY <1>1 DEF IInv
<1>3. QED
  BY <1>1, <1>2, EventsCurrentNext, UnmovedNext, MovesCoveredNext, LostMoveNext
     DEF MoveInv

\* No movement is lost with one mover, the receive thread of
\* GameServer, whatever clients come and go and wherever the tick stands.
THEOREM ReplicationNoLostMove ==
    ASSUME OneMover
    PROVE  Spec => []NoLostMove
<1>1. Init => MoveInv
  BY InitMoveInv
<1>2. MoveInv /\ [Next]_vars => MoveInv'
  BY NextMoveInv
<1>3. MoveInv => NoLostMove
  BY DEF MoveInv
<1>4. QED
  BY <1>1, <1>2, <1>3, PTL DEF Spec

-----------------------------------------------------------------------------
(* The pipeline at rest.                                                   *)

\* No event is on its way, nothing is queued for a tick, and none is under way.
AtRest ==
    /\ \A t \in Threads : event[t] = NoEvent
    /\ dirty = {} /\ pendingDestroys = {} /\ tickPc = "idle"

LEMMA RestAgrees ==
    ASSUME IInv, AtRest, NEW c \in Clients, NEW g \in Guids, view[c][g] = "live"
    PROVE  g \in actors /\ viewProp[c][g] = prop[g]
<1>1. c \in knownClients
  BY DEF IInv, Known
<1>2. dirtySnapshot = {} /\ destroySnapshot = {}
  BY DEF AtRest, IInv, TickShape
<1>3. ~InFlight("changed", g) /\ ~InFlight("destroyed", g)
  BY DEF AtRest, InFlight, Delivered
<1>4. g \in actors
  BY <1>1, <1>2, <1>3 DEF AtRest, IInv, NoGhost
<1>5. QED
  BY <1>1, <1>2, <1>3, <1>4 DEF AtRest, IInv, NoLostUpdate, DeltaComing

\* At rest every client's copy is the registry as far as it goes: what it shows
\* is alive and has the registry's property.  (That it shows every actor is what
\* the code does not guarantee: AllSeeAll.)
THEOREM ReplicationConverges ==
    Spec => [](AtRest => \A c \in Clients, g \in Guids :
                 view[c][g] = "live" => g \in actors /\ viewProp[c][g] = prop[g])
<1>1. IInv => (AtRest => \A c \in Clients, g \in Guids :
                 view[c][g] = "live" => g \in actors /\ viewProp[c][g] = prop[g])
  BY RestAgrees
<1>2. QED
  BY <1>1, ReplicationInvariant, PTL

\* With one mover its locations are the registry's too, once no
\* movement is queued.
THEOREM ReplicationMovesConverge ==
    ASSUME OneMover
    PROVE  Spec => [](AtRest /\ moved = NoneMoved =>
                        \A c \in Clients, g \in Guids :
                          view[c][g] = "live" => viewLoc[c][g] = loc[g])
<1>1. MoveInv /\ MovesBehind =>
        (AtRest /\ moved = NoneMoved =>
           \A c \in Clients, g \in Guids : view[c][g] = "live" => viewLoc[c][g] = loc[g])
  <2> SUFFICES ASSUME MoveInv, MovesBehind, AtRest, moved = NoneMoved,
                      NEW c \in Clients, NEW g \in Guids, view[c][g] = "live"
               PROVE  viewLoc[c][g] = loc[g]
    OBVIOUS
  <2>1. c \in knownClients /\ g \in actors
    BY RestAgrees DEF MoveInv, IInv, Known
  <2>2. ~MoveComing(g)
    BY DEF AtRest, MoveComing, MoveInv, IInv, TickShape
  <2>3. viewLoc[c][g] = loc[g] \/ MoveQueued(g)
    BY <2>1, <2>2 DEF MoveInv, NoLostMove
  <2>4. ~\E t \in Threads : event[t] = Event("moved", g, loc[g])
    BY DEF AtRest, Event, NoEvent
  <2>5. MoveQueued(g) => loc[g] = 0
    BY <2>4 DEF MoveQueued, NoneMoved
  <2>6. viewLoc[c][g] \in Nat /\ loc[g] \in Nat /\ viewLoc[c][g] <= loc[g]
    BY DEF MoveInv, IInv, TypeOK, MovesBehind
  <2>7. QED
    BY <2>3, <2>5, <2>6
<1>2. QED
  BY <1>1, MovesBehindInvariant, InitMoveInv, NextMoveInv, PTL DEF Spec

-----------------------------------------------------------------------------
(* The pipeline implements ReplicaView.                                    *)

RepVars == <<actors, prop, spawned, knownClients, view, viewProp>>

\* A bunch step changes one client's copy, or one actor's in several copies,
\* only as Appear, Refresh and Vanish allow.
LEMMA SpawnDelivers ==
    ASSUME IInv, NEW c \in Clients, NEW g \in Guids, EmitSpawn(c, g)
    PROVE  Replica!Deliver
<1>1. UNCHANGED <<actors, prop, spawned, knownClients>> /\ c \in knownClients
  BY DEF EmitSpawn, worldVars, visVars
<1>2. ASSUME NEW d \in Clients, NEW h \in Guids, ~(d = c /\ h = g)
      PROVE  Replica!Same(d, h)
  BY <1>2 DEF EmitSpawn, Replica!Same, IInv, TypeOK
<1>3. Replica!Appear(c, g) \/ Replica!Refresh(c, g)
  <2>1. g \in lookup
    BY DEF EmitSpawn, IInv, Known
  <2>2. view[c][g] \in {"none", "live"}
    <3>1. view[c][g] \in {"none", "live", "gone"}
      BY DEF IInv, TypeOK
    <3>2. view[c][g] # "gone"
      BY <2>1 DEF IInv, Dead
    <3>3. QED
      BY <3>1, <3>2
  <2>3. view'[c][g] = "live" /\ viewProp'[c][g] = lookupProp[g]
    BY DEF EmitSpawn, IInv, TypeOK
  <2>4. QED
    BY <2>1, <2>2, <2>3 DEF Replica!Appear, Replica!Refresh, IInv, Fresh
<1>4. QED
  BY <1>1, <1>2, <1>3 DEF Replica!Deliver

LEMMA HideDelivers ==
    ASSUME IInv, NEW c \in Clients, NEW g \in Guids, EmitHide(c, g)
    PROVE  Replica!Deliver
<1>1. UNCHANGED <<actors, prop, spawned, knownClients>> /\ c \in knownClients
  BY DEF EmitHide, worldVars, visVars
<1>2. ASSUME NEW d \in Clients, NEW h \in Guids, ~(d = c /\ h = g)
      PROVE  Replica!Same(d, h)
  BY <1>2 DEF EmitHide, Replica!Same, IInv, TypeOK
<1>3. Replica!Vanish(c, g)
  BY DEF EmitHide, Replica!Vanish, IInv, TypeOK, Dead
<1>4. QED
  BY <1>1, <1>2, <1>3 DEF Replica!Deliver

LEMMA DeltaDelivers ==
    ASSUME IInv, NEW g \in Guids, TickDelta(g)
    PROVE  Replica!Deliver
<1>1. UNCHANGED <<actors, prop, spawned, knownClients, view>>
  BY DEF TickDelta, worldVars, visVars
<1>2. ASSUME NEW c \in Clients, NEW h \in Guids,
             c \in DeltaTargets(g), view[c][g] = "live", g \in dirtySnapshot, h = g
      PROVE  c \in knownClients /\ Replica!Refresh(c, h)
  <2>1. c \in knownClients /\ g \in lookup
    BY <1>2 DEF DeltaTargets, ClientsSeeing
  <2>2. viewProp'[c][g] = lookupProp[g]
    BY <1>2 DEF TickDelta, IInv, TypeOK
  <2>3. QED
    BY <1>1, <1>2, <2>1, <2>2 DEF Replica!Refresh, IInv, TypeOK, Fresh
<1>3. ASSUME NEW c \in Clients, NEW h \in Guids,
             ~(/\ c \in DeltaTargets(g) /\ view[c][g] = "live"
               /\ g \in dirtySnapshot /\ h = g)
      PROVE  Replica!Same(c, h)
  BY <1>1, <1>3 DEF TickDelta, Replica!Same, IInv, TypeOK
<1>4. QED
  BY <1>1, <1>2, <1>3 DEF Replica!Deliver

LEMMA DestroyDelivers ==
    ASSUME IInv, NEW g \in Guids, TickDestroy(g)
    PROVE  Replica!Deliver
<1>1. UNCHANGED <<actors, prop, spawned, knownClients, viewProp>> /\ g \notin actors
  BY DEF TickDestroy, worldVars, visVars, IInv, Dead
<1>2. ASSUME NEW c \in Clients, NEW h \in Guids, c \in ClientsSeeing(g), h = g
      PROVE  c \in knownClients /\ Replica!Vanish(c, h)
  BY <1>1, <1>2 DEF TickDestroy, ClientsSeeing, Replica!Vanish, IInv, TypeOK
<1>3. ASSUME NEW c \in Clients, NEW h \in Guids, ~(c \in ClientsSeeing(g) /\ h = g)
      PROVE  Replica!Same(c, h)
  BY <1>1, <1>3 DEF TickDestroy, Replica!Same, IInv, TypeOK
<1>4. QED
  BY <1>1, <1>2, <1>3 DEF Replica!Deliver

\* A step of the pipeline is a step of ReplicaView or leaves its state alone.
LEMMA StepRefines == IInv /\ [Next]_vars => [Replica!Next]_RepVars
<1> SUFFICES ASSUME IInv, [Next]_vars PROVE Replica!Next \/ UNCHANGED RepVars
  OBVIOUS
<1> USE DEF RepVars, worldVars, visVars, viewVars
<1>1. ASSUME NEW t \in Threads, Mutate(t) PROVE Replica!Next \/ UNCHANGED RepVars
  BY <1>1 DEF Mutate, Spawn, Destroy, SetProperty, SetLocation, Replica!Next,
              Replica!Spawn, Replica!Destroy, Replica!Change
<1>2. ASSUME NEW t \in Threads, Deliver(t) PROVE UNCHANGED RepVars
  BY <1>2 DEF Deliver, OnSpawn, OnDestroy, OnPropertyChanged, OnMoved
<1>3. ASSUME NEW c \in Clients, AddClient(c) \/ RemoveClient(c) PROVE Replica!Next
  BY <1>3 DEF AddClient, RemoveClient, Replica!Next, Replica!Join, Replica!Leave
<1>4. CASE TickBegin \/ TickLookup \/ TickClients \/ TickEnd
  BY <1>4 DEF TickBegin, TickLookup, TickClients, TickEnd
<1>5. ASSUME NEW c \in Clients, TickDrain(c) \/ TickDrainGone(c) \/ EmitToNobody(c)
      PROVE  UNCHANGED RepVars
  BY <1>5 DEF TickDrain, TickDrainGone, EmitToNobody
<1>6. ASSUME NEW g \in Guids, TickDelta(g) \/ TickDestroy(g) \/ TickPurge(g)
      PROVE  Replica!Next \/ UNCHANGED RepVars
  BY <1>6, DeltaDelivers, DestroyDelivers DEF TickPurge, Replica!Next
<1>7. ASSUME NEW c \in Clients, NEW g \in Guids, EmitSpawn(c, g) \/ EmitHide(c, g)
      PROVE  Replica!Next
  BY <1>7, SpawnDelivers, HideDelivers DEF Replica!Next
<1>8. CASE UNCHANGED vars
  BY <1>8 DEF vars
<1>9. QED
  BY <1>1, <1>2, <1>3, <1>4, <1>5, <1>6, <1>7, <1>8 DEF Next, Tick

\* Seen from the clients, the pipeline is a late copy of the world that is
\* never invented, never rewound and never resurrected.
THEOREM ReplicationImplementsReplicaView == Spec => ImplementsReplicaView
<1>1. Init => Replica!Init
  BY DEF Init, Replica!Init
<1>2. IInv /\ [Next]_vars => [Replica!Next]_(Replica!replicaVars)
  BY StepRefines DEF RepVars, Replica!replicaVars
<1>3. QED
  BY <1>1, <1>2, ReplicationInvariant, PTL
     DEF Spec, ImplementsReplicaView, Replica!Spec

\* A client's copy is of a client that is known, and shows no property and no
\* location the registry has not reached.
THEOREM ReplicationNeverAhead ==
    Spec => [](\A c \in Clients, g \in Guids :
                 view[c][g] = "live" =>
                   /\ c \in knownClients
                   /\ viewProp[c][g] <= prop[g] /\ viewLoc[c][g] <= loc[g])
<1>1. IInv /\ MovesBehind =>
        \A c \in Clients, g \in Guids :
          view[c][g] = "live" =>
            /\ c \in knownClients
            /\ viewProp[c][g] <= prop[g] /\ viewLoc[c][g] <= loc[g]
  BY DEF IInv, Known, Fresh, MovesBehind
<1>2. QED
  BY <1>1, ReplicationInvariant, MovesBehindInvariant, PTL

\* What ReplicaView gives a client that stays: an actor it shows never goes
\* back to an older value and leaves only for good, and one that has left never
\* comes back, however spawns, deltas and destroys of other ticks and threads
\* are interleaved with its own.
THEOREM ReplicationNeverRewinds ==
    Spec => [][\A c \in Clients, g \in Guids : c \in knownClients' =>
                 /\ view[c][g] = "live" =>
                      \/ view'[c][g] = "live" /\ viewProp[c][g] <= viewProp'[c][g]
                      \/ view'[c][g] = "gone"
                 /\ view[c][g] = "gone" => view'[c][g] = "gone"]_vars
<1> DEFINE Keeps(c, g) ==
             /\ view[c][g] = "live" =>
                  \/ view'[c][g] = "live" /\ viewProp[c][g] <= viewProp'[c][g]
                  \/ view'[c][g] = "gone"
             /\ view[c][g] = "gone" => view'[c][g] = "gone"
<1>1. IInv /\ [Next]_vars =>
        [\A c \in Clients, g \in Guids : c \in knownClients' => Keeps(c, g)]_vars
  <2> SUFFICES ASSUME IInv, [Next]_vars, NEW c \in Clients, NEW g \in Guids,
                      c \in knownClients'
               PROVE  Keeps(c, g)
    OBVIOUS
  <2>1. viewProp[c][g] \in Nat
    BY DEF IInv, TypeOK
  <2>2. CASE view' = view /\ viewProp' = viewProp
    BY <2>1, <2>2
  <2>3. CASE \E d \in Clients : Replica!Leave(d)
    <3>1. PICK d \in Clients : Replica!Leave(d)
      BY <2>3
    <3>2. d # c
      BY <3>1 DEF Replica!Leave
    <3>3. view'[c][g] = view[c][g] /\ viewProp'[c][g] = viewProp[c][g]
      BY <3>1, <3>2 DEF Replica!Leave, IInv, TypeOK
    <3>4. QED
      BY <2>1, <3>3
  <2>4. CASE Replica!Deliver
    <3>1. \/ Replica!Same(c, g)
          \/ Replica!Appear(c, g) \/ Replica!Refresh(c, g) \/ Replica!Vanish(c, g)
      BY <2>4 DEF Replica!Deliver
    <3>2. QED
      BY <2>1, <3>1 DEF Replica!Same, Replica!Appear, Replica!Refresh, Replica!Vanish
  <2>5. \/ view' = view /\ viewProp' = viewProp
        \/ \E d \in Clients : Replica!Leave(d)
        \/ Replica!Deliver
    BY StepRefines DEF RepVars, Replica!Next, Replica!Spawn, Replica!Destroy,
       Replica!Change, Replica!Join
  <2>6. QED
    BY <2>2, <2>3, <2>4, <2>5
<1>2. QED
  BY <1>1, ReplicationInvariant, PTL DEF Spec
=============================================================================
