------------------------------- MODULE LiveWorld -------------------------------
(***************************************************************************)
(* LiveWorld's sessions: SessionRegistry, OpcodeDispatcher, the NetGUID    *)
(* blocks and the registration of clients and of their actors.  One action *)
(* is one call into LiveWorld, from GameServer's receive thread or from a  *)
(* test: on_client_connected, on_client_disconnected, on_packet with an    *)
(* opcode the dispatcher accepts, and GameServer's                         *)
(* spawn_session_g_actors_for.  A packet the dispatcher rejects, and one   *)
(* it accepts without a change of phase, changes no state kept here.       *)
(***************************************************************************)
EXTENDS NetGuidAllocator, FiniteSets

VARIABLES
    session,       \* SessionRegistry: "none" or the phase of the session
    block,         \* base of ClientSession::netguid_block, 0 if invalid
    knownClients,  \* VisibilityManager::known_clients_
    actors,        \* ActorRegistry: records of guid and owner_client_key
    used           \* every guid an actor was ever registered under

worldVars == <<allocatorVars, session, block, knownClients, actors, used>>

\* Phases in which the player has logged in and not left.
LoggedIn == {"AUTHENTICATED", "LOADING_MAP", "SPAWNING", "IN_WORLD"}
Phases == {"AWAITING_HANDSHAKE", "HANDSHAKE_IN_PROGRESS", "NMT_NEGOTIATING",
           "DISCONNECTING"} \cup LoggedIn

WorldTypeOK ==
    /\ nextSlot \in 0..MaxSlots
    /\ table \in [Keys -> Nat] /\ block \in [Keys -> Nat]
    /\ \A k \in Keys : table[k] < DynamicBase + nextSlot * BlockSize
    /\ session \in [Keys -> Phases \cup {"none"}]
    /\ knownClients \subseteq Keys
    /\ actors \subseteq [guid : Nat, owner : Keys]
    /\ used \subseteq Nat /\ {a.guid : a \in actors} \subseteq used

WorldInit ==
    /\ AllocatorInit
    /\ session = [k \in Keys |-> "none"]
    /\ block = [k \in Keys |-> 0]
    /\ knownClients = {} /\ actors = {} /\ used = {}

-----------------------------------------------------------------------------
(* OpcodeDispatcher                                                        *)

TransitionTo(k, p) == session' = [session EXCEPT ![k] = p]

\* HANDSHAKE_INITIAL is the only opcode that creates a session.
HandshakeInitial(k) ==
    /\ session[k] \in {"none", "AWAITING_HANDSHAKE", "HANDSHAKE_IN_PROGRESS"}
    /\ TransitionTo(k, "HANDSHAKE_IN_PROGRESS")
    /\ UNCHANGED <<allocatorVars, block, knownClients, actors, used>>

HandshakeResponse(k) ==
    /\ session[k] = "HANDSHAKE_IN_PROGRESS"
    /\ TransitionTo(k, "NMT_NEGOTIATING")
    /\ UNCHANGED <<allocatorVars, block, knownClients, actors, used>>

\* Faulty: keeps the block of an earlier allocation in the session.
NmtLoginKeepsBlock(k) ==
    /\ session[k] = "NMT_NEGOTIATING"
    /\ AllocatePlayerBlock(k)
    /\ block' = [block EXCEPT ![k] = IF @ = 0 THEN FreshBlock ELSE @]
    /\ TransitionTo(k, "AUTHENTICATED")
    /\ UNCHANGED <<knownClients, actors, used>>

\* A login with a player name; a block is allocated even if there is one.
NmtLogin(k) ==
    /\ session[k] = "NMT_NEGOTIATING"
    /\ AllocatePlayerBlock(k)
    /\ block' = [block EXCEPT ![k] = FreshBlock]
    /\ TransitionTo(k, "AUTHENTICATED")
    /\ UNCHANGED <<knownClients, actors, used>>

NmtWelcome(k) ==
    /\ session[k] = "AUTHENTICATED"
    /\ TransitionTo(k, "LOADING_MAP")
    /\ UNCHANGED <<allocatorVars, block, knownClients, actors, used>>

NmtJoin(k) ==
    /\ session[k] = "LOADING_MAP"
    /\ TransitionTo(k, "SPAWNING")
    /\ UNCHANGED <<allocatorVars, block, knownClients, actors, used>>

\* AoC sends opcode 18 straight after NMT_Netspeed and skips the two above.
NmtGameSpecific(k) ==
    /\ session[k] \in {"AUTHENTICATED", "LOADING_MAP", "SPAWNING"}
    /\ TransitionTo(k, "IN_WORLD")
    /\ UNCHANGED <<allocatorVars, block, knownClients, actors, used>>

NmtAbort(k) ==
    /\ session[k] # "none"
    /\ TransitionTo(k, "DISCONNECTING")
    /\ UNCHANGED <<allocatorVars, block, knownClients, actors, used>>

\* Faulty: releases the block but leaves the phase.
ClientDisconnectStays(k) ==
    /\ session[k] # "none"
    /\ IF block[k] # 0 THEN ReleasePlayerBlock(k) ELSE UNCHANGED allocatorVars
    /\ UNCHANGED <<session, block, knownClients, actors, used>>

\* The session keeps its copy of the released block.
ClientDisconnect(k) ==
    /\ session[k] # "none"
    /\ IF block[k] # 0 THEN ReleasePlayerBlock(k) ELSE UNCHANGED allocatorVars
    /\ TransitionTo(k, "DISCONNECTING")
    /\ UNCHANGED <<block, knownClients, actors, used>>

-----------------------------------------------------------------------------
(* LiveWorld                                                               *)

\* The session and visibility part of on_client_connected.
RegisterClient(k) ==
    /\ session' = [session EXCEPT ![k] =
         IF @ \in {"none", "AWAITING_HANDSHAKE"} THEN "NMT_NEGOTIATING" ELSE @]
    /\ knownClients' = knownClients \cup {k}

OnClientConnected(k) ==
    /\ RegisterClient(k)
    /\ UNCHANGED <<allocatorVars, block, actors, used>>

\* Faulty: the visibility manager keeps the client.
OnClientDisconnectedKeepsClient(k) ==
    /\ IF block[k] # 0 THEN ReleasePlayerBlock(k) ELSE UNCHANGED allocatorVars
    /\ TransitionTo(k, "none")
    /\ block' = [block EXCEPT ![k] = 0]
    /\ UNCHANGED <<knownClients, actors, used>>

\* Releases the block, unregisters the client and erases the session.
OnClientDisconnected(k) ==
    /\ IF block[k] # 0 THEN ReleasePlayerBlock(k) ELSE UNCHANGED allocatorVars
    /\ TransitionTo(k, "none")
    /\ block' = [block EXCEPT ![k] = 0]
    /\ knownClients' = knownClients \ {k}
    /\ UNCHANGED <<actors, used>>

\* The guids spawn_session_g_actors_for registers: controller, pawn, state.
PlayerGuids(base) == {base, base + 2, base + 4}

\* The allocator and registry part of spawn_session_g_actors_for: a block of
\* its own, whatever the session already has, and three more actors.
SpawnPlayer(k) ==
    /\ AllocatePlayerBlock(k)
    /\ block' = [block EXCEPT ![k] = FreshBlock]
    /\ actors' = actors \cup
         {[guid |-> g, owner |-> k] :
            g \in {h \in PlayerGuids(FreshBlock) : \A a \in actors : a.guid # h}}
    /\ used' = used \cup PlayerGuids(FreshBlock)

SpawnSessionGActorsFor(k) ==
    /\ session[k] # "none"
    /\ SpawnPlayer(k)
    /\ UNCHANGED <<session, knownClients>>

\* ActorRegistry::destroy, called by tests for a player that leaves.
DestroyActor(a) ==
    /\ actors' = actors \ {a}
    /\ UNCHANGED <<allocatorVars, session, block, knownClients, used>>

-----------------------------------------------------------------------------

Dispatch(k) == \/ HandshakeInitial(k) \/ HandshakeResponse(k)
               \/ NmtLogin(k) \/ NmtWelcome(k) \/ NmtJoin(k)
               \/ NmtGameSpecific(k) \/ NmtAbort(k) \/ ClientDisconnect(k)

WorldNext ==
    \/ \E k \in Keys : \/ Dispatch(k)
                       \/ OnClientConnected(k) \/ OnClientDisconnected(k)
                       \/ SpawnSessionGActorsFor(k)
    \/ \E a \in actors : DestroyActor(a)

WorldSpec == WorldInit /\ [][WorldNext]_worldVars

-----------------------------------------------------------------------------
(* Properties                                                              *)

\* A player that has logged in holds the block the allocator records for it,
\* whichever of the login, the actor spawn, an abort, a disconnect and a
\* reconnect came in between.
BlockOwnership ==
    \A k \in Keys : session[k] \in LoggedIn => block[k] # 0 /\ table[k] = block[k]

\* No two players' blocks overlap, not even a block that was released and is
\* still remembered by a session that is disconnecting.
BlocksDisjoint ==
    \A j, k \in Keys :
        j # k /\ block[j] # 0 /\ block[k] # 0
        => block[j] + BlockSize <= block[k] \/ block[k] + BlockSize <= block[j]

\* Replication never sees a guid twice: the actors of a player are registered
\* under guids no actor has ever had, so ActorRegistry::spawn does not refuse
\* them and no client takes them for an actor it knows.
FreshGuids ==
    [][\A k \in Keys : SpawnSessionGActorsFor(k) =>
         PlayerGuids(FreshBlock) \cap used = {}]_worldVars

\* The visibility manager fans out only to clients that have a session.
ClientsHaveSessions == \A k \in knownClients : session[k] # "none"
=============================================================================
