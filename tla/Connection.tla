------------------------------ MODULE Connection ------------------------------
(***************************************************************************)
(* A client's connection as GameServer's receive thread drives it.  Every  *)
(* packet feeds two machines: the legacy one in ClientState (phase and     *)
(* nmt_state), which answers the client, and LiveWorld's session.  The     *)
(* two are updated by different code from the same packets; nothing but    *)
(* the order of the packets keeps them together.                           *)
(*                                                                         *)
(* One action is one packet, or one idle round of send_periodic_keepalives. *)
(* The receive thread is alone with this state; what the replay thread     *)
(* does with it is in module ReplayThread.                                 *)
(***************************************************************************)
EXTENDS LiveWorld

VARIABLES
    phase,     \* ClientState::phase, "none" while clients_ has no entry
    nmtState   \* ClientState::nmt_state

legacyVars == <<phase, nmtState>>
connVars == <<worldVars, legacyVars>>

LegacyPhases == {"AWAITING_INITIAL", "CHALLENGE_SENT", "HANDSHAKE_COMPLETE",
                 "CONNECTED"}

\* The control messages of an AoC client that either machine looks at.
Messages == {"Hello", "Login", "Netspeed", "Welcome", "Join", "GameSpecific",
             "Abort"}

ConnTypeOK ==
    /\ WorldTypeOK
    /\ phase \in [Keys -> LegacyPhases \cup {"none"}]
    /\ nmtState \in [Keys -> 0..4]
    /\ \A k \in Keys : phase[k] = "CONNECTED" => nmtState[k] = 4

ConnInit ==
    /\ WorldInit
    /\ phase = [k \in Keys |-> "none"]
    /\ nmtState = [k \in Keys |-> 0]

-----------------------------------------------------------------------------
(* StatelessConnect                                                        *)

\* Accepted in any phase: a known client starts over, its NMT state stays.
HandleInitial(k) ==
    /\ phase' = [phase EXCEPT ![k] = "CHALLENGE_SENT"]
    /\ UNCHANGED <<worldVars, nmtState>>

\* Faulty: a new handshake leaves the NMT state of the previous connection.
HandleResponseKeepsNmt(k) ==
    /\ phase[k] # "none"
    /\ phase' = [phase EXCEPT ![k] = "HANDSHAKE_COMPLETE"]
    /\ RegisterClient(k)
    /\ SpawnPlayer(k)
    /\ UNCHANGED nmtState

\* Completes the handshake whatever the phase and the cookie, restarts the
\* NMT exchange, registers the client and spawns another set of actors.
HandleResponse(k) ==
    /\ phase[k] # "none"
    /\ phase' = [phase EXCEPT ![k] = "HANDSHAKE_COMPLETE"]
    /\ nmtState' = [nmtState EXCEPT ![k] = 0]
    /\ RegisterClient(k)
    /\ SpawnPlayer(k)

-----------------------------------------------------------------------------
(* Control messages                                                        *)

Advance(k, n) == nmtState' = [nmtState EXCEPT ![k] = n] /\ UNCHANGED phase

\* Faulty: as in the mode without replay, Netspeed is taken in any later state.
LegacyReactsAgain(k, m) ==
    \/ m = "Hello" /\ nmtState[k] = 0 /\ Advance(k, 1)
    \/ m = "Login" /\ nmtState[k] = 1 /\ Advance(k, 2)
    \/ m = "Netspeed" /\ nmtState[k] >= 2 /\ Advance(k, 3)
    \/ /\ m \in {"Join", "GameSpecific"} /\ nmtState[k] >= 2
       /\ nmtState' = [nmtState EXCEPT ![k] = 4]
       /\ phase' = [phase EXCEPT ![k] = "CONNECTED"]

\* The legacy machine: Hello, Login, Netspeed, then Join or GameSpecific.
LegacyReacts(k, m) ==
    \/ m = "Hello" /\ nmtState[k] = 0 /\ Advance(k, 1)
    \/ m = "Login" /\ nmtState[k] = 1 /\ Advance(k, 2)
    \/ m = "Netspeed" /\ nmtState[k] \in 2..3 /\ Advance(k, 3)
    \/ /\ m \in {"Join", "GameSpecific"} /\ nmtState[k] \in 2..3
       /\ nmtState' = [nmtState EXCEPT ![k] = 4]
       /\ phase' = [phase EXCEPT ![k] = "CONNECTED"]

LegacyIgnores(k, m) ==
    /\ ~ \/ m = "Hello" /\ nmtState[k] = 0
         \/ m = "Login" /\ nmtState[k] = 1
         \/ m \in {"Netspeed", "Join", "GameSpecific"} /\ nmtState[k] \in 2..3
    /\ UNCHANGED legacyVars

\* Faulty: GameSpecific enters the world only after a Join.
WorldReactsInOrder(k, m) ==
    \/ m = "Login" /\ NmtLogin(k)
    \/ m = "Welcome" /\ NmtWelcome(k)
    \/ m = "Join" /\ NmtJoin(k)
    \/ m = "GameSpecific" /\ session[k] # "SPAWNING" /\ UNCHANGED worldVars
    \/ m = "GameSpecific" /\ session[k] = "SPAWNING" /\ NmtGameSpecific(k)
    \/ m = "Abort" /\ NmtAbort(k)

\* maybe_dispatch_nmt_to_live_world: the same message, LiveWorld's rules.  The
\* login always carries a player name ("unknown" if the provider has none).
WorldReacts(k, m) ==
    \/ m = "Login" /\ NmtLogin(k)
    \/ m = "Welcome" /\ NmtWelcome(k)
    \/ m = "Join" /\ NmtJoin(k)
    \/ m = "GameSpecific" /\ NmtGameSpecific(k)
    \/ m = "Abort" /\ NmtAbort(k)

WorldIgnores(k, m) ==
    /\ ~ \/ m = "Login" /\ session[k] = "NMT_NEGOTIATING"
         \/ m = "Welcome" /\ session[k] = "AUTHENTICATED"
         \/ m = "Join" /\ session[k] = "LOADING_MAP"
         \/ m = "GameSpecific"
              /\ session[k] \in {"AUTHENTICATED", "LOADING_MAP", "SPAWNING"}
         \/ m = "Abort" /\ session[k] # "none"
    /\ UNCHANGED worldVars

\* A data packet with one control message.  An address GameServer has never
\* seen still reaches LiveWorld, which has no session for it.
HandleMessage(k, m) ==
    /\ phase[k] # "none"
    /\ WorldReacts(k, m) \/ WorldIgnores(k, m)
    /\ LegacyReacts(k, m) \/ LegacyIgnores(k, m)

-----------------------------------------------------------------------------

\* The idle limit passed: "removing" the client only resets its phase.
TimeOut(k) ==
    /\ phase[k] \in {"HANDSHAKE_COMPLETE", "CONNECTED"}
    /\ phase' = [phase EXCEPT ![k] = "AWAITING_INITIAL"]
    /\ UNCHANGED <<worldVars, nmtState>>

ConnNext ==
    \E k \in Keys : \/ HandleInitial(k) \/ HandleResponse(k) \/ TimeOut(k)
                    \/ \E m \in Messages : HandleMessage(k, m)

ConnSpec == ConnInit /\ [][ConnNext]_connVars

-----------------------------------------------------------------------------
(* Properties                                                              *)

\* LiveWorld is never behind the legacy machine: a client GameServer has
\* welcomed is logged in, or on its way out, in LiveWorld too, across
\* retransmissions, reconnects, aborts and timeouts.
WorldKeepsUp ==
    \A k \in Keys :
        session[k] # "none" /\ nmtState[k] >= 2
        => session[k] \in LoggedIn \cup {"DISCONNECTING"}

\* The GameSpecific that starts the world for GameServer also puts LiveWorld's
\* session in the world, from whichever phase retransmitted, skipped or
\* reordered control messages have left it in, unless the client has aborted.
EntersTogether ==
    [][\A k \in Keys :
         /\ session[k] # "none" /\ HandleMessage(k, "GameSpecific")
         /\ nmtState[k] < 4 /\ nmtState'[k] = 4
         => session'[k] \in {"IN_WORLD", "DISCONNECTING"}]_connVars
=============================================================================
