--------------------------- MODULE ConnectionProofs ---------------------------
(* Proofs about Connection: GameServer's connection state and LiveWorld's    *)
(* session, driven by the same packets, for any set of players.              *)
EXTENDS Connection, LiveWorldProofs

-----------------------------------------------------------------------------
(* The inductive invariant.                                                *)

\* With GameServer doing the handshakes, the session phases of LiveWorld's
\* own handshake are never entered.
NoWorldHandshake ==
    \A k \in Keys : session[k] \notin {"AWAITING_HANDSHAKE", "HANDSHAKE_IN_PROGRESS"}

ConnInv == WorldInv /\ ConnTypeOK /\ NoWorldHandshake /\ WorldKeepsUp

LEMMA PhaseNames ==
    /\ "NMT_NEGOTIATING" \in Phases \ LoggedIn
    /\ "none" \notin Phases
    /\ LoggedIn = {"AUTHENTICATED", "LOADING_MAP", "SPAWNING", "IN_WORLD"}
    /\ Phases = {"AWAITING_HANDSHAKE", "HANDSHAKE_IN_PROGRESS",
                 "NMT_NEGOTIATING", "DISCONNECTING"} \cup LoggedIn
  BY DEF Phases, LoggedIn

LEMMA InitConnInv == ConnInit => ConnInv
<1> SUFFICES ASSUME ConnInit PROVE ConnInv
  OBVIOUS
<1>1. WorldInv
  BY InitWorldInv DEF ConnInit
<1> QED
  BY <1>1 DEF ConnInit, WorldInit, ConnInv, WorldInv, ConnTypeOK,
     NoWorldHandshake, WorldKeepsUp

-----------------------------------------------------------------------------
(* StatelessConnect and the idle limit.                                    *)

LEMMA UntouchedWorld ==
    ASSUME WorldInv, UNCHANGED worldVars
    PROVE  WorldInv' /\ session' = session
<1>1. WorldInv'
  BY NextWorldInv
<1> QED
  BY <1>1 DEF worldVars

LEMMA RestartKeepsInv ==
    ASSUME ConnInv, NEW k \in Keys, HandleInitial(k) \/ TimeOut(k)
    PROVE  ConnInv'
<1> USE DEF ConnInv
<1>1. WorldInv' /\ session' = session
  BY UntouchedWorld DEF HandleInitial, TimeOut
<1>2. nmtState' = nmtState
  BY DEF HandleInitial, TimeOut
<1>3. ConnTypeOK'
  BY <1>1, <1>2 DEF ConnTypeOK, WorldInv, HandleInitial, TimeOut, LegacyPhases
<1>4. NoWorldHandshake' /\ WorldKeepsUp'
  BY <1>1, <1>2 DEF NoWorldHandshake, WorldKeepsUp
<1> QED
  BY <1>1, <1>3, <1>4

LEMMA ResponseKeepsInv ==
    ASSUME ConnInv, NEW k \in Keys, HandleResponse(k)
    PROVE  ConnInv'
<1> USE DEF ConnInv
<1>1. session \in [Keys -> Phases \cup {"none"}]
  BY DEF WorldInv, WorldTypeOK
<1>2. /\ session' = [session EXCEPT ![k] =
           IF @ \in {"none", "AWAITING_HANDSHAKE"} THEN "NMT_NEGOTIATING" ELSE @]
      /\ knownClients' = knownClients \cup {k}
      /\ nmtState' = [nmtState EXCEPT ![k] = 0]
      /\ phase' = [phase EXCEPT ![k] = "HANDSHAKE_COMPLETE"]
  BY DEF HandleResponse, RegisterClient
<1>3. /\ AllocatePlayerBlock(k)
      /\ block' = [block EXCEPT ![k] = FreshBlock]
      /\ actors' \subseteq actors \cup [guid : PlayerGuids(FreshBlock), owner : {k}]
      /\ used' = used \cup PlayerGuids(FreshBlock)
  BY DEF HandleResponse, SpawnPlayer
<1>4. AllocationStep(k)
  BY <1>1, <1>2, <1>3, PhaseNames DEF AllocationStep
<1>5. WorldInv'
  BY <1>4, AllocationKeepsInv
<1>6. ConnTypeOK'
  BY <1>2, <1>5 DEF ConnTypeOK, WorldInv, LegacyPhases
<1>7. NoWorldHandshake' /\ WorldKeepsUp'
  BY <1>1, <1>2 DEF NoWorldHandshake, WorldKeepsUp, ConnTypeOK
<1> QED
  BY <1>5, <1>6, <1>7

-----------------------------------------------------------------------------
(* Control messages.                                                       *)

\* What a control message does to LiveWorld's session.
LEMMA WorldSide ==
    ASSUME ConnInv, NEW k \in Keys, NEW m \in Messages,
           WorldReacts(k, m) \/ WorldIgnores(k, m)
    PROVE  /\ WorldInv'
           /\ session' \in [Keys -> Phases \cup {"none"}]
           /\ \A j \in Keys \ {k} : session'[j] = session[j]
           /\ session'[k] = session[k] \/ session'[k] \in LoggedIn \cup {"DISCONNECTING"}
           /\ session'[k] = "none" <=> session[k] = "none"
           /\ m = "Login" => session'[k] # "NMT_NEGOTIATING"
           /\ m = "GameSpecific" /\ session[k] \in LoggedIn => session'[k] = "IN_WORLD"
<1> USE DEF ConnInv
<1>1. session \in [Keys -> Phases \cup {"none"}]
  BY DEF WorldInv, WorldTypeOK
<1>2. CASE WorldReacts(k, m)
  <2>1. Dispatch(k)
    BY <1>2 DEF WorldReacts, Dispatch
  <2>2. WorldInv'
    BY <2>1, DispatchKeepsInv
  <2>3. PICK p \in LoggedIn \cup {"DISCONNECTING"} :
          /\ session' = [session EXCEPT ![k] = p]
          /\ session[k] # "none"
          /\ m = "GameSpecific" => p = "IN_WORLD"
    BY <1>2, PhaseNames DEF WorldReacts, NmtLogin, NmtWelcome, NmtJoin,
       NmtGameSpecific, NmtAbort, TransitionTo
  <2> QED
    BY <1>1, <2>2, <2>3, PhaseNames
<1>3. CASE WorldIgnores(k, m)
  <2>1. WorldInv' /\ session' = session
    BY <1>3, UntouchedWorld DEF WorldIgnores
  <2> QED
    BY <1>1, <1>3, <2>1, PhaseNames DEF WorldIgnores
<1> QED
  BY <1>2, <1>3

\* What it does to the legacy machine.
LEMMA LegacySide ==
    ASSUME ConnInv, NEW k \in Keys, NEW m \in Messages,
           LegacyReacts(k, m) \/ LegacyIgnores(k, m)
    PROVE  /\ phase' \in [Keys -> LegacyPhases \cup {"none"}]
           /\ nmtState' \in [Keys -> 0..4]
           /\ \A j \in Keys : phase'[j] = "CONNECTED" => nmtState'[j] = 4
           /\ \A j \in Keys \ {k} : nmtState'[j] = nmtState[j]
           /\ nmtState'[k] >= 2 => nmtState[k] >= 2 \/ m = "Login"
           /\ nmtState'[k] = 4 => nmtState[k] \in 2..4
<1>1. /\ phase \in [Keys -> LegacyPhases \cup {"none"}]
      /\ nmtState \in [Keys -> 0..4]
      /\ \A j \in Keys : phase[j] = "CONNECTED" => nmtState[j] = 4
  BY DEF ConnInv, ConnTypeOK
<1>2. CASE LegacyReacts(k, m)
  <2>1. PICK n \in 1..4 :
          /\ nmtState' = [nmtState EXCEPT ![k] = n]
          /\ \/ phase' = phase /\ nmtState[k] # 4
             \/ n = 4 /\ phase' = [phase EXCEPT ![k] = "CONNECTED"]
          /\ n >= 2 => nmtState[k] \in 2..3 \/ m = "Login"
          /\ n = 4 => nmtState[k] \in 2..3
    BY <1>2 DEF LegacyReacts, Advance
  <2> QED
    BY <1>1, <2>1 DEF LegacyPhases
<1>3. CASE LegacyIgnores(k, m)
  BY <1>1, <1>3 DEF LegacyIgnores, legacyVars
<1> QED
  BY <1>2, <1>3

LEMMA MessageKeepsInv ==
    ASSUME ConnInv, NEW k \in Keys, NEW m \in Messages, HandleMessage(k, m)
    PROVE  ConnInv'
<1>1. /\ WorldInv'
      /\ session' \in [Keys -> Phases \cup {"none"}]
      /\ \A j \in Keys \ {k} : session'[j] = session[j]
      /\ session'[k] = session[k] \/ session'[k] \in LoggedIn \cup {"DISCONNECTING"}
      /\ session'[k] = "none" <=> session[k] = "none"
      /\ m = "Login" => session'[k] # "NMT_NEGOTIATING"
  BY WorldSide DEF HandleMessage
<1>2. /\ phase' \in [Keys -> LegacyPhases \cup {"none"}]
      /\ nmtState' \in [Keys -> 0..4]
      /\ \A j \in Keys : phase'[j] = "CONNECTED" => nmtState'[j] = 4
      /\ \A j \in Keys \ {k} : nmtState'[j] = nmtState[j]
      /\ nmtState'[k] >= 2 => nmtState[k] >= 2 \/ m = "Login"
  BY LegacySide DEF HandleMessage
<1>3. ConnTypeOK'
  BY <1>1, <1>2 DEF ConnTypeOK, WorldInv
<1>4. NoWorldHandshake'
  BY <1>1, PhaseNames DEF ConnInv, NoWorldHandshake
<1>5. WorldKeepsUp'
  <2> SUFFICES ASSUME NEW j \in Keys, session'[j] # "none", nmtState'[j] >= 2
               PROVE  session'[j] \in LoggedIn \cup {"DISCONNECTING"}
    BY DEF WorldKeepsUp
  <2>1. CASE j # k
    BY <1>1, <1>2, <2>1 DEF ConnInv, WorldKeepsUp
  <2>2. CASE j = k /\ nmtState[k] >= 2
    BY <1>1, <2>2 DEF ConnInv, WorldKeepsUp
  <2>3. CASE j = k /\ m = "Login"
    BY <1>1, <1>4, <2>3, PhaseNames DEF NoWorldHandshake
  <2> QED
    BY <1>2, <2>1, <2>2, <2>3
<1> QED
  BY <1>1, <1>3, <1>4, <1>5 DEF ConnInv

-----------------------------------------------------------------------------

LEMMA NextConnInv == ConnInv /\ [ConnNext]_connVars => ConnInv'
<1> SUFFICES ASSUME ConnInv, [ConnNext]_connVars PROVE ConnInv'
  OBVIOUS
<1>1. CASE \E k \in Keys : HandleInitial(k) \/ TimeOut(k)
  BY <1>1, RestartKeepsInv
<1>2. CASE \E k \in Keys : HandleResponse(k)
  BY <1>2, ResponseKeepsInv
<1>3. CASE \E k \in Keys, m \in Messages : HandleMessage(k, m)
  BY <1>3, MessageKeepsInv
<1>4. CASE UNCHANGED connVars
  <2>1. UNCHANGED worldVars /\ UNCHANGED <<phase, nmtState>>
    BY <1>4 DEF connVars, legacyVars
  <2>2. WorldInv' /\ session' = session
    BY <2>1, UntouchedWorld DEF ConnInv
  <2> QED
    BY <2>1, <2>2 DEF ConnInv, WorldInv, ConnTypeOK, NoWorldHandshake, WorldKeepsUp
<1> QED
  BY <1>1, <1>2, <1>3, <1>4 DEF ConnNext

LEMMA ConnInvariant == ConnSpec => []ConnInv
  BY InitConnInv, NextConnInv, PTL DEF ConnSpec

-----------------------------------------------------------------------------
(* The theorems.                                                           *)

\* Both machines keep their types, and a client is CONNECTED only while its
\* NMT exchange is complete.
THEOREM ConnectionTypeOK == ConnSpec => []ConnTypeOK
<1>1. ConnInv => ConnTypeOK
  BY DEF ConnInv
<1> QED
  BY <1>1, ConnInvariant, PTL

\* LiveWorld is never behind the legacy machine.
THEOREM ConnectionWorldKeepsUp == ConnSpec => []WorldKeepsUp
<1>1. ConnInv => WorldKeepsUp
  BY DEF ConnInv
<1> QED
  BY <1>1, ConnInvariant, PTL

\* The GameSpecific that starts the world for GameServer starts it in
\* LiveWorld too, unless the client has aborted.
THEOREM ConnectionEntersTogether == ConnSpec => EntersTogether
<1>1. ConnInv /\ [ConnNext]_connVars =>
        [\A k \in Keys :
           /\ session[k] # "none" /\ HandleMessage(k, "GameSpecific")
           /\ nmtState[k] < 4 /\ nmtState'[k] = 4
           => session'[k] \in {"IN_WORLD", "DISCONNECTING"}]_connVars
  <2> SUFFICES ASSUME ConnInv, NEW k \in Keys, session[k] # "none",
                      HandleMessage(k, "GameSpecific"),
                      nmtState[k] < 4, nmtState'[k] = 4
               PROVE  session'[k] \in {"IN_WORLD", "DISCONNECTING"}
    OBVIOUS
  <2>1. "GameSpecific" \in Messages
    BY DEF Messages
  <2>2. nmtState[k] \in 2..4
    BY <2>1, LegacySide DEF HandleMessage
  <2>3. session[k] \in LoggedIn \cup {"DISCONNECTING"}
    BY <2>2 DEF ConnInv, WorldKeepsUp
  <2>4. CASE session[k] \in LoggedIn
    BY <2>1, <2>4, WorldSide DEF HandleMessage
  <2>5. CASE session[k] = "DISCONNECTING"
    BY <2>5 DEF HandleMessage, WorldReacts, WorldIgnores, NmtGameSpecific, worldVars
  <2> QED
    BY <2>3, <2>4, <2>5
<1> QED
  BY <1>1, ConnInvariant, PTL DEF ConnSpec, EntersTogether

-----------------------------------------------------------------------------
(* LiveWorld's guarantees hold of the composition too, although its          *)
(* HandleResponse registers a client and spawns its actors in one step.      *)

\* However often a client repeats its handshake, and wherever its control
\* messages meet that, a logged-in player holds the block the allocator records
\* for it, players' blocks stay apart, and bunches go only to clients with a
\* session.
THEOREM ConnectionBlocks ==
    ConnSpec => [](BlockOwnership /\ BlocksDisjoint /\ ClientsHaveSessions)
<1>1. ConnInv => BlockOwnership /\ BlocksDisjoint /\ ClientsHaveSessions
  BY SlotsDisjoint DEF ConnInv, WorldInv
<1> QED
  BY <1>1, ConnInvariant, PTL

\* Every Response, the repeated ones included, spawns its actors under guids no
\* actor has ever had (handle_response, spawn_session_g_actors_for).
THEOREM ConnectionFreshGuids ==
    ConnSpec => [][\A k \in Keys : HandleResponse(k) =>
                     PlayerGuids(FreshBlock) \cap used = {}]_connVars
<1>1. ConnInv /\ [ConnNext]_connVars =>
        [\A k \in Keys : HandleResponse(k) =>
           PlayerGuids(FreshBlock) \cap used = {}]_connVars
  BY SpawnsUnused DEF ConnInv, HandleResponse, SpawnPlayer
<1> QED
  BY <1>1, ConnInvariant, PTL DEF ConnSpec
=============================================================================
