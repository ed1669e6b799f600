--------------------------- MODULE LiveWorldProofs ---------------------------
(* Proofs about LiveWorld, for any set of players and any number of blocks. *)
EXTENDS LiveWorld, TLAPS

-----------------------------------------------------------------------------
(* Arithmetic of the blocks.                                               *)

\* The base of a slot when nothing wraps around.
SlotBase(s) == DynamicBase + s * BlockSize

LEMMA ConstantsNat ==
    /\ DynamicBase \in Nat /\ BlockSize \in Nat /\ LastOffset \in Nat
    /\ Space \in Nat /\ MaxSlots \in Nat
    /\ DynamicBase > 0 /\ 4 < BlockSize
    /\ SlotBase(MaxSlots) < Space
  BY AllocatorAssumption DEF SlotBase

LEMMA SlotBaseNat ==
    ASSUME NEW s \in Nat
    PROVE  SlotBase(s) \in Nat /\ SlotBase(s) > 0
<1>1. s * BlockSize \in Nat
  BY ConstantsNat
<1> QED
  BY <1>1, ConstantsNat DEF SlotBase

\* A later slot begins after the end of an earlier one.
LEMMA SlotOrder ==
    ASSUME NEW s \in Nat, NEW t \in Nat, s < t
    PROVE  SlotBase(s) + BlockSize <= SlotBase(t)
<1> DEFINE d == t - (s + 1)
<1>1. d \in Nat /\ t = s + 1 + d
  OBVIOUS
<1>2. t * BlockSize = s * BlockSize + BlockSize + d * BlockSize
  BY <1>1, ConstantsNat
<1>3. s * BlockSize \in Nat /\ d * BlockSize \in Nat
  BY <1>1, ConstantsNat
<1> HIDE DEF d
<1> QED
  BY <1>2, <1>3, ConstantsNat DEF SlotBase

LEMMA SlotNext ==
    ASSUME NEW s \in Nat
    PROVE  SlotBase(s + 1) = SlotBase(s) + BlockSize
<1>1. (s + 1) * BlockSize = s * BlockSize + BlockSize /\ s * BlockSize \in Nat
  BY ConstantsNat
<1> QED
  BY <1>1, ConstantsNat DEF SlotBase

\* No allocation within the bound wraps around or is refused.
LEMMA FreshIsSlot ==
    ASSUME nextSlot \in Nat, nextSlot < MaxSlots
    PROVE  FreshBlock = SlotBase(nextSlot) /\ ~Exhausted(nextSlot)
<1>1. SlotBase(nextSlot) \in Nat /\ SlotBase(nextSlot) + BlockSize < Space
  BY SlotBaseNat, SlotOrder, ConstantsNat
<1>2. BaseOf(nextSlot) = SlotBase(nextSlot)
  <2>1. BaseOf(nextSlot) = SlotBase(nextSlot) % Space
    BY DEF BaseOf, SlotBase
  <2> QED
    BY <1>1, <2>1, ConstantsNat
<1>3. (BaseOf(nextSlot) + BlockSize) % Space = BaseOf(nextSlot) + BlockSize
  BY <1>1, <1>2, ConstantsNat
<1>4. ~Exhausted(nextSlot)
  BY <1>1, <1>2, <1>3, ConstantsNat DEF Exhausted
<1> QED
  BY <1>2, <1>4 DEF FreshBlock

-----------------------------------------------------------------------------
(* The inductive invariant.                                                *)

\* Every block a session holds is one of the slots issued so far.
Issued ==
    \A k \in Keys : block[k] # 0 =>
        \E s \in Nat : s < nextSlot /\ block[k] = SlotBase(s)

\* No two sessions hold the same block.
Distinct ==
    \A j, k \in Keys : j # k /\ block[j] # 0 => block[j] # block[k]

\* Every guid ever registered lies below the next slot.
UsedBelow == \A g \in used : g < SlotBase(nextSlot)

WorldInv == /\ WorldTypeOK /\ BlockOwnership /\ ClientsHaveSessions
            /\ Issued /\ Distinct /\ UsedBelow

LEMMA TypeFacts ==
    ASSUME WorldTypeOK
    PROVE  /\ nextSlot \in Nat /\ nextSlot <= MaxSlots
           /\ SlotBase(nextSlot) \in Nat
           /\ \A k \in Keys : table[k] < SlotBase(nextSlot)
  BY SlotBaseNat, ConstantsNat DEF WorldTypeOK, SlotBase

\* What an allocation does, free of the 64-bit arithmetic.
LEMMA Allocates ==
    ASSUME WorldTypeOK, NEW k \in Keys, AllocatePlayerBlock(k)
    PROVE  /\ nextSlot \in Nat /\ nextSlot < MaxSlots /\ nextSlot' = nextSlot + 1
           /\ FreshBlock = SlotBase(nextSlot)
           /\ FreshBlock \in Nat /\ FreshBlock > 0
           /\ SlotBase(nextSlot') = FreshBlock + BlockSize
           /\ table' = [table EXCEPT ![k] = FreshBlock]
<1>1. nextSlot \in Nat /\ nextSlot < MaxSlots /\ nextSlot' = nextSlot + 1
  BY TypeFacts DEF AllocatePlayerBlock
<1>2. FreshBlock = SlotBase(nextSlot) /\ ~Exhausted(nextSlot)
  BY <1>1, FreshIsSlot
<1>3. SlotBase(nextSlot') = SlotBase(nextSlot) + BlockSize
  BY <1>1, SlotNext
<1> QED
  BY <1>1, <1>2, <1>3, SlotBaseNat DEF AllocatePlayerBlock

\* A fresh block is above every block a session holds.
LEMMA FreshAbove ==
    ASSUME WorldTypeOK, Issued, NEW k \in Keys, AllocatePlayerBlock(k),
           NEW j \in Keys, block[j] # 0
    PROVE  block[j] + BlockSize <= FreshBlock
<1>1. PICK s \in Nat : s < nextSlot /\ block[j] = SlotBase(s)
  BY DEF Issued
<1> QED
  BY <1>1, Allocates, SlotOrder

LEMMA InitWorldInv == WorldInit => WorldInv
<1> SUFFICES ASSUME WorldInit PROVE WorldInv
  OBVIOUS
<1>1. 0 * BlockSize = 0
  BY ConstantsNat
<1>2. WorldTypeOK
  BY <1>1, ConstantsNat DEF WorldInit, AllocatorInit, WorldTypeOK
<1> QED
  BY <1>2 DEF WorldInit, AllocatorInit, WorldInv, BlockOwnership,
     ClientsHaveSessions, Issued, Distinct, UsedBelow, LoggedIn

-----------------------------------------------------------------------------
(* The steps, grouped by what they do to the blocks.                       *)

\* A step of k's session that leaves the blocks, the guids and the clients
\* alone: the dispatcher's handlers but two.
PhaseStep(k) ==
    /\ UNCHANGED <<allocatorVars, block, knownClients, actors, used>>
    /\ \E p \in Phases :
         /\ TransitionTo(k, p)
         /\ p \in LoggedIn => session[k] \in LoggedIn

LEMMA PhaseKeepsInv ==
    ASSUME WorldInv, NEW k \in Keys, PhaseStep(k)
    PROVE  WorldInv'
<1>1. PICK p \in Phases : /\ session' = [session EXCEPT ![k] = p]
                          /\ p \in LoggedIn => session[k] \in LoggedIn
  BY DEF PhaseStep, TransitionTo
<1>2. UNCHANGED <<nextSlot, table, block, knownClients, actors, used>>
  BY DEF PhaseStep, allocatorVars
<1>3. "none" \notin Phases
  BY DEF Phases, LoggedIn
<1>4. WorldTypeOK'
  BY <1>1, <1>2 DEF WorldInv, WorldTypeOK
<1>5. BlockOwnership' /\ ClientsHaveSessions'
  BY <1>1, <1>2, <1>3 DEF WorldInv, WorldTypeOK, BlockOwnership, ClientsHaveSessions
<1>6. Issued' /\ Distinct' /\ UsedBelow'
  BY <1>2 DEF WorldInv, Issued, Distinct, UsedBelow, SlotBase
<1> QED
  BY <1>4, <1>5, <1>6 DEF WorldInv

\* A step that gives k a fresh block and may register k and its actors.
AllocationStep(k) ==
    /\ AllocatePlayerBlock(k)
    /\ block' = [block EXCEPT ![k] = FreshBlock]
    /\ session' \in [Keys -> Phases \cup {"none"}]
    /\ \A j \in Keys : session'[j] \in LoggedIn => j = k \/ session[j] \in LoggedIn
    /\ \A j \in Keys : session'[j] = "none" => session[j] = "none"
    /\ \/ knownClients' = knownClients
       \/ knownClients' = knownClients \cup {k} /\ session'[k] # "none"
    /\ \/ UNCHANGED <<actors, used>>
       \/ /\ actors' \subseteq actors \cup [guid : PlayerGuids(FreshBlock), owner : {k}]
          /\ used' = used \cup PlayerGuids(FreshBlock)

LEMMA AllocationKeepsInv ==
    ASSUME WorldInv, NEW k \in Keys, AllocationStep(k)
    PROVE  WorldInv'
<1> USE DEF WorldInv
<1>1. /\ nextSlot \in Nat /\ nextSlot < MaxSlots /\ nextSlot' = nextSlot + 1
      /\ FreshBlock = SlotBase(nextSlot)
      /\ FreshBlock \in Nat /\ FreshBlock > 0
      /\ SlotBase(nextSlot') = FreshBlock + BlockSize
      /\ table' = [table EXCEPT ![k] = FreshBlock]
  BY Allocates DEF AllocationStep
<1>2. block' = [block EXCEPT ![k] = FreshBlock]
  BY DEF AllocationStep
<1>3. PlayerGuids(FreshBlock) \subseteq Nat
      /\ \A g \in PlayerGuids(FreshBlock) : FreshBlock <= g /\ g < FreshBlock + BlockSize
  BY <1>1, ConstantsNat DEF PlayerGuids
<1>4. WorldTypeOK'
  <2>1. nextSlot' \in 0..MaxSlots /\ table' \in [Keys -> Nat] /\ block' \in [Keys -> Nat]
    BY <1>1, <1>2, ConstantsNat DEF WorldTypeOK
  <2>2. \A j \in Keys : table'[j] < SlotBase(nextSlot')
    BY <1>1, TypeFacts, ConstantsNat DEF WorldTypeOK
  <2>3. actors' \subseteq [guid : Nat, owner : Keys] /\ used' \subseteq Nat
        /\ {a.guid : a \in actors'} \subseteq used'
    BY <1>3 DEF WorldTypeOK, AllocationStep
  <2> QED
    BY <2>1, <2>2, <2>3 DEF WorldTypeOK, AllocationStep, SlotBase
<1>5. BlockOwnership'
  BY <1>1, <1>2 DEF BlockOwnership, WorldTypeOK, AllocationStep
<1>6. ClientsHaveSessions'
  <2> SUFFICES ASSUME NEW j \in knownClients', session'[j] = "none"
               PROVE  FALSE
    BY DEF ClientsHaveSessions
  <2>1. j \in knownClients
    BY DEF AllocationStep
  <2> QED
    BY <2>1 DEF ClientsHaveSessions, WorldTypeOK, AllocationStep
<1>7. Issued'
  <2> SUFFICES ASSUME NEW j \in Keys, block'[j] # 0
               PROVE  \E s \in Nat : s < nextSlot' /\ block'[j] = SlotBase(s)
    BY DEF Issued, SlotBase
  <2>1. CASE j = k
    BY <1>1, <1>2, <2>1 DEF WorldTypeOK
  <2>2. CASE j # k
    <3>1. PICK s \in Nat : s < nextSlot /\ block[j] = SlotBase(s)
      BY <1>2, <2>2 DEF Issued, WorldTypeOK
    <3> QED
      BY <1>1, <1>2, <2>2, <3>1 DEF WorldTypeOK
  <2> QED
    BY <2>1, <2>2
<1>8. Distinct'
  <2>1. \A j \in Keys : block[j] # 0 => block[j] # FreshBlock
    BY <1>1, FreshAbove, ConstantsNat DEF WorldTypeOK, AllocationStep
  <2> QED
    BY <1>1, <1>2, <2>1 DEF Distinct, WorldTypeOK
<1>9. UsedBelow'
  <2>1. \A g \in used : g < SlotBase(nextSlot')
    <3>1. used \subseteq Nat /\ UsedBelow
      BY DEF WorldTypeOK
    <3> HIDE DEF WorldInv
    <3> QED
      BY <1>1, <3>1, ConstantsNat DEF UsedBelow
  <2>2. used' = used \/ used' = used \cup PlayerGuids(FreshBlock)
    BY DEF AllocationStep
  <2>3. \A g \in PlayerGuids(FreshBlock) : g < SlotBase(nextSlot')
    BY <1>1, <1>3
  <2>4. \A g \in used' : g < SlotBase(nextSlot')
    BY <2>1, <2>2, <2>3
  <2> QED
    BY <2>4 DEF UsedBelow, SlotBase
<1> QED
  BY <1>4, <1>5, <1>6, <1>7, <1>8, <1>9

\* A step that takes k out: its block may be released, and it is logged out.
LeaveStep(k) ==
    /\ \/ ReleasePlayerBlock(k) \/ UNCHANGED allocatorVars
    /\ block' \in {block, [block EXCEPT ![k] = 0]}
    /\ \/ TransitionTo(k, "DISCONNECTING") /\ knownClients' = knownClients
       \/ TransitionTo(k, "none") /\ knownClients' = knownClients \ {k}
    /\ UNCHANGED <<actors, used>>

LEMMA LeaveKeepsInv ==
    ASSUME WorldInv, NEW k \in Keys, LeaveStep(k)
    PROVE  WorldInv'
<1> USE DEF WorldInv
<1>1. nextSlot' = nextSlot /\ table' \in {table, [table EXCEPT ![k] = 0]}
  BY DEF LeaveStep, ReleasePlayerBlock, allocatorVars
<1>2. block' \in {block, [block EXCEPT ![k] = 0]} /\ UNCHANGED <<actors, used>>
  BY DEF LeaveStep
<1>3. PICK p \in {"DISCONNECTING", "none"} :
        /\ session' = [session EXCEPT ![k] = p]
        /\ knownClients' = IF p = "none" THEN knownClients \ {k} ELSE knownClients
  BY DEF LeaveStep, TransitionTo
<1>4. p \in Phases \cup {"none"} /\ p \notin LoggedIn
  BY DEF Phases, LoggedIn
<1>5. WorldTypeOK'
  <2>1. table' \in [Keys -> Nat] /\ block' \in [Keys -> Nat]
    BY <1>1, <1>2 DEF WorldTypeOK
  <2>2. \A j \in Keys : table'[j] < SlotBase(nextSlot)
    BY <1>1, TypeFacts, SlotBaseNat DEF WorldTypeOK
  <2>3. knownClients' \subseteq Keys /\ session' \in [Keys -> Phases \cup {"none"}]
    BY <1>3, <1>4 DEF WorldTypeOK
  <2> QED
    BY <1>1, <1>2, <2>1, <2>2, <2>3 DEF WorldTypeOK, SlotBase
<1>6. BlockOwnership'
  <2> SUFFICES ASSUME NEW j \in Keys, session'[j] \in LoggedIn
               PROVE  block'[j] # 0 /\ table'[j] = block'[j]
    BY DEF BlockOwnership
  <2>1. j # k /\ session[j] \in LoggedIn
    BY <1>3, <1>4 DEF WorldTypeOK
  <2>2. block'[j] = block[j] /\ table'[j] = table[j]
    BY <1>1, <1>2, <2>1 DEF WorldTypeOK
  <2> QED
    BY <2>1, <2>2 DEF BlockOwnership
<1>7. ClientsHaveSessions'
  BY <1>3 DEF ClientsHaveSessions, WorldTypeOK
<1>8. \A j \in Keys : block'[j] # 0 => block'[j] = block[j]
  BY <1>2 DEF WorldTypeOK
<1>9. Issued' /\ Distinct'
  BY <1>1, <1>8 DEF Issued, Distinct, SlotBase
<1>10. UsedBelow'
  BY <1>1, <1>2 DEF UsedBelow, SlotBase
<1> QED
  BY <1>5, <1>6, <1>7, <1>9, <1>10

LEMMA ConnectKeepsInv ==
    ASSUME WorldInv, NEW k \in Keys, OnClientConnected(k)
    PROVE  WorldInv'
<1> USE DEF WorldInv
<1>1. UNCHANGED <<nextSlot, table, block, actors, used>>
  BY DEF OnClientConnected, allocatorVars
<1>2. /\ session' = [session EXCEPT ![k] =
           IF @ \in {"none", "AWAITING_HANDSHAKE"} THEN "NMT_NEGOTIATING" ELSE @]
      /\ knownClients' = knownClients \cup {k}
  BY DEF OnClientConnected, RegisterClient
<1>3. "NMT_NEGOTIATING" \in Phases /\ "NMT_NEGOTIATING" \notin LoggedIn
  BY DEF Phases, LoggedIn
<1>4. WorldTypeOK'
  BY <1>1, <1>2, <1>3 DEF WorldTypeOK
<1>5. BlockOwnership' /\ ClientsHaveSessions'
  BY <1>1, <1>2, <1>3 DEF WorldTypeOK, BlockOwnership, ClientsHaveSessions
<1>6. Issued' /\ Distinct' /\ UsedBelow'
  BY <1>1 DEF Issued, Distinct, UsedBelow, SlotBase
<1> QED
  BY <1>4, <1>5, <1>6

LEMMA DestroyKeepsInv ==
    ASSUME WorldInv, NEW a \in actors, DestroyActor(a)
    PROVE  WorldInv'
<1>1. actors' \subseteq actors
      /\ UNCHANGED <<nextSlot, table, session, block, knownClients, used>>
  BY DEF DestroyActor, allocatorVars
<1> QED
  BY <1>1 DEF WorldInv, WorldTypeOK, BlockOwnership, ClientsHaveSessions,
     Issued, Distinct, UsedBelow, SlotBase

-----------------------------------------------------------------------------

LEMMA DispatchKeepsInv ==
    ASSUME WorldInv, NEW k \in Keys, Dispatch(k)
    PROVE  WorldInv'
<1>1. CASE \/ HandshakeInitial(k) \/ HandshakeResponse(k) \/ NmtWelcome(k)
           \/ NmtJoin(k) \/ NmtGameSpecific(k) \/ NmtAbort(k)
  <2>1. PhaseStep(k)
    BY <1>1 DEF HandshakeInitial, HandshakeResponse, NmtWelcome, NmtJoin,
       NmtGameSpecific, NmtAbort, PhaseStep, Phases, LoggedIn
  <2> QED
    BY <2>1, PhaseKeepsInv
<1>2. CASE NmtLogin(k)
  <2>1. session \in [Keys -> Phases \cup {"none"}]
    BY DEF WorldInv, WorldTypeOK
  <2>2. AllocationStep(k)
    BY <1>2, <2>1 DEF NmtLogin, TransitionTo, AllocationStep, Phases, LoggedIn
  <2> QED
    BY <2>2, AllocationKeepsInv
<1>3. CASE ClientDisconnect(k)
  <2>1. LeaveStep(k)
    BY <1>3 DEF ClientDisconnect, LeaveStep
  <2> QED
    BY <2>1, LeaveKeepsInv
<1> QED
  BY <1>1, <1>2, <1>3 DEF Dispatch

LEMMA SpawnKeepsInv ==
    ASSUME WorldInv, NEW k \in Keys, SpawnSessionGActorsFor(k)
    PROVE  WorldInv'
<1>1. session \in [Keys -> Phases \cup {"none"}]
  BY DEF WorldInv, WorldTypeOK
<1>2. session[k] # "none" /\ session' = session /\ knownClients' = knownClients
  BY DEF SpawnSessionGActorsFor
<1>3. /\ AllocatePlayerBlock(k)
      /\ block' = [block EXCEPT ![k] = FreshBlock]
      /\ actors' \subseteq actors \cup [guid : PlayerGuids(FreshBlock), owner : {k}]
      /\ used' = used \cup PlayerGuids(FreshBlock)
  BY DEF SpawnSessionGActorsFor, SpawnPlayer
<1>4. AllocationStep(k)
  BY <1>1, <1>2, <1>3 DEF AllocationStep
<1> QED
  BY <1>4, AllocationKeepsInv

LEMMA NextWorldInv == WorldInv /\ [WorldNext]_worldVars => WorldInv'
<1> SUFFICES ASSUME WorldInv, [WorldNext]_worldVars PROVE WorldInv'
  OBVIOUS
<1>1. CASE \E k \in Keys : Dispatch(k)
  BY <1>1, DispatchKeepsInv
<1>2. CASE \E k \in Keys : OnClientConnected(k)
  BY <1>2, ConnectKeepsInv
<1>3. CASE \E k \in Keys : OnClientDisconnected(k)
  <2>1. PICK k \in Keys : LeaveStep(k)
    BY <1>3 DEF OnClientDisconnected, LeaveStep
  <2> QED
    BY <2>1, LeaveKeepsInv
<1>4. CASE \E k \in Keys : SpawnSessionGActorsFor(k)
  BY <1>4, SpawnKeepsInv
<1>5. CASE \E a \in actors : DestroyActor(a)
  BY <1>5, DestroyKeepsInv
<1>6. CASE UNCHANGED worldVars
  BY <1>6 DEF worldVars, allocatorVars, WorldInv, WorldTypeOK, BlockOwnership,
     ClientsHaveSessions, Issued, Distinct, UsedBelow, SlotBase
<1> QED
  BY <1>1, <1>2, <1>3, <1>4, <1>5, <1>6 DEF WorldNext

LEMMA WorldInvariant == WorldSpec => []WorldInv
  BY InitWorldInv, NextWorldInv, PTL DEF WorldSpec

LEMMA SlotsDisjoint == WorldInv => BlocksDisjoint
<1> SUFFICES ASSUME WorldInv, NEW j \in Keys, NEW k \in Keys,
                    j # k, block[j] # 0, block[k] # 0
             PROVE  \/ block[j] + BlockSize <= block[k]
                    \/ block[k] + BlockSize <= block[j]
  BY DEF BlocksDisjoint
<1>1. PICK s \in Nat : block[j] = SlotBase(s)
  BY DEF WorldInv, Issued
<1>2. PICK t \in Nat : block[k] = SlotBase(t)
  BY DEF WorldInv, Issued
<1>3. s # t
  BY <1>1, <1>2 DEF WorldInv, Distinct
<1>4. s < t \/ t < s
  BY <1>3
<1> QED
  BY <1>1, <1>2, <1>4, SlotOrder

\* The guids of the block a spawn takes have never been used.
LEMMA SpawnsUnused ==
    ASSUME WorldInv, NEW k \in Keys, AllocatePlayerBlock(k)
    PROVE  PlayerGuids(FreshBlock) \cap used = {}
<1>1. FreshBlock = SlotBase(nextSlot) /\ FreshBlock \in Nat
  BY Allocates DEF WorldInv
<1>2. \A g \in PlayerGuids(FreshBlock) : FreshBlock <= g /\ g \in Nat
  BY <1>1 DEF PlayerGuids
<1>3. \A g \in used : g \in Nat /\ g < FreshBlock
  BY <1>1 DEF WorldInv, WorldTypeOK, UsedBelow
<1> QED
  BY <1>1, <1>2, <1>3

-----------------------------------------------------------------------------
(* The theorems.                                                           *)

\* Sessions, blocks and actors keep their types, and every block recorded in
\* the allocator lies below the next slot.
THEOREM LiveWorldTypeOK == WorldSpec => []WorldTypeOK
<1>1. WorldInv => WorldTypeOK
  BY DEF WorldInv
<1> QED
  BY <1>1, WorldInvariant, PTL

\* A logged-in player holds the block the allocator records for it.
THEOREM LiveWorldBlockOwnership == WorldSpec => []BlockOwnership
<1>1. WorldInv => BlockOwnership
  BY DEF WorldInv
<1> QED
  BY <1>1, WorldInvariant, PTL

\* The visibility manager's clients have sessions.
THEOREM LiveWorldClientsHaveSessions == WorldSpec => []ClientsHaveSessions
<1>1. WorldInv => ClientsHaveSessions
  BY DEF WorldInv
<1> QED
  BY <1>1, WorldInvariant, PTL

\* The blocks of any two players are disjoint, released ones included.
THEOREM LiveWorldBlocksDisjoint == WorldSpec => []BlocksDisjoint
  BY SlotsDisjoint, WorldInvariant, PTL

\* A player's actors are registered under guids no actor has ever had.
THEOREM LiveWorldFreshGuids == WorldSpec => FreshGuids
<1>1. WorldInv /\ [WorldNext]_worldVars =>
        [\A k \in Keys : SpawnSessionGActorsFor(k) =>
           PlayerGuids(FreshBlock) \cap used = {}]_worldVars
  BY SpawnsUnused DEF SpawnSessionGActorsFor, SpawnPlayer
<1> QED
  BY <1>1, WorldInvariant, PTL DEF WorldSpec, FreshGuids
=============================================================================
