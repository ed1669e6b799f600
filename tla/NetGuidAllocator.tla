--------------------------- MODULE NetGuidAllocator ---------------------------
(***************************************************************************)
(* NetGuidAllocator: hands every allocation the next block of BlockSize    *)
(* NetGUIDs from a counter that never goes back.  A released block leaves  *)
(* player_to_block_ but its slot is never issued again.  The operations    *)
(* are written for the modules whose handlers call them: each allocator of *)
(* the server is used from one thread at a time, so an operation is part   *)
(* of the handler's step.                                                  *)
(***************************************************************************)
EXTENDS Naturals

CONSTANTS
    Keys,         \* player keys: "ip:port" of the client
    DynamicBase,  \* kDynamicBase
    BlockSize,    \* kBlockSize
    LastOffset,   \* offset of the last GUID of a PlayerNetGuidBlock
    Space,        \* 2^64, the width of a base
    MaxSlots      \* bound: allocations

\* The three actors of a player are at offsets 0, 2 and 4.  No allocation
\* within the bound wraps around the 64-bit space.
ASSUME AllocatorAssumption ==
    /\ {DynamicBase, BlockSize, LastOffset, Space, MaxSlots} \subseteq Nat
    /\ DynamicBase > 0 /\ LastOffset >= 4 /\ LastOffset < BlockSize
    /\ DynamicBase + MaxSlots * BlockSize < Space

VARIABLES
    nextSlot,   \* next_slot_
    table       \* player_to_block_: the base of a key's block, 0 if none

allocatorVars == <<nextSlot, table>>

AllocatorInit == nextSlot = 0 /\ table = [k \in Keys |-> 0]

\* Faulty: the stride is the last offset in use, not the block size.
BaseOfStride(slot) == (DynamicBase + slot * LastOffset) % Space

\* 64-bit arithmetic; base 0 is the invalid block returned when exhausted.
BaseOf(slot) == (DynamicBase + slot * BlockSize) % Space
Exhausted(slot) == (BaseOf(slot) + BlockSize) % Space < BaseOf(slot)
FreshBlock == IF Exhausted(nextSlot) THEN 0 ELSE BaseOf(nextSlot)

\* Faulty: issues the slot of the last allocation again after a release.
ReleaseRecycles(k) ==
    /\ nextSlot' = IF table[k] # 0 THEN nextSlot - 1 ELSE nextSlot
    /\ table' = [table EXCEPT ![k] = 0]

AllocatePlayerBlock(k) ==
    /\ nextSlot < MaxSlots
    /\ nextSlot' = nextSlot + 1
    /\ table' = IF Exhausted(nextSlot) THEN table
                ELSE [table EXCEPT ![k] = FreshBlock]

ReleasePlayerBlock(k) ==
    /\ table' = [table EXCEPT ![k] = 0]
    /\ UNCHANGED nextSlot
=============================================================================
