---------------------------- MODULE MCReplayThread ----------------------------
(* Instances of ReplayThread for TLC.                                       *)
EXTENDS ReplayThread, TLC

Symmetry == Permutations(Clients)

\* Connections begin just below the wrap of the 14 bits.
NearTheWrap == [k \in Clients |-> [c \in 0..MaxConnections |-> SeqSpace - 1 - c]]
=============================================================================
