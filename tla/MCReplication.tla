--------------------------- MODULE MCReplication ---------------------------
(* Instances of Replication for TLC.                                        *)
EXTENDS Replication, TLC

Symmetry == Permutations(Clients) \cup Permutations(Guids)
             \cup Permutations(Threads)
=============================================================================
