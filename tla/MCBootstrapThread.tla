--------------------------- MODULE MCBootstrapThread ---------------------------
(* Instances of BootstrapThread for TLC.                                    *)
EXTENDS BootstrapThread, TLC

\* A base of its own for each connection, the last one next to the wrap.
MCReliableBase == [k \in Clients |-> [n \in 0..MaxConnections |-> FieldSize - 1 - n]]
=============================================================================
