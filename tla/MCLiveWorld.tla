---------------------------- MODULE MCLiveWorld ----------------------------
(* Instances of LiveWorld for TLC.                                          *)
EXTENDS LiveWorld, TLC

Symmetry == Permutations(Keys)
=============================================================================
