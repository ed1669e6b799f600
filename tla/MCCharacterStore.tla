--------------------------- MODULE MCCharacterStore ---------------------------
EXTENDS CharacterStore, TLC

\* The characters differ: the strings of some cannot be written.
Symmetry == Permutations(Streams)
=============================================================================
