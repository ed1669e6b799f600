------------------------------ MODULE MCTether ------------------------------
EXTENDS Tether
=============================================================================
