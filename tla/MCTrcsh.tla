------------------------------- MODULE MCTrcsh -------------------------------
EXTENDS Trcsh
=============================================================================
