------------------------------ MODULE MCOmpTurn ------------------------------
\* Instance of OmpTurn for TLC.
EXTENDS OmpTurn
=============================================================================
