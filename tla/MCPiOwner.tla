------------------------------ MODULE MCPiOwner ------------------------------
\* Instances of PiOwner for TLC; messages are interchangeable where no liveness is checked.
EXTENDS PiOwner, TLC
CONSTANTS m1, m2, a

Symmetry == Permutations(Msgs)
=============================================================================
