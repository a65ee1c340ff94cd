--------------------------- MODULE MCOmpDelivery ---------------------------
(***************************************************************************)
(* Instances of OmpDelivery for TLC.  Messages are interchangeable.        *)
(***************************************************************************)
EXTENDS OmpDelivery

Symmetry == Permutations(Msgs)
=============================================================================
