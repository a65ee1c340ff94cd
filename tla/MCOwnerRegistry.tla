-------------------------- MODULE MCOwnerRegistry --------------------------
(***************************************************************************)
(* Instances of OwnerRegistry for TLC.                                     *)
(***************************************************************************)
EXTENDS OwnerRegistry
=============================================================================
