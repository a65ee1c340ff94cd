------------------------------- MODULE MCOmpRpc -------------------------------
(* Instances of OmpRpc for TLC. *)
EXTENDS OmpRpc
=============================================================================
