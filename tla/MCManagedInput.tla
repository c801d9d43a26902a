--------------------------- MODULE MCManagedInput ---------------------------
(* Instances of ManagedInput for TLC. *)
EXTENDS ManagedInput
=============================================================================
