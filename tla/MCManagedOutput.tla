--------------------------- MODULE MCManagedOutput ---------------------------
(* Instances of ManagedOutput for TLC. *)
EXTENDS ManagedOutput
=============================================================================
