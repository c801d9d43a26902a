------------------------------ MODULE MCLoader ------------------------------
(* An instance of Loader for TLC. *)
EXTENDS Loader
=============================================================================
