---------------------------- MODULE MCMemoryPool ----------------------------
(* An instance of MemoryPool for TLC. *)
EXTENDS MemoryPool
=============================================================================
