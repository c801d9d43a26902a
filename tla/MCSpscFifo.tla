----------------------------- MODULE MCSpscFifo -----------------------------
(* An instance of SpscFifo for TLC: two slots, counters of three bits. *)
EXTENDS SpscFifo
=============================================================================
