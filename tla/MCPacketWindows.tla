--------------------------- MODULE MCPacketWindows ---------------------------
(* An instance of PacketWindows for TLC: the threads are alike. *)
EXTENDS PacketWindows, TLC

Symmetry == Permutations(Thread)
=============================================================================
