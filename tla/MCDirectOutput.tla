--------------------------- MODULE MCDirectOutput ---------------------------
(* Instances of DirectOutput for TLC. *)
EXTENDS DirectOutput
=============================================================================
