-------------------------- MODULE MCStatelessFlow --------------------------
(* Instances of StatelessFlow for TLC. *)
EXTENDS StatelessFlow
=============================================================================
